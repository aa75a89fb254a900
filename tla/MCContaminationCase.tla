------------------------- MODULE MCContaminationCase -------------------------
(***************************************************************************)
(* The commands clients send to one case.  A scenario asks one question:   *)
(* its commands vary what the question is about and are fixed otherwise.   *)
(* A run takes several scenarios, and a case stays in one of them.         *)
(***************************************************************************)
EXTENDS CaseProperties, TLC

CONSTANT Scenarios

VARIABLE scenario  \* what the clients of the case are up to

Created == {[createdBy |-> "clerk", lead |-> "lead", scopes |-> {"dating"}]}

(* A mark is what clients put in the disposition fields of every sample.   *)
Mark(disposition, scope, basis) ==
  [disposition |-> disposition, scope |-> scope, basis |-> basis]
Unmarked == Mark("unset", {}, {})
Released == Mark("all_research", {"gas"}, {"e1"})
FrozenAtTwo(S, marks) ==
  {[samples |-> S, frozenAt |-> 2, marks |-> [s \in S |-> m]] : m \in marks}

(* The k-th piece of evidence on s, which reads v and was collected at t.  *)
Piece(actor, k, id, s, category, v, t) ==
  [actor |-> actor, id |-> id, sample |-> s, category |-> category,
   metric |-> "ions", value |-> v, collectedAt |-> t, digest |-> id, seq |-> k]

Hypo(actor, id, relation, conclusion, explained) ==
  [actor |-> actor, id |-> id, source |-> "drill", relation |-> relation,
   conclusion |-> conclusion, explained |-> explained]

Plan(actor, id, type, targets, threshold) ==
  [actor |-> actor, id |-> id, type |-> type, targets |-> targets,
   threshold |-> threshold, witness |-> "wit", verifiedAt |-> 0,
   retest |-> <<>>]
(* The same, sent as though it were verified already.                      *)
Verifying(plan, retest, at) ==
  [plan EXCEPT !.retest = retest, !.verifiedAt = at]

Verify(id, retest, passed, at) ==
  [actor |-> "wit", id |-> id, retest |-> retest, passed |-> passed, at |-> at]

Low == [metric |-> "ions", accepts |-> {1}]
-----------------------------------------------------------------------------
(* flow: one sample, the whole flow, one rejection.                      *)

Supported ==
  [id \in EvidenceIds |-> IF id \in {"e1", "e2"} THEN "supports" ELSE "unlinked"]

FlowFreeze ==
  FrozenAtTwo({"s1"}, {Unmarked, Mark("limited_research", {"gas"}, {})})
FlowEvidence ==
  {Piece("inv", 1, "e1", "s1", "ion", 1, 2),
   Piece("inv", 2, "e2", "s1", "blank", 2, 2),
   Piece("inv", 3, "e3", "s1", "ion", 1, 3)}
FlowHypotheses == {Hypo("inv", "h1", Supported, "confirmed", FALSE)}
FlowPlans ==
  {Plan("inv", "iso", "sample_isolation", {"s1"}, NoThreshold),
   Plan("inv", "clean", "instrument_cleaning", {"s1"}, NoThreshold),
   Plan("inv", "rt1", "sample_retest", {"s1"}, Low)}
FlowVerifications ==
  {Verify("iso", <<"e1">>, TRUE, 2), Verify("clean", <<"e1">>, TRUE, 2),
   Verify("rt1", <<"e1">>, TRUE, 2), Verify("rt1", <<"e2">>, FALSE, 2)}
FlowRejections ==
  {[actor |-> "rev", at |-> 2, findings |->
      [i \in {"i1"} |-> [severity |-> "high", assignee |-> "lead", due |-> 3]]]}
FlowClosings ==
  [actor : {"lead"}, id : {"i1"}, evidence : {{}, {"e1"}, {"e3"}},
   actions : {{}, {"clean"}}, at : {3}, explained : {FALSE}]
FlowDecisions ==
  {[actor |-> "rev2", decisions |-> [s \in {"s1"} |->
      [disposition |-> d[1], scope |-> d[2], basis |-> d[3]]]]
     : d \in {<<"all_research", {}, {}>>,
              <<"limited_research", {"gas"}, {}>>,
              <<"limited_research", {"dating"}, {}>>,
              <<"no_research", {}, {"i1"}>>}}
-----------------------------------------------------------------------------
(* release: two samples retested together and one of them once more,     *)
(* in any order of verification times, released sample by sample.          *)

Both == {"s1", "s2"}
ReleaseFreeze == FrozenAtTwo(Both, {Released})
ReleaseEvidence ==
  {Piece("inv", 1, "e1", "s1", "ion", 1, 2), Piece("inv", 1, "e2", "s2", "ion", 1, 2)}
ReleasePlans ==
  {Plan("inv", "iso", "sample_isolation", Both, NoThreshold),
   Plan("inv", "clean", "instrument_cleaning", Both, NoThreshold),
   Plan("inv", "rt1", "sample_retest", Both, NoThreshold),
   Plan("inv", "rt2", "sample_retest", {"s1"}, NoThreshold),
   Verifying(Plan("inv", "rt2", "sample_retest", {"s1"}, NoThreshold), <<"e1">>, 4)}
ReleaseVerifications ==
  {Verify(a, <<"e1", "e2">>, TRUE, 2) : a \in {"iso", "clean"}}
    \cup {Verify("rt1", <<"e1", "e2">>, p, 3) : p \in BOOLEAN}
    \cup {Verify("rt2", <<"e1">>, p, t) : p \in BOOLEAN, t \in Times}
Releases ==
  {<<"all_research", {}, {}>>, <<"limited_research", {"dating"}, {}>>,
   <<"limited_research", {"gas"}, {}>>, <<"no_research", {}, {"e1"}>>}
ReleaseDecisions ==
  {[actor |-> "rev", decisions |-> [s \in Both |->
      [disposition |-> d[s][1], scope |-> d[s][2], basis |-> d[s][3]]]]
     : d \in [Both -> Releases]}
-----------------------------------------------------------------------------
(* contested: hypotheses that contradict one another, before any         *)
(* action is planned and again after a rejection.                          *)

Reads(e1, e2) ==
  [id \in EvidenceIds |->
     CASE id = "e1" -> e1 [] id = "e2" -> e2 [] OTHER -> "unlinked"]
Glove(id, relation, conclusion, explained) ==
  [Hypo("inv", id, relation, conclusion, explained) EXCEPT !.source = "glove"]

ContestedFreeze == FrozenAtTwo({"s1"}, {Unmarked, Released})
ContestedEvidence ==
  {Piece("inv", 1, "e1", "s1", "ion", 1, 2), Piece("inv", 2, "e2", "s1", "ion", 1, 2),
   Piece("inv", 3, "e3", "s1", "ion", 1, 3)}
ContestedHypotheses ==
  {Hypo("inv", "h1", Supported, "confirmed", FALSE)}
    \cup {Hypo("inv", "h2", Reads("refutes", "irrelevant"), "excluded", x)
            : x \in BOOLEAN}
    \cup {Glove("h2", Reads("refutes", "irrelevant"), "excluded", FALSE),
          Glove("h3", Supported, "inconclusive", FALSE)}
ContestedVerifications ==
  {Verify(a, <<"e1">>, TRUE, 2) : a \in {"iso", "clean", "rt1"}}
ContestedClosings ==
  {[actor |-> "lead", id |-> "i1", evidence |-> {"e3"}, actions |-> {},
    at |-> 3, explained |-> FALSE]}
-----------------------------------------------------------------------------
(* evidence: custody numbers, times and contents in any order, and       *)
(* hypotheses on whatever is there.                                        *)

EvidenceFreeze == FrozenAtTwo(Both, {Mark("other", {}, {})})
EvidenceSubmissions ==
  {[actor |-> "inv", id |-> id, sample |-> s, category |-> c, metric |-> "ions",
    value |-> 1, collectedAt |-> t, digest |-> d, seq |-> k]
     : id \in EvidenceIds, s \in Both, c \in Categories,
       t \in Times, d \in Digests, k \in 1..3}
EvidenceHypotheses ==
  {Hypo("inv", "h1", [id \in EvidenceIds |->
      IF id \in links THEN "supports" ELSE "unlinked"], "confirmed", FALSE)
     : links \in SUBSET EvidenceIds}
-----------------------------------------------------------------------------
(* duty: anybody attempts anything.                                      *)

DutyActors == {"lead", "inv", "rev"}
Signers == {"clerk", "lead", "inv", "wit", "rev"}
DutyEvidence ==
  {Piece("inv", 1, "e1", "s1", "ion", 1, 2)}
    \cup {Piece(a, k, "e" \o ToString(k), "s1", "ion", 1, 2)
             : a \in DutyActors, k \in {2, 3}}
DutyHypotheses ==
  {Hypo(a, "h1", Supported, "confirmed", FALSE) : a \in DutyActors}
DutyPlans ==
  {Plan("inv", "clean", "instrument_cleaning", {"s1"}, NoThreshold),
   Plan("inv", "rt1", "sample_retest", {"s1"}, NoThreshold)}
    \cup {[Plan(a, "iso", "sample_isolation", {"s1"}, NoThreshold)
             EXCEPT !.witness = w] : a \in {"inv", "rev"}, w \in {"wit", "rev"}}
DutyVerifications ==
  {[Verify(a, <<"e1">>, TRUE, 2) EXCEPT !.actor = w]
     : a \in {"iso", "clean", "rt1"}, w \in {"wit", "rev"}}
DutyRejections ==
  {[c EXCEPT !.actor = a] : c \in FlowRejections, a \in Signers}
DutyDecisions ==
  {[actor |-> a, decisions |-> [s \in {"s1"} |->
      [disposition |-> "all_research", scope |-> {}, basis |-> {}]]]
     : a \in Signers}
-----------------------------------------------------------------------------
(* retest: lists of retest evidence with repetitions.                    *)

RetestEvidence ==
  {Piece("inv", k, "e" \o ToString(k), "s1", "ion", v, 2) : k \in 1..3, v \in Values}
RetestPlans ==
  {Plan("inv", "rt1", "sample_retest", {"s1"}, th) : th \in {Low, NoThreshold}}
RetestVerifications ==
  {Verify("rt1", r, p, 2) : p \in BOOLEAN,
     r \in UNION {[1..n -> EvidenceIds] : n \in 1..3}}
-----------------------------------------------------------------------------
(* loops: records the loops may get wrong, identifiers against the order   *)
(* of custody, contradicting hypotheses, retest lists of any length.       *)

LoopEvidence ==
  {Piece("inv", k, id, "s1", c, 1, k + 1) : k \in {1, 2}, id \in {"e1", "e2"},
     c \in Categories}
    \cup {Piece("inv", 1, "e3", "s2", "ion", 2, 2)}
LoopHypotheses ==
  {Hypo("inv", "h1", Supported, c, FALSE) : c \in {"confirmed", "inconclusive"}}
    \cup {Hypo("inv", "h2", Reads("refutes", "refutes"), "inconclusive", x)
            : x \in BOOLEAN}
    \cup {Hypo("inv", "h3", Reads("supports", "refutes"), "inconclusive", FALSE)}
LoopPlans ==
  {Plan("inv", "rt1", "sample_retest", Both, th) : th \in {Low, NoThreshold}}
LoopVerifications ==
  {Verify("rt1", r, p, 3) : p \in BOOLEAN,
     r \in UNION {[1..n -> EvidenceIds] : n \in 1..3}}
-----------------------------------------------------------------------------
(* matrix: every action for one of two samples, retests of one time.       *)

MatrixEvidence ==
  {Piece("inv", 1, "e1", "s1", "ion", 1, 2), Piece("inv", 2, "e2", "s1", "blank", 1, 2)}
MatrixPlans ==
  {Plan("inv", "iso", "sample_isolation", {"s1"}, NoThreshold),
   Plan("inv", "clean", "instrument_cleaning", {"s1"}, NoThreshold),
   Plan("inv", "rt1", "sample_retest", {"s1"}, NoThreshold),
   Plan("inv", "rt2", "sample_retest", {"s1"}, NoThreshold),
   Verifying(Plan("inv", "rt2", "sample_retest", {"s1"}, NoThreshold), <<"e3">>, 3)}
MatrixVerifications ==
  {Verify(a, <<"e1">>, TRUE, 2) : a \in {"iso", "clean"}}
    \cup {Verify("rt1", <<"e1">>, p, 3) : p \in BOOLEAN}
    \cup {Verify("rt2", <<"e1">>, p, t) : p \in BOOLEAN, t \in {2, 3}}
-----------------------------------------------------------------------------
Nothing ==
  [freeze |-> FrozenAtTwo({"s1"}, {Unmarked}), evidence |-> {}, hypotheses |-> FlowHypotheses,
   plans |-> {}, verifications |-> {}, rejections |-> {}, closings |-> {},
   decisions |-> {}, submissions |-> {2, 3}, approvers |-> {}, events |-> 20]

(* What each scenario sends, and how many events it may come to.           *)
Sent ==
  [s \in Scenarios |->
     CASE s = "flow" ->
          [Nothing EXCEPT !.freeze = FlowFreeze, !.evidence = FlowEvidence,
           !.plans = FlowPlans,
           !.verifications = FlowVerifications, !.rejections = FlowRejections,
           !.closings = FlowClosings, !.decisions = FlowDecisions,
           !.approvers = Actors]
       [] s = "release" ->
          [Nothing EXCEPT !.freeze = ReleaseFreeze, !.evidence = ReleaseEvidence,
           !.plans = ReleasePlans, !.verifications = ReleaseVerifications,
           !.decisions = ReleaseDecisions, !.submissions = {2, 3, 4},
           !.approvers = Signers, !.events = 16]
       [] s = "contested" ->
          [Nothing EXCEPT !.freeze = ContestedFreeze,
           !.evidence = ContestedEvidence,
           !.hypotheses = ContestedHypotheses, !.plans = FlowPlans,
           !.verifications = ContestedVerifications,
           !.rejections = FlowRejections, !.closings = ContestedClosings,
           !.decisions = FlowDecisions, !.approvers = Actors]
       [] s = "evidence" ->
          [Nothing EXCEPT !.freeze = EvidenceFreeze,
           !.evidence = EvidenceSubmissions, !.hypotheses = EvidenceHypotheses,
           !.events = 6]
       [] s = "duty" ->
          [Nothing EXCEPT !.evidence = DutyEvidence,
           !.hypotheses = DutyHypotheses, !.plans = DutyPlans,
           !.verifications = DutyVerifications, !.rejections = DutyRejections,
           !.closings = FlowClosings, !.decisions = DutyDecisions,
           !.approvers = Signers]
       [] s = "retest" ->
          [Nothing EXCEPT !.evidence = RetestEvidence, !.plans = RetestPlans,
           !.verifications = RetestVerifications, !.events = 9]
       [] s = "loops" ->
          [Nothing EXCEPT !.freeze = ReleaseFreeze, !.evidence = LoopEvidence,
           !.hypotheses = LoopHypotheses, !.plans = LoopPlans,
           !.verifications = LoopVerifications, !.events = 10]
       [] s = "matrix" ->
          [Nothing EXCEPT !.freeze = ReleaseFreeze, !.evidence = MatrixEvidence,
           !.plans = MatrixPlans, !.verifications = MatrixVerifications,
           !.submissions = {}, !.events = 14]]

AllFreezes       == UNION {Sent[s].freeze : s \in Scenarios}
AllEvidence      == UNION {Sent[s].evidence : s \in Scenarios}
AllHypotheses    == UNION {Sent[s].hypotheses : s \in Scenarios}
AllPlans         == UNION {Sent[s].plans : s \in Scenarios}
AllVerifications == UNION {Sent[s].verifications : s \in Scenarios}
AllRejections    == UNION {Sent[s].rejections : s \in Scenarios}
AllClosings      == UNION {Sent[s].closings : s \in Scenarios}
AllDecisions     == UNION {Sent[s].decisions : s \in Scenarios}

Send(c) ==
  \/ \E cmd \in CreateCommands  : CreateCase(cmd)
  \/ \E cmd \in c.freeze        : FreezeBaseline(cmd)
  \/ \E cmd \in c.evidence      : AddEvidence(cmd)
  \/ \E cmd \in c.hypotheses    : EvaluateHypothesis(cmd)
  \/ \E cmd \in c.plans         : PlanRemediation(cmd)
  \/ \E cmd \in c.verifications : VerifyRemediation(cmd)
  \/ \E at \in c.submissions    : SubmitReview(at)
  \/ \E reviewer \in c.approvers : ApproveReview(reviewer)
  \/ \E cmd \in c.rejections    : RejectReview(cmd)
  \/ \E cmd \in c.closings      : CloseCorrectiveItem(cmd)
  \/ \E cmd \in c.decisions     : RecordDispositions(cmd)
  \/ ArchiveCase

MCInit == Init /\ scenario \in Scenarios
MCNext ==
  /\ revision < Sent[scenario].events /\ Send(Sent[scenario])
  /\ UNCHANGED scenario
MCSpec == MCInit /\ [][MCNext]_<<vars, scenario>>
=============================================================================
