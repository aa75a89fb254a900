---------------------------- MODULE CaseRecords ----------------------------
(***************************************************************************)
(* What ContaminationCase keeps of its records, proved for every set of    *)
(* people, records and commands: custody chains, the ground hypotheses     *)
(* stand on, the verdicts on actions; and what no step may do: rewrite a   *)
(* record, touch what is under review, open a gate that is blocked.        *)
(***************************************************************************)
EXTENDS CaseRefinement, FiniteSetTheorems

(* Only add_evidence touches the evidence, only evaluate_hypothesis the    *)
(* hypotheses (aggregate.go:65-191).                                       *)
LEMMA OneWriter ==
  [Next]_vars =>
    /\ UNCHANGED proof \/ \E cmd \in EvidenceCommands : AddEvidence(cmd)
    /\ \/ UNCHANGED hypotheses
       \/ \E cmd \in HypothesisCommands : EvaluateHypothesis(cmd)
  BY DEF Next, CreateCase, FreezeBaseline, AddEvidence, EvaluateHypothesis,
         PlanRemediation, VerifyRemediation, SubmitReview, ApproveReview,
         RejectReview, CloseCorrectiveItem, RecordDispositions, ArchiveCase,
         vars, records
-----------------------------------------------------------------------------
(* No record was added in the future, and the chains are whole.            *)
CustodyInv ==
  /\ \A id \in DOMAIN evidence : evidence[id].addedAt <= revision
  /\ CustodyIntact

(* A new record goes to the end of its chain                               *)
(* (investigation_rules.go:56-67, aggregate.go:88-103).                    *)
LEMMA CustodyExtended ==
  \A cmd \in EvidenceCommands :
    TypeOK /\ TypeOK' /\ CustodyInv /\ AddEvidence(cmd) => CustodyInv'
<1> SUFFICES ASSUME NEW cmd \in EvidenceCommands, TypeOK, TypeOK', CustodyInv,
                    AddEvidence(cmd)
             PROVE  CustodyInv'
  OBVIOUS
<1> DEFINE s0 == cmd.sample
           n  == custody[s0]
<1>1. /\ \A id \in DOMAIN evidence : evidence[id] \in Evidence
      /\ \A s \in SampleIds : custody[s] \in Nat
      /\ revision \in Nat
  BY DEF TypeOK, IsMap
<1>2. cmd \in EvidenceCommand /\ s0 \in SampleIds
  BY CommandAssumption DEF EvidenceCommand
<1>3. Grown(evidence, evidence', cmd.id)
  BY AddEvidenceEnters DEF EvidenceEntered
<1>4. /\ evidence'[cmd.id].sample = s0 /\ evidence'[cmd.id].seq = n + 1
      /\ evidence'[cmd.id].collectedAt = cmd.collectedAt
      /\ evidence'[cmd.id].digest = cmd.digest
      /\ evidence'[cmd.id].addedAt = revision + 1
  <2>1. EvidenceEntered(cmd)
    BY AddEvidenceEnters
  <2>2. cmd.seq = n + 1 /\ revision' = revision + 1
    BY DEF AddEvidence, ContinuesCustody, Record
  <2>3. QED
    BY <2>1, <2>2 DEF EvidenceEntered
<1>5. /\ custody'[s0] = n + 1
      /\ \A s \in SampleIds : s # s0 => custody'[s] = custody[s]
  BY <1>2 DEF AddEvidence, ContinuesCustody, TypeOK
<1>6. \A id \in DOMAIN evidence :
        /\ evidence[id].digest # cmd.digest
        /\ evidence[id].sample = s0 => evidence[id].collectedAt <= cmd.collectedAt
  BY DEF AddEvidence, EvidenceFits
<1>7. \A id \in DOMAIN evidence : evidence[id].sample = s0 => evidence[id].seq \in 1..n
  BY <1>2 DEF CustodyInv, CustodyIntact, EvidenceOf
<1>8. \A id \in DOMAIN evidence' : evidence'[id].addedAt <= revision'
  BY <1>1, <1>3, <1>4 DEF CustodyInv, Grown, AddEvidence, Record, Evidence
<1>9. ASSUME NEW s \in SampleIds
      PROVE  {evidence'[id].seq : id \in EvidenceOf(s)'} = 1..custody'[s]
  <2>1. {evidence[id].seq : id \in EvidenceOf(s)} = 1..custody[s]
    BY DEF CustodyInv, CustodyIntact
  <2>2. CASE s # s0
    <3>1. EvidenceOf(s)' = EvidenceOf(s)
      BY <1>3, <1>4, <2>2 DEF EvidenceOf, Grown
    <3>2. \A id \in EvidenceOf(s) : evidence'[id].seq = evidence[id].seq
      BY <1>3 DEF EvidenceOf, Grown
    <3>3. QED
      BY <1>5, <2>1, <2>2, <3>1, <3>2
  <2>3. CASE s = s0
    <3>1. EvidenceOf(s)' = EvidenceOf(s) \cup {cmd.id}
      BY <1>3, <1>4, <2>3 DEF EvidenceOf, Grown
    <3>2. \A id \in EvidenceOf(s) : evidence'[id].seq = evidence[id].seq
      BY <1>3 DEF EvidenceOf, Grown
    <3>3. {evidence'[id].seq : id \in EvidenceOf(s)'} = (1..n) \cup {n + 1}
      BY <1>4, <2>1, <2>3, <3>1, <3>2
    <3>4. (1..n) \cup {n + 1} = 1..(n + 1)
      BY <1>1, <1>2
    <3>5. QED
      BY <1>5, <2>3, <3>3, <3>4
  <2>4. QED
    BY <2>2, <2>3
<1>10. ASSUME NEW i \in DOMAIN evidence', NEW j \in DOMAIN evidence', i # j
       PROVE  /\ evidence'[i].digest # evidence'[j].digest
              /\ evidence'[i].sample = evidence'[j].sample =>
                   /\ evidence'[i].seq # evidence'[j].seq
                   /\ evidence'[i].seq < evidence'[j].seq =>
                        /\ evidence'[i].collectedAt <= evidence'[j].collectedAt
                        /\ evidence'[i].addedAt < evidence'[j].addedAt
  <2>1. CASE i # cmd.id /\ j # cmd.id
    BY <1>3, <1>10, <2>1 DEF CustodyInv, CustodyIntact, Grown
  <2>2. CASE i # cmd.id /\ j = cmd.id
    <3>1. i \in DOMAIN evidence /\ evidence'[i] = evidence[i]
      BY <1>3, <2>2 DEF Grown
    <3>2. evidence[i].addedAt <= revision /\ evidence[i].addedAt \in Nat
      BY <1>1, <3>1 DEF CustodyInv, Evidence
    <3>3. QED
      BY <1>1, <1>2, <1>4, <1>6, <1>7, <2>2, <3>1, <3>2
  <2>3. CASE i = cmd.id /\ j # cmd.id
    <3>1. j \in DOMAIN evidence /\ evidence'[j] = evidence[j]
      BY <1>3, <2>3 DEF Grown
    <3>2. QED
      BY <1>1, <1>2, <1>4, <1>6, <1>7, <2>3, <3>1
  <2>4. QED
    BY <1>10, <2>1, <2>2, <2>3
<1>11. QED
  BY <1>8, <1>9, <1>10 DEF CustodyInv, CustodyIntact

(* The custody chain of every sample has no hole, no step back in time and *)
(* no content twice (investigation_rules.go:56-67).                        *)
THEOREM CustodyKept == Spec => []CustodyIntact
<1>1. TypeOK /\ Init => CustodyInv
  BY DEF Init, CustodyInv, CustodyIntact, EvidenceOf
<1>2. TypeOK /\ TypeOK' /\ CustodyInv /\ [Next]_vars => CustodyInv'
  <2> SUFFICES ASSUME TypeOK, TypeOK', CustodyInv, [Next]_vars
               PROVE  CustodyInv'
    OBVIOUS
  <2>1. ASSUME NEW cmd \in EvidenceCommands, AddEvidence(cmd)
        PROVE  CustodyInv'
    BY <2>1, CustodyExtended
  <2>2. CASE UNCHANGED proof
    <3>1. revision <= revision'
      <4>1. Next => revision' = revision + 1
        BY DEF Next, CreateCase, FreezeBaseline, AddEvidence,
               EvaluateHypothesis, PlanRemediation, VerifyRemediation,
               SubmitReview, ApproveReview, RejectReview, CloseCorrectiveItem,
               RecordDispositions, ArchiveCase, Record
      <4>2. QED
        BY <4>1 DEF TypeOK, vars
    <3>2. \A id \in DOMAIN evidence : evidence[id].addedAt \in Nat
      BY DEF TypeOK, IsMap, Evidence
    <3>3. CustodyIntact'
      BY <2>2 DEF proof, CustodyInv, CustodyIntact, EvidenceOf
    <3>4. QED
      BY <2>2, <3>1, <3>2, <3>3 DEF proof, CustodyInv, TypeOK
  <2>3. QED
    BY <2>1, <2>2, OneWriter
<1>3. CustodyInv => CustodyIntact
  BY DEF CustodyInv
<1>4. QED
  BY <1>1, <1>2, <1>3, TypeCorrect, PTL DEF Spec
-----------------------------------------------------------------------------
(* Hypotheses are judged on evidence of samples that have every category   *)
(* of it, and evidence only grows (investigation_rules.go:126-139).        *)
THEOREM HypothesesFounded == Spec => []HypothesesRestOnCompleteSamples
<1>1. Init => HypothesesRestOnCompleteSamples
  BY DEF Init, HypothesesRestOnCompleteSamples
<1>2. HypothesesRestOnCompleteSamples /\ [Next]_vars
        => HypothesesRestOnCompleteSamples'
  <2> SUFFICES ASSUME HypothesesRestOnCompleteSamples, [Next]_vars
               PROVE  HypothesesRestOnCompleteSamples'
    OBVIOUS
  <2>1. ASSUME NEW cmd \in EvidenceCommands, AddEvidence(cmd)
        PROVE  HypothesesRestOnCompleteSamples'
    <3>1. Grown(evidence, evidence', cmd.id)
      BY <2>1, AddEvidenceEnters DEF EvidenceEntered
    <3>2. UNCHANGED hypotheses
      BY <2>1 DEF AddEvidence
    <3>3. QED
      BY <3>1, <3>2 DEF HypothesesRestOnCompleteSamples, Grown
  <2>2. ASSUME NEW cmd \in HypothesisCommands, EvaluateHypothesis(cmd)
        PROVE  HypothesesRestOnCompleteSamples'
    <3>1. /\ Grown(hypotheses, hypotheses', cmd.id)
          /\ hypotheses'[cmd.id].relation = cmd.relation
      <4>1. HypothesisEntered(cmd)
        BY <2>2, EvaluateHypothesisEnters
      <4>2. QED
        BY <4>1 DEF HypothesisEntered
    <3>2. UNCHANGED evidence
      BY <2>2 DEF EvaluateHypothesis, proof
    <3>3. \A id \in Links(cmd.relation) :
            /\ id \in DOMAIN evidence
            /\ \A c \in Categories : \E e \in DOMAIN evidence :
                 evidence[e].category = c /\ evidence[e].sample = evidence[id].sample
      BY <2>2 DEF EvaluateHypothesis, Complete, EvidenceOf
    <3>4. QED
      BY <3>1, <3>2, <3>3 DEF HypothesesRestOnCompleteSamples, Grown
  <2>3. CASE UNCHANGED <<proof, hypotheses>>
    BY <2>3 DEF HypothesesRestOnCompleteSamples, proof
  <2>4. QED
    BY <2>1, <2>2, <2>3, OneWriter
<1>3. QED
  BY <1>1, <1>2, PTL DEF Spec

(* No confirmed source is contested unexplained, whichever of the two      *)
(* hypotheses came first (investigation_rules.go:162-177).                 *)
THEOREM ConfirmationsUncontested == Spec => []ConfirmedUncontested
<1>1. Init => ConfirmedUncontested
  BY DEF Init, ConfirmedUncontested
<1>2. ConfirmedUncontested /\ [Next]_vars => ConfirmedUncontested'
  <2> SUFFICES ASSUME ConfirmedUncontested, [Next]_vars
               PROVE  ConfirmedUncontested'
    OBVIOUS
  <2>1. ASSUME NEW cmd \in HypothesisCommands, EvaluateHypothesis(cmd)
        PROVE  ConfirmedUncontested'
    <3> DEFINE new == hypotheses'[cmd.id]
    <3>1. /\ Grown(hypotheses, hypotheses', cmd.id)
          /\ new.source = cmd.source /\ new.relation = cmd.relation
          /\ new.conclusion = cmd.conclusion /\ new.explained = cmd.explained
      <4>1. HypothesisEntered(cmd)
        BY <2>1, EvaluateHypothesisEnters
      <4>2. QED
        BY <4>1 DEF HypothesisEntered
    <3>2. ASSUME NEW g \in DOMAIN hypotheses, NEW id \in EvidenceIds,
                 hypotheses[g].source = cmd.source,
                 ~hypotheses[g].explained, ~cmd.explained,
                 {hypotheses[g].relation[id], cmd.relation[id]}
                   = {"supports", "refutes"}
          PROVE  cmd.conclusion # "confirmed" /\ hypotheses[g].conclusion # "confirmed"
      <4>1. Contradictions(hypotheses[g], cmd) # {}
        BY <3>2 DEF Contradictions
      <4>2. QED
        BY <2>1, <4>1 DEF EvaluateHypothesis, ConflictAllowed
    <3>3. ASSUME NEW g \in DOMAIN hypotheses', NEW h \in DOMAIN hypotheses',
                 NEW id \in EvidenceIds,
                 hypotheses'[g].conclusion = "confirmed",
                 hypotheses'[g].source = hypotheses'[h].source,
                 ~hypotheses'[g].explained, ~hypotheses'[h].explained,
                 {hypotheses'[g].relation[id], hypotheses'[h].relation[id]}
                   = {"supports", "refutes"}
          PROVE  FALSE
      <4>1. CASE g # cmd.id /\ h # cmd.id
        BY <3>1, <3>3, <4>1 DEF ConfirmedUncontested, Grown
      <4>2. CASE g = cmd.id /\ h = cmd.id
        BY <3>3, <4>2
      <4>3. CASE g = cmd.id /\ h # cmd.id
        <5>1. h \in DOMAIN hypotheses /\ hypotheses'[h] = hypotheses[h]
          BY <3>1, <4>3 DEF Grown
        <5>2. {hypotheses[h].relation[id], cmd.relation[id]}
                = {"supports", "refutes"}
          BY <3>1, <3>3, <4>3, <5>1
        <5>3. QED
          BY <3>1, <3>2, <3>3, <4>3, <5>1, <5>2
      <4>4. CASE g # cmd.id /\ h = cmd.id
        <5>1. g \in DOMAIN hypotheses /\ hypotheses'[g] = hypotheses[g]
          BY <3>1, <4>4 DEF Grown
        <5>2. {hypotheses[g].relation[id], cmd.relation[id]}
                = {"supports", "refutes"}
          BY <3>1, <3>3, <4>4, <5>1
        <5>3. QED
          BY <3>1, <3>2, <3>3, <4>4, <5>1, <5>2
      <4>5. QED
        BY <4>1, <4>2, <4>3, <4>4
    <3>4. QED
      BY <3>3 DEF ConfirmedUncontested
  <2>2. CASE UNCHANGED hypotheses
    BY <2>2 DEF ConfirmedUncontested
  <2>3. QED
    BY <2>1, <2>2, OneWriter
<1>3. QED
  BY <1>1, <1>2, PTL DEF Spec
-----------------------------------------------------------------------------
(* The baseline is set once, by the freeze (case_rules.go:41-46).          *)
BoundsInv == samples # {} => status \notin {"none", "draft"}

(* It holds in every reachable state: the freezing alone sets the bounds   *)
(* (aggregate.go:76-87).                                                   *)
LEMMA BoundsAlways == Spec => []BoundsInv
<1>1. Init => BoundsInv
  BY DEF Init, BoundsInv
<1>2. Begun /\ BoundsInv /\ [Next]_vars => BoundsInv'
  <2>1. Begun /\ [Next]_vars =>
          \/ /\ UNCHANGED samples
             /\ status' \in {"none", "draft"} => status \in {"none", "draft"}
          \/ status' = "bounded"
    BY DEF Begun, Next, CreateCase, FreezeBaseline, AddEvidence,
           EvaluateHypothesis, PlanRemediation, VerifyRemediation, SubmitReview,
           ApproveReview, RejectReview, CloseCorrectiveItem,
           RecordDispositions, ArchiveCase, vars, bounds, records
  <2>2. QED
    BY <2>1 DEF BoundsInv
<1>3. QED
  BY <1>1, <1>2, BegunAlways, PTL DEF Spec

(* The baseline never changes once it has samples.                         *)
LEMMA BoundsKept ==
  BoundsInv /\ [Next]_vars /\ samples # {} => UNCHANGED bounds
  BY DEF BoundsInv, Next, CreateCase, FreezeBaseline, AddEvidence,
         EvaluateHypothesis, PlanRemediation, VerifyRemediation, SubmitReview,
         ApproveReview, RejectReview, CloseCorrectiveItem, RecordDispositions,
         ArchiveCase, vars, Expect

(* A frozen sample keeps what the client marked it with up to the decision *)
(* (aggregate.go:82-84,166-177).                                           *)
LEMMA DispositionsKept ==
  BoundsInv /\ [Next]_vars /\ samples # {} /\ status' # "decided"
    => UNCHANGED dispositions
  BY DEF BoundsInv, Next, CreateCase, FreezeBaseline, AddEvidence,
         EvaluateHypothesis, PlanRemediation, VerifyRemediation, SubmitReview,
         ApproveReview, RejectReview, CloseCorrectiveItem, RecordDispositions,
         ArchiveCase, vars, records, Expect
-----------------------------------------------------------------------------
(* What a step makes of an action: nothing, or a new verdict on one that   *)
(* is not verified, and nothing but the verdict changes.                   *)
ActionStays(new, old) ==
  /\ new.addedAt = old.addedAt
  /\ new # old => /\ SameAction(new, old)
                  /\ old.status # "verified" /\ new.status # "planned"

(* Actions stay; only an action not yet verified gets a new result, and    *)
(* nothing but its result changes (aggregate.go:111-141).                  *)
LEMMA ActionsKept ==
  TypeOK /\ [Next]_vars =>
    \A id \in DOMAIN actions :
      id \in DOMAIN actions' /\ ActionStays(actions'[id], actions[id])
<1> SUFFICES ASSUME TypeOK, [Next]_vars, NEW id \in DOMAIN actions
             PROVE  id \in DOMAIN actions' /\ ActionStays(actions'[id], actions[id])
  OBVIOUS
<1>1. ASSUME NEW cmd \in PlanCommands, PlanRemediation(cmd)
      PROVE  id \in DOMAIN actions' /\ actions'[id] = actions[id]
  <2>1. ActionEntered(cmd)
    BY <1>1, PlanRemediationEnters
  <2>2. QED
    BY <2>1 DEF ActionEntered, Grown
<1>2. ASSUME NEW cmd \in VerifyCommands, VerifyRemediation(cmd)
      PROVE  id \in DOMAIN actions' /\ ActionStays(actions'[id], actions[id])
  <2>1. actions[id] \in Action
    BY DEF TypeOK, IsMap
  <2>2. DOMAIN actions' = DOMAIN actions
    BY <1>2 DEF VerifyRemediation
  <2>3. CASE id # cmd.id
    BY <1>2, <2>3 DEF VerifyRemediation, ActionStays
  <2>4. CASE id = cmd.id
    <3>1. actions'[id] =
            [actions[id] EXCEPT
               !.status = IF cmd.passed THEN "verified" ELSE "failed",
               !.retest = cmd.retest, !.verifiedAt = cmd.at]
      BY <1>2, <2>1, <2>4 DEF VerifyRemediation
    <3>2. actions[id].status # "verified"
      BY <1>2, <2>4 DEF VerifyRemediation, Verifiable
    <3>3. /\ actions'[id].status # "planned"
          /\ actions'[id].addedAt = actions[id].addedAt
      BY <2>1, <3>1 DEF Action
    <3>4. SameAction(actions'[id], actions[id])
      BY <2>1, <3>1 DEF SameAction, Action
    <3>5. QED
      BY <2>2, <3>2, <3>3, <3>4 DEF ActionStays
  <2>5. QED
    BY <2>2, <2>3, <2>4
<1>3. \/ UNCHANGED actions
      \/ \E cmd \in PlanCommands : PlanRemediation(cmd)
      \/ \E cmd \in VerifyCommands : VerifyRemediation(cmd)
  BY DEF Next, CreateCase, FreezeBaseline, AddEvidence, EvaluateHypothesis,
         SubmitReview, ApproveReview, RejectReview, CloseCorrectiveItem,
         RecordDispositions, ArchiveCase, vars, records
<1>4. QED
  BY <1>1, <1>2, <1>3 DEF ActionStays

(* Corrective items come with the one rejection, when there are none yet,  *)
(* and are closed once, as the rejection worded them                       *)
(* (review_rules.go:39-86,88-107).                                         *)
LEMMA ItemsKept ==
  TypeOK /\ CourseInv /\ [Next]_vars =>
    \A id \in DOMAIN correctiveItems :
      /\ id \in DOMAIN correctiveItems'
      /\ correctiveItems'[id] # correctiveItems[id] =>
           /\ SameItem(correctiveItems'[id], correctiveItems[id])
           /\ correctiveItems[id].status = "open"
<1> SUFFICES ASSUME TypeOK, CourseInv, [Next]_vars,
                    NEW id \in DOMAIN correctiveItems
             PROVE  /\ id \in DOMAIN correctiveItems'
                    /\ correctiveItems'[id] # correctiveItems[id] =>
                         /\ SameItem(correctiveItems'[id], correctiveItems[id])
                         /\ correctiveItems[id].status = "open"
  OBVIOUS
<1>1. ASSUME NEW cmd \in RejectCommands, RejectReview(cmd) PROVE FALSE
  BY <1>1 DEF RejectReview, CourseInv
<1>2. ASSUME NEW cmd \in CloseCommands, CloseCorrectiveItem(cmd)
      PROVE  /\ id \in DOMAIN correctiveItems'
             /\ correctiveItems'[id] # correctiveItems[id] =>
                  /\ SameItem(correctiveItems'[id], correctiveItems[id])
                  /\ correctiveItems[id].status = "open"
  <2>1. DOMAIN correctiveItems' = DOMAIN correctiveItems
    BY <1>2 DEF CloseCorrectiveItem
  <2>2. id # cmd.id => correctiveItems'[id] = correctiveItems[id]
    BY <1>2 DEF CloseCorrectiveItem
  <2>3. CASE id = cmd.id
    <3>1. correctiveItems[id] \in CorrectiveItem
      BY DEF TypeOK, IsMap
    <3>2. correctiveItems'[id] =
            [correctiveItems[id] EXCEPT
               !.status = "closed", !.explained = cmd.explained,
               !.evidence = cmd.evidence, !.actions = cmd.actions]
      BY <1>2, <2>3, <3>1 DEF CloseCorrectiveItem
    <3>3. correctiveItems[id].status = "open"
      BY <1>2, <2>3, <3>1 DEF CloseCorrectiveItem, CorrectiveItem
    <3>4. QED
      BY <2>1, <3>1, <3>2, <3>3 DEF SameItem, CorrectiveItem
  <2>4. QED
    BY <2>1, <2>2, <2>3
<1>3. \/ UNCHANGED correctiveItems
      \/ \E cmd \in RejectCommands : RejectReview(cmd)
      \/ \E cmd \in CloseCommands : CloseCorrectiveItem(cmd)
  BY DEF Next, CreateCase, FreezeBaseline, AddEvidence, EvaluateHypothesis,
         PlanRemediation, VerifyRemediation, SubmitReview, ApproveReview,
         RecordDispositions, ArchiveCase, vars, records
<1>4. QED
  BY <1>1, <1>2, <1>3

(* Opinions are only added (aggregate.go:142-157).                         *)
LEMMA ReviewsKept ==
  TypeOK /\ [Next]_vars =>
    \A k \in DOMAIN reviews : k \in DOMAIN reviews' /\ reviews'[k] = reviews[k]
<1>1. ASSUME TypeOK, NEW reviewer \in Actors, NEW outcome \in {"approved", "rejected"},
             Signed(reviewer, outcome), NEW k \in DOMAIN reviews
      PROVE  k \in DOMAIN reviews' /\ reviews'[k] = reviews[k]
  BY <1>1 DEF Signed, TypeOK
<1>2. \A cmd \in RejectCommands : cmd.actor \in Actors
  BY CommandAssumption DEF IsRejectCommand
<1>3. [Next]_vars =>
        \/ UNCHANGED reviews
        \/ \E reviewer \in Actors, outcome \in {"approved", "rejected"} :
             Signed(reviewer, outcome)
  BY <1>2 DEF Next, CreateCase, FreezeBaseline, AddEvidence, EvaluateHypothesis,
         PlanRemediation, VerifyRemediation, SubmitReview, ApproveReview,
         RejectReview, CloseCorrectiveItem, RecordDispositions, ArchiveCase,
         vars, records
<1>4. QED
  BY <1>1, <1>3

(* Evidence and hypotheses are only added.                                 *)
LEMMA ProofKept ==
  [Next]_vars =>
    /\ \A id \in DOMAIN evidence :
         id \in DOMAIN evidence' /\ evidence'[id] = evidence[id]
    /\ \A id \in DOMAIN hypotheses :
         id \in DOMAIN hypotheses' /\ hypotheses'[id] = hypotheses[id]
<1>1. \A cmd : AddEvidence(cmd) => Grown(evidence, evidence', cmd.id)
  BY AddEvidenceEnters DEF EvidenceEntered
<1>2. \A cmd : EvaluateHypothesis(cmd) => Grown(hypotheses, hypotheses', cmd.id)
  BY EvaluateHypothesisEnters DEF HypothesisEntered
<1>3. QED
  BY <1>1, <1>2, OneWriter DEF Grown, proof

(* No record is lost; an action that did not pass may only get another     *)
(* verdict, an item only be closed, once, and a frozen sample only get its *)
(* disposition with the decision; every other record stays as it was       *)
(* entered (aggregate.go:65-191).                                          *)
THEOREM RecordsKept == Spec => RecordsPermanent
<1>1. TypeOK /\ CourseInv /\ BoundsInv /\ [Next]_vars => [KeepsRecords]_vars
  <2> SUFFICES ASSUME TypeOK, CourseInv, BoundsInv, [Next]_vars
               PROVE  KeepsRecords
    OBVIOUS
  <2>1. samples # {} /\ status' # "decided" => UNCHANGED dispositions
    BY DispositionsKept
  <2>2. QED
    BY <2>1, BoundsKept, ProofKept, ActionsKept, ItemsKept, ReviewsKept
    DEF KeepsRecords, ActionStays
<1>2. QED
  BY <1>1, TypeCorrect, CourseAlways, BoundsAlways, PTL DEF Spec, RecordsPermanent

(* Under review and past it nothing the review rests on changes, and an    *)
(* archived case accepts no command (aggregate.go:45-63).                  *)
THEOREM ReviewedKept == Spec => ReviewedMaterialFrozen
<1>1. Begun /\ [Next]_vars => [KeepsReviewed]_vars
  <2> SUFFICES ASSUME Begun, Next
               PROVE  KeepsReviewed
    OBVIOUS
  <2> USE DEF KeepsReviewed, Submitted, Expect, records
  <2>1. ASSUME NEW reviewer \in Actors, ApproveReview(reviewer)
        PROVE  KeepsReviewed
    BY <2>1 DEF ApproveReview, MayReview
  <2>2. ASSUME NEW cmd \in RejectCommands, RejectReview(cmd)
        PROVE  KeepsReviewed
    BY <2>2 DEF RejectReview, MayReview
  <2>3. ASSUME NEW cmd \in DispositionCommands, RecordDispositions(cmd)
        PROVE  KeepsReviewed
    BY <2>3 DEF RecordDispositions
  <2>4. CASE ArchiveCase
    BY <2>4 DEF ArchiveCase
  <2>5. \/ status \notin Submitted \/ ArchiveCase
        \/ \E reviewer \in Actors : ApproveReview(reviewer)
        \/ \E cmd \in RejectCommands : RejectReview(cmd)
        \/ \E cmd \in DispositionCommands : RecordDispositions(cmd)
    BY DEF Begun, Next, CreateCase, FreezeBaseline, AddEvidence, Collecting,
           EvaluateHypothesis, PlanRemediation, VerifyRemediation,
           SubmitReview, CloseCorrectiveItem
  <2>6. QED
    BY <2>1, <2>2, <2>3, <2>4, <2>5
<1>2. QED
  BY <1>1, BegunAlways, PTL DEF Spec, ReviewedMaterialFrozen

(* A blocked gate stays blocked: no step plans an action, and without an   *)
(* action nothing is submitted (remediation_rules.go:19-32).               *)
THEOREM GateTraps == Spec => BlockedGateTraps
<1>1. Begun /\ [Next]_vars => (Trapped => Trapped')
  <2> SUFFICES ASSUME Begun, [Next]_vars, Trapped
               PROVE  Trapped'
    OBVIOUS
  <2>1. ~HypothesisGate
    BY DEF Trapped, HypothesisGate, ConflictEvidence
  <2>2. status = "investigating" /\ DOMAIN actions = {} /\ revision # 0
    BY DEF Trapped, Begun
  <2>3. status' = "investigating" /\ UNCHANGED actions
    BY <2>1, <2>2 DEF Next, CreateCase, FreezeBaseline, AddEvidence,
           EvaluateHypothesis, PlanRemediation, VerifyRemediation, SubmitReview,
           ApproveReview, RejectReview, MayReview, CloseCorrectiveItem,
           RecordDispositions, ArchiveCase, vars, records, Expect
  <2>4. QED
    BY <2>3, ProofKept DEF Trapped
<1>2. QED
  BY <1>1, BegunAlways, PTL DEF Spec, BlockedGateTraps
-----------------------------------------------------------------------------
(* An item closed was closed with work done after its rejection, the one   *)
(* rejection came with items, and a second opinion is only given on a case *)
(* under review.                                                           *)
WorkedOff(item) ==
  /\ item.evidence \cup item.actions # {}
  /\ \A id \in item.evidence :
       id \in DOMAIN evidence /\ evidence[id].addedAt > item.rejectedRevision
  /\ \A id \in item.actions :
       id \in DOMAIN actions /\ actions[id].addedAt > item.rejectedRevision

NewWorkInv ==
  /\ \A i \in DOMAIN correctiveItems :
       correctiveItems[i].status = "closed" => WorkedOff(correctiveItems[i])
  /\ (reviews # <<>> /\ reviews[1].outcome = "rejected") =>
       DOMAIN correctiveItems # {}
  /\ Len(reviews) = 2 => status \in Submitted

(* Work once done after a rejection remains so: records and their          *)
(* revisions stay (aggregate.go:88-141).                                   *)
LEMMA WorkKept ==
  TypeOK /\ [Next]_vars =>
    \A item : WorkedOff(item) => WorkedOff(item)'
<1>1. TypeOK /\ [Next]_vars =>
        /\ \A id \in DOMAIN evidence :
             /\ id \in DOMAIN evidence'
             /\ evidence'[id].addedAt = evidence[id].addedAt
        /\ \A id \in DOMAIN actions :
             /\ id \in DOMAIN actions'
             /\ actions'[id].addedAt = actions[id].addedAt
  BY ProofKept, ActionsKept DEF ActionStays
<1>2. QED
  BY <1>1 DEF WorkedOff

(* Closing an item demands such work (review_rules.go:108-120).            *)
LEMMA ClosedWorkedOff ==
  \A cmd \in CloseCommands :
    TypeOK /\ NewWorkInv /\ CloseCorrectiveItem(cmd) =>
      \A i \in DOMAIN correctiveItems' :
        correctiveItems'[i].status = "closed" => WorkedOff(correctiveItems'[i])
<1> SUFFICES ASSUME NEW cmd \in CloseCommands, TypeOK, NewWorkInv,
                    CloseCorrectiveItem(cmd), NEW i \in DOMAIN correctiveItems',
                    correctiveItems'[i].status = "closed"
             PROVE  WorkedOff(correctiveItems'[i])
  OBVIOUS
<1>1. /\ i \in DOMAIN correctiveItems /\ cmd.id \in DOMAIN correctiveItems
      /\ correctiveItems[cmd.id] \in CorrectiveItem
  BY DEF CloseCorrectiveItem, TypeOK, IsMap
<1>2. CASE i # cmd.id
  <2>1. correctiveItems'[i] = correctiveItems[i]
    BY <1>1, <1>2 DEF CloseCorrectiveItem
  <2>2. QED
    BY <1>1, <2>1 DEF NewWorkInv
<1>3. CASE i = cmd.id
  <2> DEFINE item == correctiveItems[cmd.id]
  <2>1. /\ correctiveItems'[i].evidence = cmd.evidence
        /\ correctiveItems'[i].actions = cmd.actions
        /\ correctiveItems'[i].rejectedRevision = item.rejectedRevision
    BY <1>1, <1>3 DEF CloseCorrectiveItem, CorrectiveItem
  <2>2. AfterRejection(item, cmd)
    BY DEF CloseCorrectiveItem
  <2>3. QED
    BY <2>1, <2>2 DEF AfterRejection, WorkedOff
<1>4. QED
  BY <1>2, <1>3

(* The two opinions are the only writers of reviews and, with the closing, *)
(* of items (aggregate.go:142-164).                                        *)
LEMMA NewWorkStep ==
  TypeOK /\ Begun /\ CourseInv /\ NewWorkInv /\ [Next]_vars => NewWorkInv'
<1> SUFFICES ASSUME TypeOK, Begun, CourseInv, NewWorkInv, [Next]_vars
             PROVE  NewWorkInv'
  OBVIOUS
<1>1. ASSUME NEW reviewer \in Actors, ApproveReview(reviewer) PROVE NewWorkInv'
  <2>1. UNCHANGED <<evidence, actions, correctiveItems>>
    BY <1>1 DEF ApproveReview, proof
  <2>2. reviews # <<>> => reviews'[1] = reviews[1]
    <3> DEFINE review == [reviewer |-> reviewer, outcome |-> "approved"]
    <3>1. reviews \in Seq(Review) /\ review \in Review
      BY DEF TypeOK, Review
    <3>2. reviews' = Append(reviews, review)
      BY <1>1 DEF ApproveReview, Signed
    <3> HIDE DEF review
    <3>3. reviews # <<>> => Len(reviews) \in Nat /\ Len(reviews) >= 1
      BY <3>1, LenProperties, EmptySeq
    <3>4. QED
      BY <3>1, <3>2, <3>3, AppendProperties
  <2>3. reviews = <<>> => reviews'[1].outcome = "approved"
    BY <1>1 DEF ApproveReview, Signed
  <2>4. status' \in Submitted
    BY <1>1 DEF ApproveReview, MayReview, Expect, Submitted
  <2>5. QED
    BY <2>1, <2>2, <2>3, <2>4 DEF NewWorkInv, WorkedOff
<1>2. ASSUME NEW cmd \in RejectCommands, RejectReview(cmd) PROVE NewWorkInv'
  <2>1. DOMAIN correctiveItems = {} /\ reviews = <<>>
    BY <1>2 DEF RejectReview, CourseInv
  <2>2. /\ DOMAIN correctiveItems' = DOMAIN cmd.findings
        /\ \A i \in DOMAIN correctiveItems' : correctiveItems'[i].status = "open"
    BY <1>2, <2>1 DEF RejectReview, Merge
  <2>3. Len(reviews') = 1
    BY <1>2, <2>1 DEF RejectReview, Signed
  <2>4. DOMAIN cmd.findings # {}
    BY <1>2 DEF RejectReview
  <2>5. QED
    BY <2>2, <2>3, <2>4 DEF NewWorkInv
<1>3. ASSUME NEW cmd \in CloseCommands, CloseCorrectiveItem(cmd)
      PROVE  NewWorkInv'
  <2>1. UNCHANGED <<evidence, actions, reviews>>
    BY <1>3 DEF CloseCorrectiveItem, proof
  <2>2. DOMAIN correctiveItems' = DOMAIN correctiveItems
    BY <1>3 DEF CloseCorrectiveItem
  <2>3. status \notin Submitted
    BY <1>3 DEF CloseCorrectiveItem, Expect, Submitted
  <2>4. \A i \in DOMAIN correctiveItems' :
          correctiveItems'[i].status = "closed" => WorkedOff(correctiveItems'[i])
    BY <1>3, ClosedWorkedOff
  <2>5. QED
    BY <2>1, <2>2, <2>3, <2>4 DEF NewWorkInv, WorkedOff
<1>4. ASSUME UNCHANGED <<reviews, correctiveItems>>,
             status \in Submitted => status' \in Submitted
      PROVE  NewWorkInv'
  <2>1. \A i \in DOMAIN correctiveItems :
          WorkedOff(correctiveItems[i]) => WorkedOff(correctiveItems[i])'
    <3>1. ASSUME NEW i \in DOMAIN correctiveItems, WorkedOff(correctiveItems[i])
          PROVE  WorkedOff(correctiveItems[i])'
      <4>1. \A item : WorkedOff(item) => WorkedOff(item)'
        BY WorkKept
      <4>2. QED
        BY <1>4, <3>1, <4>1 DEF WorkedOff
    <3>2. QED
      BY <3>1
  <2>2. QED
    BY <1>4, <2>1 DEF NewWorkInv
<1>5. \/ /\ UNCHANGED <<reviews, correctiveItems>>
         /\ status \in Submitted => status' \in Submitted
      \/ \E reviewer \in Actors : ApproveReview(reviewer)
      \/ \E cmd \in RejectCommands : RejectReview(cmd)
      \/ \E cmd \in CloseCommands : CloseCorrectiveItem(cmd)
  BY DEF Begun, Next, CreateCase, FreezeBaseline, AddEvidence, Collecting,
         EvaluateHypothesis, PlanRemediation, VerifyRemediation, SubmitReview,
         RecordDispositions, ArchiveCase, vars, records, Expect, Submitted
<1>6. QED
  BY <1>1, <1>2, <1>3, <1>4, <1>5

(* A case approved after a rejection rests on work done in between         *)
(* (review_rules.go:108-120).                                              *)
THEOREM SecondApprovalsEarned == Spec => []SecondApprovalRestsOnNewWork
<1>1. Init => NewWorkInv
  BY DEF Init, NewWorkInv
<1>2. TypeOK /\ Begun /\ CourseInv /\ NewWorkInv /\ [Next]_vars => NewWorkInv'
  BY NewWorkStep
<1>3. NewWorkInv /\ ReviewReadiness => SecondApprovalRestsOnNewWork
  BY DEF NewWorkInv, WorkedOff, ReviewReadiness, Ready, SecondApprovalRestsOnNewWork
<1>4. QED
  BY <1>1, <1>2, <1>3, TypeCorrect, BegunAlways, CourseAlways, ReviewsReady, PTL
  DEF Spec
-----------------------------------------------------------------------------
(* An interval from 1 has as many elements as its end.                     *)
LEMMA IntervalSize ==
  ASSUME NEW n \in Nat
  PROVE  IsFiniteSet(1..n) /\ Cardinality(1..n) = n
<1>1. IsFiniteSet(1..n) /\ Cardinality(1..n) = IF 1 > n THEN 0 ELSE n - 1 + 1
  BY FS_Interval
<1>2. QED
  BY <1>1

(* A list with as many elements as places has each of them once.           *)
LEMMA ListedOnce ==
  ASSUME NEW T, NEW list \in Seq(T),
         Cardinality({list[k] : k \in DOMAIN list}) = Len(list)
  PROVE  \A i, j \in DOMAIN list : list[i] = list[j] => i = j
<1> DEFINE n == Len(list)
           S == {list[k] : k \in DOMAIN list}
<1>1. n \in Nat /\ DOMAIN list = 1..n
  BY LenProperties
<1>2. IsFiniteSet(1..n) /\ Cardinality(1..n) = n
  BY <1>1, IntervalSize
<1>3. list \in Surjection(1..n, S)
  <2>1. list \in [1..n -> T]
    BY LenProperties
  <2>2. \A k \in 1..n : list[k] \in S
    BY <1>1
  <2>3. \A t \in S : \E k \in 1..n : list[k] = t
    BY <1>1
  <2> HIDE DEF n, S
  <2>4. list \in [1..n -> S]
    BY <2>1, <2>2
  <2>5. QED
    BY <2>3, <2>4 DEF Surjection
<1>4. Cardinality(1..n) = Cardinality(S)
  BY <1>1, <1>2
<1> HIDE DEF n, S
<1>5. list \in Injection(1..n, S)
  BY <1>2, <1>3, <1>4, FS_SurjSameCardinalityImpliesInj
<1>6. QED
  BY <1>1, <1>5 DEF Injection, IsInjective

(* Where no identifier is listed twice, the first one occurs once and the  *)
(* loop conjoins every value (remediation_rules.go:140-181).               *)
LEMMA DistinctVerdict ==
  ASSUME NEW threshold, NEW retest \in Seq(EvidenceIds), retest # <<>>,
         Cardinality({retest[k] : k \in DOMAIN retest}) = Len(retest)
  PROVE  ComputedPassed(threshold, retest)
           <=> \A k \in DOMAIN retest : Meets(retest[k], threshold)
<1>1. 1 \in DOMAIN retest /\ DOMAIN retest = 1..Len(retest)
  <2>1. \A list \in Seq(EvidenceIds) :
          list # <<>> => 1 \in DOMAIN list /\ DOMAIN list = 1..Len(list)
    BY EmptySeq, LenProperties
  <2>2. QED
    BY <2>1
<1>2. \A i, j \in DOMAIN retest : retest[i] = retest[j] => i = j
  BY ListedOnce
<1>3. \A k \in DOMAIN retest : retest[k] = retest[1] => k = 1
  BY <1>1, <1>2
<1>4. ASSUME ComputedPassed(threshold, retest), NEW k \in DOMAIN retest
      PROVE  Meets(retest[k], threshold)
  BY <1>1, <1>3, <1>4 DEF ComputedPassed
<1>5. ASSUME \A k \in DOMAIN retest : Meets(retest[k], threshold)
      PROVE  ComputedPassed(threshold, retest)
  <2>1. \A j \in 1..Len(retest) : j = 1 \/ retest[j] # retest[1]
    BY <1>1, <1>3
  <2>2. QED
    BY <1>1, <1>5, <2>1 DEF ComputedPassed
<1>6. QED
  BY <1>4, <1>5

(* The retest of an action rests on evidence of the case, and the verdict  *)
(* is that of the values it shows.                                         *)
Justified(action) ==
  action.threshold # NoThreshold /\ action.status # "planned" =>
    /\ \A k \in DOMAIN action.retest : action.retest[k] \in DOMAIN evidence
    /\ Cardinality({action.retest[k] : k \in DOMAIN action.retest})
         = Len(action.retest)
       => (action.status = "verified" <=> Accepted(action))

VerdictInv == \A id \in DOMAIN actions : Justified(actions[id])

(* What is justified stays so: evidence is only added                      *)
(* (aggregate.go:88-103).                                                  *)
LEMMA JustifiedStays ==
  [Next]_vars => \A action : Justified(action) => Justified(action)'
<1> SUFFICES ASSUME [Next]_vars, NEW action, Justified(action),
                    action.threshold # NoThreshold, action.status # "planned"
             PROVE  /\ \A k \in DOMAIN action.retest :
                         action.retest[k] \in DOMAIN evidence'
                    /\ Cardinality({action.retest[k] : k \in DOMAIN action.retest})
                         = Len(action.retest)
                       => (action.status = "verified" <=> Accepted(action))'
  BY DEF Justified
<1>1. \A k \in DOMAIN action.retest :
        /\ action.retest[k] \in DOMAIN evidence
        /\ action.retest[k] \in DOMAIN evidence'
        /\ evidence'[action.retest[k]] = evidence[action.retest[k]]
  BY ProofKept DEF Justified
<1>2. Accepted(action)' <=> Accepted(action)
  BY <1>1 DEF Accepted
<1>3. QED
  BY <1>1, <1>2 DEF Justified

(* Planning enters an action without a verdict                             *)
(* (remediation_rules.go:89-101).                                          *)
LEMMA PlannedJustified ==
  \A cmd \in PlanCommands :
    TypeOK /\ VerdictInv /\ PlanRemediation(cmd) => VerdictInv'
<1> SUFFICES ASSUME NEW cmd \in PlanCommands, TypeOK, VerdictInv,
                    PlanRemediation(cmd), NEW id \in DOMAIN actions',
                    NEW new, new = actions'[id]
             PROVE  Justified(new)'
  BY DEF VerdictInv, Justified, Accepted
<1>1. Grown(actions, actions', cmd.id) /\ actions'[cmd.id].status = "planned"
  <2>1. ActionEntered(cmd)
    BY PlanRemediationEnters
  <2>2. QED
    BY <2>1 DEF ActionEntered
<1>2. UNCHANGED evidence
  BY DEF PlanRemediation, proof
<1>3. CASE id = cmd.id
  BY <1>1, <1>3 DEF Justified
<1>4. CASE id # cmd.id
  BY <1>1, <1>2, <1>4 DEF Grown, VerdictInv, Justified, Accepted
<1>5. QED
  BY <1>3, <1>4

(* A verification records the verdict the retest values give               *)
(* (remediation_rules.go:140-181).                                         *)
LEMMA VerifiedJustified ==
  \A cmd \in VerifyCommands :
    TypeOK /\ VerdictInv /\ VerifyRemediation(cmd) => VerdictInv'
<1> SUFFICES ASSUME NEW cmd \in VerifyCommands, TypeOK, VerdictInv,
                    VerifyRemediation(cmd), NEW id \in DOMAIN actions',
                    NEW new, new = actions'[id]
             PROVE  Justified(new)'
  BY DEF VerdictInv, Justified, Accepted
<1>1. UNCHANGED evidence /\ DOMAIN actions' = DOMAIN actions
  BY DEF VerifyRemediation, proof
<1>2. CASE id # cmd.id
  <2>1. actions'[id] = actions[id]
    BY <1>1, <1>2 DEF VerifyRemediation
  <2>2. QED
    BY <1>1, <2>1 DEF VerdictInv, Justified, Accepted
<1>3. CASE id = cmd.id
  <2> DEFINE action == actions[id]
  <2>1. action \in Action /\ id \in DOMAIN actions
    BY <1>1 DEF TypeOK, IsMap
  <2>2. cmd.retest \in Seq(EvidenceIds) /\ cmd.passed \in BOOLEAN
    BY CommandAssumption DEF VerifyCommand
  <2>3. /\ new.threshold = action.threshold /\ new.retest = cmd.retest
        /\ new.status = IF cmd.passed THEN "verified" ELSE "failed"
    BY <1>3, <2>1 DEF VerifyRemediation, Action
  <2>4. /\ cmd.retest # <<>>
        /\ \A k \in DOMAIN cmd.retest : cmd.retest[k] \in DOMAIN evidence
        /\ action.threshold # NoThreshold =>
             cmd.passed = ComputedPassed(action.threshold, cmd.retest)
    BY <1>3 DEF VerifyRemediation, RetestCovers
  <2>5. ASSUME action.threshold # NoThreshold,
               Cardinality({cmd.retest[k] : k \in DOMAIN cmd.retest})
                 = Len(cmd.retest)
        PROVE  cmd.passed <=> \A k \in DOMAIN cmd.retest :
                 evidence[cmd.retest[k]].value \in action.threshold.accepts
    BY <2>2, <2>4, <2>5, DistinctVerdict DEF Meets
  <2> HIDE DEF action
  <2>6. QED
    BY <1>1, <2>2, <2>3, <2>4, <2>5 DEF Justified, Accepted
<1>4. QED
  BY <1>2, <1>3

(* The verdict on an action is the conjunction of its retest values, and   *)
(* stays the one of the values that were listed                            *)
(* (remediation_rules.go:140-181).                                         *)
THEOREM VerdictsConjoin == Spec => []VerdictIsConjunction
<1>1. Init => VerdictInv
  BY DEF Init, VerdictInv
<1>2. TypeOK /\ VerdictInv /\ [Next]_vars => VerdictInv'
  <2> SUFFICES ASSUME TypeOK, VerdictInv, [Next]_vars
               PROVE  VerdictInv'
    OBVIOUS
  <2>1. CASE UNCHANGED actions
    <3>1. ASSUME NEW id \in DOMAIN actions', NEW action, action = actions'[id]
          PROVE  Justified(action)'
      <4>1. Justified(action)
        BY <2>1, <3>1 DEF VerdictInv
      <4>2. QED
        BY <4>1, JustifiedStays
    <3>2. QED
      BY <3>1 DEF VerdictInv, Justified, Accepted
  <2>2. \/ UNCHANGED actions
        \/ \E cmd \in PlanCommands : PlanRemediation(cmd)
        \/ \E cmd \in VerifyCommands : VerifyRemediation(cmd)
    BY DEF Next, CreateCase, FreezeBaseline, AddEvidence, EvaluateHypothesis,
           SubmitReview, ApproveReview, RejectReview, CloseCorrectiveItem,
           RecordDispositions, ArchiveCase, vars, records
  <2>3. QED
    BY <2>1, <2>2, PlannedJustified, VerifiedJustified
<1>3. VerdictInv => VerdictIsConjunction
  BY DEF VerdictInv, Justified, VerdictIsConjunction
<1>4. QED
  BY <1>1, <1>2, <1>3, TypeCorrect, PTL DEF Spec
=============================================================================
