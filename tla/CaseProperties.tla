--------------------------- MODULE CaseProperties ---------------------------
(***************************************************************************)
(* What must hold of a contamination case, stated over the aggregate of    *)
(* ContaminationCase and independently of the operators it is built from.  *)
(***************************************************************************)
EXTENDS ContaminationCase

Evidence ==
  [sample: SampleIds, category: Categories, metric: Metrics, value: Values,
   collectedAt: Times, digest: Digests, seq: Nat, collector: Actors,
   addedAt: Nat]
Hypothesis ==
  [source: Sources, relation: [EvidenceIds -> Labels],
   conclusion: Conclusions, explained: BOOLEAN, evaluator: Actors]
Action ==
  [type: ActionTypes, targets: SUBSET SampleIds,
   threshold: Threshold \cup {NoThreshold}, executor: Actors,
   witness: Actors, status: {"planned", "verified", "failed"},
   retest: Seq(EvidenceIds), verifiedAt: Times \cup {0}, addedAt: Nat]
Review == [reviewer: Actors, outcome: {"approved", "rejected"}]
CorrectiveItem ==
  [severity: Severities, assignee: Actors, due: Times,
   status: {"open", "closed"}, rejectedAt: Times, rejectedRevision: Nat,
   explained: BOOLEAN, evidence: SUBSET EvidenceIds,
   actions: SUBSET ActionIds]

(* Every field of the aggregate (aggregate.go:11-26) holds a value of its  *)
(* type after any sequence of commands.  A sample has the disposition its  *)
(* client froze it with, whatever that is, up to the decision, and one the *)
(* rules know from then on.                                                *)
TypeOK ==
  /\ status \in Statuses /\ revision \in 0..MaxRevision
  /\ createdBy \in Actors \cup {NoActor} /\ lead \in Actors \cup {NoActor}
  /\ allowedScopes \in SUBSET Scopes
  /\ frozenAt \in Times \cup {0} /\ samples \in SUBSET SampleIds
  /\ IsMap(evidence, EvidenceIds, Evidence)
  /\ custody \in [SampleIds -> Nat]
  /\ IsMap(hypotheses, HypothesisIds, Hypothesis)
  /\ IsMap(actions, ActionIds, Action)
  /\ reviews \in Seq(Review)
  /\ investigators \in SUBSET Actors /\ witnesses \in SUBSET Actors
  /\ IsMap(correctiveItems, ItemIds, CorrectiveItem)
  /\ dispositions \in [samples -> Marking]
  /\ status \in {"decided", "archived"} => dispositions \in [samples -> Decision]

Submitted == {"pending_review", "decided", "archived"}
-----------------------------------------------------------------------------
(* The custody chain of every sample is 1..n without a hole, its numbers,  *)
(* its collection times and the order in which the records entered the     *)
(* case agree, and no content is registered twice                          *)
(* (investigation_rules.go:56-67).                                         *)
CustodyIntact ==
  /\ \A s \in SampleIds :
       {evidence[id].seq : id \in EvidenceOf(s)} = 1..custody[s]
  /\ \A i, j \in DOMAIN evidence : i # j =>
       /\ evidence[i].digest # evidence[j].digest
       /\ evidence[i].sample = evidence[j].sample =>
            /\ evidence[i].seq # evidence[j].seq
            /\ evidence[i].seq < evidence[j].seq =>
                 /\ evidence[i].collectedAt <= evidence[j].collectedAt
                 /\ evidence[i].addedAt < evidence[j].addedAt

(* No hypothesis ever rests on a sample that lacks one of the categories   *)
(* of evidence (investigation_rules.go:126-139), whatever was added since. *)
HypothesesRestOnCompleteSamples ==
  \A h \in DOMAIN hypotheses : \A id \in Links(hypotheses[h].relation) :
    /\ id \in DOMAIN evidence
    /\ \A c \in Categories : \E e \in DOMAIN evidence :
         evidence[e].category = c /\ evidence[e].sample = evidence[id].sample

(* A confirmed source is contradicted by no hypothesis on the same source, *)
(* evaluated before or after it, unless one of the two is explained        *)
(* (investigation_rules.go:162-177).                                       *)
ConfirmedUncontested ==
  \A g, h \in DOMAIN hypotheses :
    LET G == hypotheses[g]
        H == hypotheses[h]
    IN /\ G.conclusion = "confirmed" /\ G.source = H.source
       /\ ~G.explained /\ ~H.explained
       => \A id \in EvidenceIds :
            {G.relation[id], H.relation[id]} # {"supports", "refutes"}

(* A hypothesis is never revised, so that one which blocks the gate of     *)
(* remediation_rules.go:19-32 before any action is planned keeps the case  *)
(* under investigation for ever.                                           *)
Trapped ==
  /\ status = "investigating" /\ actions = <<>>
  /\ \E g, h \in DOMAIN hypotheses :
       \/ Contradictions(hypotheses[g], hypotheses[h]) # {}
       \/ Unsettled(hypotheses[g])
BlockedGateTraps == [][Trapped => Trapped']_vars

(* From its submission on, a case has every corrective item closed, and    *)
(* every sample isolated, its instruments cleaned and retested with        *)
(* success, no later retest having failed (remediation_rules.go:189-222).  *)
Concerning(s, type, result) ==
  {a \in DOMAIN actions :
     /\ s \in actions[a].targets
     /\ actions[a].type = type /\ actions[a].status = result}

Ready ==
  /\ \A i \in DOMAIN correctiveItems : correctiveItems[i].status = "closed"
  /\ \A s \in samples :
       /\ Concerning(s, "sample_isolation", "verified") # {}
       /\ Concerning(s, "instrument_cleaning", "verified") # {}
       /\ \E r \in Concerning(s, "sample_retest", "verified") :
            \A f \in Concerning(s, "sample_retest", "failed") :
              actions[f].verifiedAt <= actions[r].verifiedAt

ReviewReadiness == status \in Submitted => Ready

(* What the reviewer saw is what is decided and archived: while a case is  *)
(* under review or past it, even by its rejection, no record the review    *)
(* rests on changes, and nothing at all changes in an archived case        *)
(* (aggregate.go:45-63).                                                   *)
KeepsReviewed ==
  /\ status \in Submitted =>
       /\ UNCHANGED <<bounds, proof, hypotheses, actions, people>>
       /\ status' # "investigating" => UNCHANGED correctiveItems
  /\ status \in {"decided", "archived"} => UNCHANGED <<reviews, dispositions>>
  /\ status # "archived"
ReviewedMaterialFrozen == [][KeepsReviewed]_vars

(* No record is removed, and none changes but for what its own life asks:  *)
(* the baseline, evidence, hypotheses and reviews stay as they were        *)
(* entered; an action changes in its result alone, to one of the two       *)
(* verdicts and never once it passed; an item changes once, when it is     *)
(* closed, and keeps what the rejection said; the disposition of a frozen  *)
(* sample changes with the decision alone (aggregate.go:65-191).           *)
SameAction(new, old) ==
  new = [old EXCEPT !.status = new.status, !.retest = new.retest,
                    !.verifiedAt = new.verifiedAt]
SameItem(new, old) ==
  new = [old EXCEPT !.status = "closed", !.explained = new.explained,
                    !.evidence = new.evidence, !.actions = new.actions]

KeepsRecords ==
  /\ samples # {} => UNCHANGED bounds
  /\ samples # {} /\ status' # "decided" => UNCHANGED dispositions
  /\ \A id \in DOMAIN evidence :
       id \in DOMAIN evidence' /\ evidence'[id] = evidence[id]
  /\ \A id \in DOMAIN hypotheses :
       id \in DOMAIN hypotheses' /\ hypotheses'[id] = hypotheses[id]
  /\ \A id \in DOMAIN actions :
       /\ id \in DOMAIN actions'
       /\ actions'[id] # actions[id] =>
            /\ SameAction(actions'[id], actions[id])
            /\ actions[id].status # "verified" /\ actions'[id].status # "planned"
  /\ \A id \in DOMAIN correctiveItems :
       /\ id \in DOMAIN correctiveItems'
       /\ correctiveItems'[id] # correctiveItems[id] =>
            /\ SameItem(correctiveItems'[id], correctiveItems[id])
            /\ correctiveItems[id].status = "open"
  /\ \A k \in DOMAIN reviews :
       k \in DOMAIN reviews' /\ reviews'[k] = reviews[k]
RecordsPermanent == [][KeepsRecords]_vars

(* Whoever approved a case neither opened it, nor leads it, nor gathered   *)
(* evidence, carried out or witnessed an action in it, before or after     *)
(* (review_rules.go:10-26).                                                *)
DutySegregation ==
  \A k \in DOMAIN reviews : reviews[k].outcome = "approved" =>
    /\ reviews[k].reviewer \notin {createdBy, lead}
    /\ \A id \in DOMAIN evidence : evidence[id].collector # reviews[k].reviewer
    /\ \A id \in DOMAIN actions :
         reviews[k].reviewer \notin {actions[id].executor, actions[id].witness}

(* A case approved after a rejection rests on work done in between: every  *)
(* item was closed with evidence or actions of this case added after the   *)
(* rejection (review_rules.go:108-120).                                    *)
SecondApprovalRestsOnNewWork ==
  (Len(reviews) = 2 /\ reviews[1].outcome = "rejected") =>
    /\ DOMAIN correctiveItems # {}
    /\ \A i \in DOMAIN correctiveItems :
         LET item == correctiveItems[i]
         IN /\ item.status = "closed" /\ item.evidence \cup item.actions # {}
            /\ \A id \in item.evidence : evidence[id].addedAt > item.rejectedRevision
            /\ \A id \in item.actions : actions[id].addedAt > item.rejectedRevision

(* In a decided case a sample released without restriction carries no      *)
(* failed action, the case has no contested source, and a sample released  *)
(* for some research is released for research the case allows, whatever    *)
(* the client had marked it with when it was frozen (case_rules.go:56-103, *)
(* review_rules.go:206-237).                                               *)
SafeRelease ==
  status \in {"decided", "archived"} => \A s \in samples :
    LET d == dispositions[s]
    IN /\ d.disposition = "all_research" =>
            /\ \A a \in DOMAIN actions :
                 s \in actions[a].targets => actions[a].status # "failed"
            /\ \A g, h \in DOMAIN hypotheses :
                 Contradictions(hypotheses[g], hypotheses[h]) = {}
       /\ d.disposition = "limited_research" /\ allowedScopes # {} =>
            d.scope # {} /\ d.scope \subseteq allowedScopes

(* The verdict on an action with a threshold is the conjunction of its     *)
(* retest values, when no evidence is listed twice                         *)
(* (remediation_rules.go:140-181).                                         *)
Accepted(action) ==
  \A k \in DOMAIN action.retest :
    evidence[action.retest[k]].value \in action.threshold.accepts
VerdictIsConjunction ==
  \A id \in DOMAIN actions :
    LET action == actions[id]
    IN /\ action.threshold # NoThreshold /\ action.status # "planned"
       /\ Cardinality({action.retest[k] : k \in DOMAIN action.retest})
            = Len(action.retest)
       => (action.status = "verified" <=> Accepted(action))
-----------------------------------------------------------------------------
(* What the documents say and the code does not do                         *)

(* README.md:17: the result is recomputed from the linked evidence, so     *)
(* that a verified action meets its threshold with all of it.              *)
VerifiedMeetsThreshold ==
  \A id \in DOMAIN actions :
    (actions[id].threshold # NoThreshold /\ actions[id].status = "verified")
      => Accepted(actions[id])

(* BENZHI_README.md:13: investigators test the hypotheses, and a reviewer  *)
(* free of any investigation duty signs.                                   *)
ReviewerIndependent ==
  \A k \in DOMAIN reviews : reviews[k].outcome = "approved" =>
    \A h \in DOMAIN hypotheses : hypotheses[h].evaluator # reviews[k].reviewer
-----------------------------------------------------------------------------
Verdicts == [k \in DOMAIN reviews |-> reviews[k].outcome]

Lifecycle == INSTANCE CaseLifecycle WITH verdicts <- Verdicts

(* Statuses and verdicts follow the promised life cycle (README.md:7).     *)
LifecycleSpec == Lifecycle!Spec
=============================================================================
