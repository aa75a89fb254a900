----------------------------- MODULE CaseProofs -----------------------------
(***************************************************************************)
(* Theorems about ContaminationCase, for every set of people, records and  *)
(* commands: its types, and its safety invariants, each by an invariant    *)
(* that is inductive together with TypeOK.                                 *)
(***************************************************************************)
EXTENDS CaseProperties, TLAPS

(* Overriding a map with another keeps it a map                            *)
(* (the Go assignments m[k] = v of aggregate.go:65-191).                   *)
LEMMA MergeMap ==
  ASSUME NEW S, NEW T, NEW f, NEW g, IsMap(f, S, T), IsMap(g, S, T)
  PROVE  IsMap(Merge(f, g), S, T)
  BY DEF IsMap, Merge

(* So does setting one entry of it.                                        *)
LEMMA PutMap ==
  ASSUME NEW S, NEW T, NEW f, IsMap(f, S, T), NEW k \in S, NEW v \in T
  PROVE  IsMap(Put(f, k, v), S, T)
<1>1. IsMap([x \in {k} |-> v], S, T)
  BY DEF IsMap
<1>2. QED
  BY <1>1, MergeMap DEF Put
-----------------------------------------------------------------------------
(* Type correctness: whatever commands arrive, every field of the          *)
(* aggregate (aggregate.go:11-26) keeps a value of its type.  The          *)
(* invariant is inductive as it stands.                                    *)
THEOREM TypeCorrect == Spec => []TypeOK
<1>1. Init => TypeOK
  BY TimesAssumption DEF Init, TypeOK, IsMap, Statuses, Marking, Decision
<1>2. TypeOK /\ [Next]_vars => TypeOK'
  <2> SUFFICES ASSUME TypeOK, [Next]_vars
               PROVE  TypeOK'
    OBVIOUS
  <2> USE TimesAssumption DEF head, bounds, proof, people, records
  <2>0. Record => revision' \in 0..MaxRevision /\ revision' \in Nat
    BY DEF Record, TypeOK
  <2>1. ASSUME NEW cmd \in CreateCommands, CreateCase(cmd) PROVE TypeOK'
    <3>1. cmd \in CreateCommand
      BY CommandAssumption
    <3>2. QED
      BY <2>1, <2>0, <3>1 DEF CreateCase, TypeOK, Statuses, CreateCommand
  <2>2. ASSUME NEW cmd \in FreezeCommands, FreezeBaseline(cmd) PROVE TypeOK'
    <3>1. /\ cmd.samples \in SUBSET SampleIds /\ cmd.frozenAt \in Times
          /\ cmd.marks \in [cmd.samples -> Marking]
      BY CommandAssumption DEF IsFreezeCommand
    <3>2. QED
      BY <2>2, <2>0, <3>1 DEF FreezeBaseline, TypeOK, Statuses
  <2>3. ASSUME NEW cmd \in EvidenceCommands, AddEvidence(cmd) PROVE TypeOK'
    <3>1. cmd \in EvidenceCommand
      BY CommandAssumption
    <3>2. IsMap(evidence', EvidenceIds, Evidence)
      <4> DEFINE e == [sample |-> cmd.sample, category |-> cmd.category,
            metric |-> cmd.metric, value |-> cmd.value,
            collectedAt |-> cmd.collectedAt, digest |-> cmd.digest,
            seq |-> cmd.seq, collector |-> cmd.actor, addedAt |-> revision']
      <4>1. e \in Evidence
        BY <2>3, <2>0, <3>1 DEF AddEvidence, EvidenceCommand, Evidence
      <4>2. evidence' = Put(evidence, cmd.id, e)
        BY <2>3 DEF AddEvidence
      <4>3. cmd.id \in EvidenceIds
        BY <3>1 DEF EvidenceCommand
      <4> HIDE DEF e
      <4>4. QED
        BY <4>1, <4>2, <4>3, PutMap DEF TypeOK
    <3>3. custody' \in [SampleIds -> Nat]
      BY <2>3, <3>1 DEF AddEvidence, TypeOK, EvidenceCommand
    <3>4. status' \in Statuses /\ investigators' \in SUBSET Actors
      BY <2>3, <3>1 DEF AddEvidence, TypeOK, EvidenceCommand, Statuses
    <3>5. QED
      BY <2>3, <2>0, <3>2, <3>3, <3>4 DEF AddEvidence, TypeOK
  <2>4. ASSUME NEW cmd \in HypothesisCommands, EvaluateHypothesis(cmd)
        PROVE  TypeOK'
    <3> DEFINE h == [source |-> cmd.source, relation |-> cmd.relation,
          conclusion |-> cmd.conclusion, explained |-> cmd.explained,
          evaluator |-> cmd.actor]
    <3>1. cmd \in HypothesisCommand
      BY CommandAssumption
    <3>2. h \in Hypothesis /\ cmd.id \in HypothesisIds
      BY <3>1 DEF HypothesisCommand, Hypothesis
    <3>3. hypotheses' = Put(hypotheses, cmd.id, h)
      BY <2>4 DEF EvaluateHypothesis
    <3> HIDE DEF h
    <3>4. IsMap(hypotheses', HypothesisIds, Hypothesis)
      BY <3>2, <3>3, PutMap DEF TypeOK
    <3>5. QED
      BY <2>4, <2>0, <3>4 DEF EvaluateHypothesis, TypeOK
  <2>5. ASSUME NEW cmd \in PlanCommands, PlanRemediation(cmd) PROVE TypeOK'
    <3> DEFINE a == [type |-> cmd.type, targets |-> cmd.targets,
          threshold |-> cmd.threshold, executor |-> cmd.actor,
          witness |-> cmd.witness, status |-> "planned", retest |-> cmd.retest,
          verifiedAt |-> cmd.verifiedAt, addedAt |-> revision']
    <3>1. cmd \in PlanCommand
      BY CommandAssumption
    <3>2. a \in Action /\ cmd.id \in ActionIds
      BY <2>5, <2>0, <3>1 DEF PlanRemediation, PlanCommand, Action
    <3>3. actions' = Put(actions, cmd.id, a)
      BY <2>5 DEF PlanRemediation
    <3> HIDE DEF a
    <3>4. IsMap(actions', ActionIds, Action)
      BY <3>2, <3>3, PutMap DEF TypeOK
    <3>5. /\ investigators' \in SUBSET Actors /\ witnesses' \in SUBSET Actors
          /\ status' \in Statuses
      BY <2>5, <3>1 DEF PlanRemediation, PlanCommand, TypeOK, Statuses
    <3>6. QED
      BY <2>5, <2>0, <3>4, <3>5 DEF PlanRemediation, TypeOK
  <2>6. ASSUME NEW cmd \in VerifyCommands, VerifyRemediation(cmd)
        PROVE  TypeOK'
    <3>1. cmd \in VerifyCommand
      BY CommandAssumption
    <3>2. actions[cmd.id] \in Action /\ cmd.id \in DOMAIN actions
      BY <2>6 DEF VerifyRemediation, TypeOK, IsMap
    <3> DEFINE a == [actions[cmd.id] EXCEPT
          !.status = IF cmd.passed THEN "verified" ELSE "failed",
          !.retest = cmd.retest, !.verifiedAt = cmd.at]
    <3>3. a \in Action
      BY <3>1, <3>2 DEF VerifyCommand, Action
    <3>4. actions' = [actions EXCEPT ![cmd.id] = a]
      BY <2>6, <3>2 DEF VerifyRemediation, TypeOK, IsMap
    <3> HIDE DEF a
    <3>5. IsMap(actions', ActionIds, Action)
      BY <3>3, <3>4 DEF TypeOK, IsMap
    <3>6. QED
      BY <2>6, <2>0, <3>5 DEF VerifyRemediation, TypeOK
  <2>7. ASSUME NEW at \in Times, SubmitReview(at) PROVE TypeOK'
    BY <2>7, <2>0 DEF SubmitReview, TypeOK, Statuses
  <2>8. ASSUME NEW reviewer \in Actors, ApproveReview(reviewer) PROVE TypeOK'
    <3>1. reviews' \in Seq(Review)
      BY <2>8 DEF ApproveReview, Signed, TypeOK, Review
    <3>2. QED
      BY <2>8, <2>0, <3>1 DEF ApproveReview, TypeOK
  <2>9. ASSUME NEW cmd \in RejectCommands, RejectReview(cmd) PROVE TypeOK'
    <3> DEFINE items == [i \in DOMAIN cmd.findings |->
          [severity |-> cmd.findings[i].severity,
           assignee |-> cmd.findings[i].assignee, due |-> cmd.findings[i].due,
           status |-> "open", rejectedAt |-> cmd.at,
           rejectedRevision |-> revision + 1, explained |-> FALSE,
           evidence |-> {}, actions |-> {}]]
    <3>1. /\ cmd.actor \in Actors /\ cmd.at \in Times
          /\ IsMap(cmd.findings, ItemIds, Finding)
      BY CommandAssumption DEF IsRejectCommand
    <3>2. revision + 1 \in Nat
      BY DEF TypeOK
    <3>3. IsMap(items, ItemIds, CorrectiveItem)
      BY <3>1, <3>2 DEF IsMap, Finding, CorrectiveItem
    <3>4. correctiveItems' = Merge(correctiveItems, items)
      BY <2>9 DEF RejectReview
    <3> HIDE DEF items
    <3>5. IsMap(correctiveItems', ItemIds, CorrectiveItem)
      BY <3>3, <3>4, MergeMap DEF TypeOK
    <3>6. reviews' \in Seq(Review)
      BY <2>9, <3>1 DEF RejectReview, Signed, TypeOK, Review
    <3>7. QED
      BY <2>9, <2>0, <3>5, <3>6 DEF RejectReview, TypeOK, Statuses
  <2>10. ASSUME NEW cmd \in CloseCommands, CloseCorrectiveItem(cmd)
         PROVE  TypeOK'
    <3>1. cmd \in CloseCommand
      BY CommandAssumption
    <3>2. /\ correctiveItems[cmd.id] \in CorrectiveItem
          /\ cmd.id \in DOMAIN correctiveItems
      BY <2>10 DEF CloseCorrectiveItem, TypeOK, IsMap
    <3> DEFINE i == [correctiveItems[cmd.id] EXCEPT
          !.status = "closed", !.explained = cmd.explained,
          !.evidence = cmd.evidence, !.actions = cmd.actions]
    <3>3. i \in CorrectiveItem
      BY <3>1, <3>2 DEF CloseCommand, CorrectiveItem
    <3>4. correctiveItems' = [correctiveItems EXCEPT ![cmd.id] = i]
      BY <2>10, <3>2 DEF CloseCorrectiveItem, TypeOK, IsMap
    <3> HIDE DEF i
    <3>5. IsMap(correctiveItems', ItemIds, CorrectiveItem)
      BY <3>3, <3>4 DEF TypeOK, IsMap
    <3>6. QED
      BY <2>10, <2>0, <3>5 DEF CloseCorrectiveItem, TypeOK, Statuses
  <2>11. ASSUME NEW cmd \in DispositionCommands, RecordDispositions(cmd)
         PROVE  TypeOK'
    <3>1. IsMap(cmd.decisions, SampleIds, Decision)
      BY CommandAssumption DEF IsDispositionCommand
    <3>2. ASSUME NEW s \in samples
          PROVE  [cmd.decisions[s] EXCEPT !.basis = BasisOf(s, cmd.decisions[s])]
                   \in Decision
      <4>1. cmd.decisions[s] \in Decision
        BY <2>11, <3>1 DEF RecordDispositions, IsMap
      <4>2. BasisOf(s, cmd.decisions[s]) \in SUBSET References
        BY <4>1 DEF BasisOf, EvidenceOf, Decision, References, TypeOK, IsMap
      <4>3. QED
        BY <4>1, <4>2 DEF Decision
    <3>3. dispositions' \in [samples -> Decision]
      BY <2>11, <3>2 DEF RecordDispositions
    <3>4. Decision \subseteq Marking
      BY DEF Decision, Marking
    <3>5. dispositions' \in [samples -> Marking]
      BY <3>3, <3>4
    <3>6. QED
      BY <2>11, <2>0, <3>3, <3>5 DEF RecordDispositions, TypeOK, Statuses
  <2>12. CASE ArchiveCase
    BY <2>12, <2>0 DEF ArchiveCase, Expect, TypeOK, Statuses
  <2>13. CASE UNCHANGED vars
    BY <2>13 DEF vars, TypeOK
  <2>14. QED
    BY <2>1, <2>2, <2>3, <2>4, <2>5, <2>6, <2>7, <2>8, <2>9, <2>10, <2>11,
       <2>12, <2>13 DEF Next
<1>3. QED
  BY <1>1, <1>2, PTL DEF Spec
-----------------------------------------------------------------------------
(* n is m with an entry for the new key k.                                 *)
Grown(m, n, k) ==
  /\ k \notin DOMAIN m /\ DOMAIN n = DOMAIN m \cup {k}
  /\ \A x \in DOMAIN m : n[x] = m[x]

EvidenceEntered(cmd) ==
  /\ Grown(evidence, evidence', cmd.id)
  /\ evidence'[cmd.id] =
       [sample |-> cmd.sample, category |-> cmd.category,
        metric |-> cmd.metric, value |-> cmd.value,
        collectedAt |-> cmd.collectedAt, digest |-> cmd.digest,
        seq |-> cmd.seq, collector |-> cmd.actor, addedAt |-> revision']

HypothesisEntered(cmd) ==
  /\ Grown(hypotheses, hypotheses', cmd.id)
  /\ hypotheses'[cmd.id] =
       [source |-> cmd.source, relation |-> cmd.relation,
        conclusion |-> cmd.conclusion, explained |-> cmd.explained,
        evaluator |-> cmd.actor]

ActionEntered(cmd) ==
  /\ Grown(actions, actions', cmd.id)
  /\ actions'[cmd.id] =
       [type |-> cmd.type, targets |-> cmd.targets,
        threshold |-> cmd.threshold, executor |-> cmd.actor,
        witness |-> cmd.witness, status |-> "planned", retest |-> cmd.retest,
        verifiedAt |-> cmd.verifiedAt, addedAt |-> revision']

(* Setting an unused key leaves every other entry alone.                   *)
LEMMA PutGrows ==
  ASSUME NEW f, NEW k, NEW v, k \notin DOMAIN f
  PROVE  Grown(f, Put(f, k, v), k) /\ Put(f, k, v)[k] = v
  BY DEF Grown, Put, Merge

(* The three commands that record something new enter it and change        *)
(* nothing recorded before (aggregate.go:88-123).                          *)
LEMMA AddEvidenceEnters ==
  \A cmd : AddEvidence(cmd) => EvidenceEntered(cmd)
  BY PutGrows DEF AddEvidence, EvidenceEntered

(* So does an evaluated hypothesis, under its identifier.                  *)
LEMMA EvaluateHypothesisEnters ==
  \A cmd : EvaluateHypothesis(cmd) => HypothesisEntered(cmd)
  BY PutGrows DEF EvaluateHypothesis, HypothesisEntered

(* And so does a planned action.                                           *)
LEMMA PlanRemediationEnters ==
  \A cmd : PlanRemediation(cmd) => ActionEntered(cmd)
  BY PutGrows DEF PlanRemediation, ActionEntered
-----------------------------------------------------------------------------
(* A case without events does not exist (aggregate.go:28-30).              *)
Begun == revision = 0 => status = "none"

(* It holds in every reachable state: only the creation leaves revision 0. *)
LEMMA BegunAlways == Spec => []Begun
<1>1. Init => Begun
  BY DEF Init, Begun
<1>2. TypeOK /\ Begun /\ [Next]_vars => Begun'
  <2>1. TypeOK /\ Record => revision' # 0
    BY DEF Record, TypeOK
  <2>2. Next => Record
    BY DEF Next, CreateCase, FreezeBaseline, AddEvidence, EvaluateHypothesis,
           PlanRemediation, VerifyRemediation, SubmitReview, ApproveReview,
           RejectReview, CloseCorrectiveItem, RecordDispositions, ArchiveCase
  <2>3. QED
    BY <2>1, <2>2 DEF Begun, vars
<1>3. QED
  BY <1>1, <1>2, TypeCorrect, PTL DEF Spec
-----------------------------------------------------------------------------
(* The approvals a case carries were given under review, by people free of *)
(* every duty taken up in it, and the sets of people cover whoever the     *)
(* records name.                                                           *)
DutyInv ==
  /\ \A id \in DOMAIN evidence : evidence[id].collector \in investigators
  /\ \A id \in DOMAIN actions :
       actions[id].executor \in investigators /\ actions[id].witness \in witnesses
  /\ \A k \in DOMAIN reviews : reviews[k].outcome = "approved" =>
       status \in Submitted /\ ~ReviewerConflict(reviews[k].reviewer)

(* Every step keeps the approvals free of duties (review_rules.go:10-29):  *)
(* duties are only taken up while no approval is there.                    *)
LEMMA DutyStep == TypeOK /\ Begun /\ DutyInv /\ [Next]_vars => DutyInv'
<1> SUFFICES ASSUME TypeOK, Begun, DutyInv, [Next]_vars
             PROVE  DutyInv'
  OBVIOUS
<1> USE DEF head, bounds, proof, people, records
<1>1. ASSUME NEW cmd \in CreateCommands, CreateCase(cmd) PROVE DutyInv'
  BY <1>1 DEF CreateCase, Begun, DutyInv, Submitted, ReviewerConflict
<1>2. ASSUME NEW cmd \in FreezeCommands, FreezeBaseline(cmd) PROVE DutyInv'
  BY <1>2 DEF FreezeBaseline, DutyInv, Submitted, ReviewerConflict, Expect
<1>3. ASSUME NEW cmd \in EvidenceCommands, AddEvidence(cmd) PROVE DutyInv'
  <2>0. EvidenceEntered(cmd)
    BY <1>3, AddEvidenceEnters
  <2>1. \A id \in DOMAIN evidence' : evidence'[id].collector \in investigators'
    BY <1>3, <2>0 DEF AddEvidence, DutyInv, EvidenceEntered, Grown
  <2>2. status \notin Submitted
    BY <1>3 DEF AddEvidence, Collecting, Expect, Submitted
  <2>3. QED
    BY <1>3, <2>1, <2>2 DEF AddEvidence, DutyInv
<1>4. ASSUME NEW cmd \in HypothesisCommands, EvaluateHypothesis(cmd)
      PROVE  DutyInv'
  BY <1>4 DEF EvaluateHypothesis, DutyInv, ReviewerConflict
<1>5. ASSUME NEW cmd \in PlanCommands, PlanRemediation(cmd) PROVE DutyInv'
  <2>0. ActionEntered(cmd)
    BY <1>5, PlanRemediationEnters
  <2>1. \A id \in DOMAIN actions' : /\ actions'[id].executor \in investigators'
                                   /\ actions'[id].witness \in witnesses'
    BY <1>5, <2>0 DEF PlanRemediation, DutyInv, ActionEntered, Grown
  <2>2. status \notin Submitted
    BY <1>5 DEF PlanRemediation, Expect, Submitted
  <2>3. QED
    BY <1>5, <2>1, <2>2 DEF PlanRemediation, DutyInv
<1>6. ASSUME NEW cmd \in VerifyCommands, VerifyRemediation(cmd) PROVE DutyInv'
  <2>1. \A id \in DOMAIN actions : actions[id] \in Action
    BY DEF TypeOK, IsMap
  <2>2. \A id \in DOMAIN actions' :
          /\ id \in DOMAIN actions
          /\ actions'[id].executor = actions[id].executor
          /\ actions'[id].witness = actions[id].witness
    BY <1>6, <2>1 DEF VerifyRemediation, Action
  <2>3. QED
    BY <1>6, <2>2 DEF VerifyRemediation, DutyInv, ReviewerConflict
<1>7. ASSUME NEW at \in Times, SubmitReview(at) PROVE DutyInv'
  BY <1>7 DEF SubmitReview, DutyInv, ReviewerConflict, Submitted
<1>8. ASSUME NEW reviewer \in Actors, ApproveReview(reviewer) PROVE DutyInv'
  <2>1. \A k \in DOMAIN reviews' :
          \/ k \in DOMAIN reviews /\ reviews'[k] = reviews[k]
          \/ reviews'[k].reviewer = reviewer
    BY <1>8 DEF ApproveReview, Signed, TypeOK
  <2>2. status' \in Submitted /\ ~ReviewerConflict(reviewer)
    BY <1>8 DEF ApproveReview, MayReview, Expect, Submitted
  <2>3. QED
    BY <1>8, <2>1, <2>2 DEF ApproveReview, DutyInv, ReviewerConflict
<1>9. ASSUME NEW cmd \in RejectCommands, RejectReview(cmd) PROVE DutyInv'
  <2>1. \A k \in DOMAIN reviews' : reviews'[k].outcome = "rejected"
    BY <1>9 DEF RejectReview, Signed
  <2>2. QED
    BY <1>9, <2>1 DEF RejectReview, DutyInv
<1>10. ASSUME NEW cmd \in CloseCommands, CloseCorrectiveItem(cmd) PROVE DutyInv'
  BY <1>10 DEF CloseCorrectiveItem, DutyInv, Expect, Submitted
<1>11. ASSUME NEW cmd \in DispositionCommands, RecordDispositions(cmd)
       PROVE  DutyInv'
  BY <1>11 DEF RecordDispositions, DutyInv, ReviewerConflict, Submitted
<1>12. CASE ArchiveCase
  BY <1>12 DEF ArchiveCase, DutyInv, ReviewerConflict, Submitted
<1>13. CASE UNCHANGED vars
  BY <1>13 DEF vars, DutyInv, ReviewerConflict
<1>14. QED
  BY <1>1, <1>2, <1>3, <1>4, <1>5, <1>6, <1>7, <1>8, <1>9, <1>10, <1>11,
     <1>12, <1>13 DEF Next

(* Segregation of duties (review_rules.go:10-26): an approver has no part  *)
(* in the case, neither before nor after the approval.                     *)
THEOREM DutiesSegregated == Spec => []DutySegregation
<1>1. Init => DutyInv
  BY DEF Init, DutyInv
<1>2. TypeOK /\ Begun /\ DutyInv /\ [Next]_vars => DutyInv'
  BY DutyStep
<1>3. DutyInv => DutySegregation
  BY DEF DutyInv, DutySegregation, ReviewerConflict
<1>4. QED
  BY <1>1, <1>2, <1>3, TypeCorrect, BegunAlways, PTL DEF Spec
-----------------------------------------------------------------------------
(* A step that ends under review, or past it, is a submission or finds the *)
(* case there already and leaves all that is reviewed as it was            *)
(* (the expected statuses of each Decide method, aggregate.go:54-63).      *)
LEMMA UnderReview ==
  [Next]_vars =>
    \/ status' \notin Submitted
    \/ /\ status \in Submitted
       /\ UNCHANGED <<head, bounds, proof, hypotheses, actions, people,
                      correctiveItems>>
    \/ \E at \in Times : SubmitReview(at)
<1> SUFFICES ASSUME Next, status' \in Submitted, ~\E at \in Times : SubmitReview(at)
             PROVE  /\ status \in Submitted
                    /\ UNCHANGED <<head, bounds, proof, hypotheses, actions,
                                   people, correctiveItems>>
  BY DEF vars, records
<1> USE DEF Submitted, Expect, records
<1>1. ASSUME NEW cmd \in CreateCommands, CreateCase(cmd) PROVE FALSE
  BY <1>1 DEF CreateCase
<1>2. ASSUME NEW cmd \in FreezeCommands, FreezeBaseline(cmd) PROVE FALSE
  BY <1>2 DEF FreezeBaseline
<1>3. ASSUME NEW cmd \in EvidenceCommands, AddEvidence(cmd) PROVE FALSE
  BY <1>3 DEF AddEvidence
<1>4. ASSUME NEW cmd \in HypothesisCommands, EvaluateHypothesis(cmd) PROVE FALSE
  BY <1>4 DEF EvaluateHypothesis
<1>5. ASSUME NEW cmd \in PlanCommands, PlanRemediation(cmd) PROVE FALSE
  BY <1>5 DEF PlanRemediation
<1>6. ASSUME NEW cmd \in VerifyCommands, VerifyRemediation(cmd) PROVE FALSE
  BY <1>6 DEF VerifyRemediation
<1>9. ASSUME NEW cmd \in RejectCommands, RejectReview(cmd) PROVE FALSE
  BY <1>9 DEF RejectReview
<1>10. ASSUME NEW cmd \in CloseCommands, CloseCorrectiveItem(cmd) PROVE FALSE
  BY <1>10 DEF CloseCorrectiveItem
<1>11. QED
  BY <1>1, <1>2, <1>3, <1>4, <1>5, <1>6, <1>9, <1>10
  DEF Next, ApproveReview, MayReview, RecordDispositions, ArchiveCase

(* Only a covered and settled case can be submitted                        *)
(* (remediation_rules.go:189-222).                                         *)
LEMMA SubmissionReady ==
  \A at : SubmitReview(at) => Ready'
<1> SUFFICES ASSUME NEW at, SubmitReview(at)
             PROVE  Ready'
  OBVIOUS
<1>1. Ready
  BY DEF SubmitReview, Ready, ItemSettled, Covered, Verified, LatestRetests,
         Targeting, Concerning
<1>2. UNCHANGED <<samples, actions, correctiveItems>>
  BY DEF SubmitReview, bounds, records
<1>3. QED
  BY <1>1, <1>2 DEF Ready, Concerning

(* A case under review, decided or archived is ready for it: covered by    *)
(* verified remediation, no later retest failed, every item closed         *)
(* (remediation_rules.go:189-222).                                         *)
THEOREM ReviewsReady == Spec => []ReviewReadiness
<1>1. Init => ReviewReadiness
  BY DEF Init, ReviewReadiness, Submitted
<1>2. ReviewReadiness /\ [Next]_vars => ReviewReadiness'
  <2> SUFFICES ASSUME ReviewReadiness, [Next]_vars, status' \in Submitted
               PROVE  Ready'
    BY DEF ReviewReadiness
  <2>1. CASE /\ status \in Submitted
             /\ UNCHANGED <<head, bounds, proof, hypotheses, actions, people,
                            correctiveItems>>
    BY <2>1 DEF ReviewReadiness, Ready, Concerning, bounds
  <2>2. QED
    BY <2>1, UnderReview, SubmissionReady
<1>3. QED
  BY <1>1, <1>2, PTL DEF Spec
-----------------------------------------------------------------------------
(* What record_dispositions lets through is safe                           *)
(* (review_rules.go:206-254).                                              *)
LEMMA DecisionsSafe ==
  \A cmd \in DispositionCommands : RecordDispositions(cmd) => SafeRelease'
<1> SUFFICES ASSUME NEW cmd \in DispositionCommands, RecordDispositions(cmd),
                    NEW s \in samples
             PROVE  LET d == dispositions'[s]
                    IN /\ d.disposition = "all_research" =>
                            /\ \A a \in DOMAIN actions :
                                 s \in actions[a].targets => actions[a].status # "failed"
                            /\ \A g, h \in DOMAIN hypotheses :
                                 Contradictions(hypotheses[g], hypotheses[h]) = {}
                       /\ d.disposition = "limited_research" /\ allowedScopes # {} =>
                            d.scope # {} /\ d.scope \subseteq allowedScopes
  BY DEF RecordDispositions, SafeRelease, head, bounds
<1> DEFINE d == cmd.decisions[s]
<1>1. d \in Decision
  BY CommandAssumption DEF RecordDispositions, IsDispositionCommand, IsMap
<1>2. /\ dispositions'[s].disposition = d.disposition
      /\ dispositions'[s].scope = d.scope
  BY <1>1 DEF RecordDispositions, Decision
<1>3. MayRelease(s, d)
  BY DEF RecordDispositions
<1>4. ASSUME d.disposition = "all_research"
      PROVE  ~UnresolvedRisks(s)
  BY <1>3, <1>4 DEF MayRelease
<1>5. ASSUME d.disposition = "limited_research"
      PROVE  d.scope # {} /\ (allowedScopes # {} => d.scope \subseteq allowedScopes)
  BY <1>3, <1>5 DEF MayRelease
<1>6. QED
  BY <1>2, <1>4, <1>5 DEF UnresolvedRisks, ConflictEvidence

(* Nothing unsafe is released, whatever the samples were marked with when *)
(* they were frozen, and nothing that makes a release unsafe is recorded   *)
(* after it (case_rules.go:56-103, review_rules.go:206-237).  SafeRelease  *)
(* is inductive as it stands.                                              *)
THEOREM ReleasesSafe == Spec => []SafeRelease
<1>1. Init => SafeRelease
  BY DEF Init, SafeRelease
<1>2. SafeRelease /\ [Next]_vars => SafeRelease'
  <2> SUFFICES ASSUME SafeRelease, [Next]_vars
               PROVE  SafeRelease'
    OBVIOUS
  <2>1. ASSUME NEW cmd \in DispositionCommands, RecordDispositions(cmd)
        PROVE  SafeRelease'
    BY <2>1, DecisionsSafe
  <2>2. CASE ArchiveCase
    BY <2>2 DEF ArchiveCase, Expect, SafeRelease, head, bounds, records
  <2>3. CASE UNCHANGED vars
    BY <2>3 DEF vars, SafeRelease, head, bounds, records
  <2>4. ASSUME Next, ~ArchiveCase,
               ~\E cmd \in DispositionCommands : RecordDispositions(cmd)
        PROVE  status' \notin {"decided", "archived"}
    BY <2>4 DEF Next, CreateCase, FreezeBaseline, AddEvidence, Collecting,
           EvaluateHypothesis, PlanRemediation, VerifyRemediation, SubmitReview,
           ApproveReview, RejectReview, MayReview, CloseCorrectiveItem, Expect
  <2>5. QED
    BY <2>1, <2>2, <2>3, <2>4 DEF SafeRelease
<1>3. QED
  BY <1>1, <1>2, PTL DEF Spec
=============================================================================
