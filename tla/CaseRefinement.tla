--------------------------- MODULE CaseRefinement ---------------------------
(***************************************************************************)
(* ContaminationCase implements CaseLifecycle, for every set of people,    *)
(* records and commands.                                                   *)
(***************************************************************************)
EXTENDS CaseProofs, SequenceTheorems

(* Where a case stands tells what its reviews can be: none before and      *)
(* during the first investigation, a single rejection in the second one;   *)
(* actions come with remediation and items with the rejection only, so     *)
(* that a case under investigation which has either was rejected.          *)
CourseInv ==
  /\ reviews = <<>> =>
       /\ DOMAIN correctiveItems = {}
       /\ status \in {"none", "draft", "bounded", "investigating"} =>
            DOMAIN actions = {}
  /\ status \in {"none", "draft", "bounded"} => reviews = <<>>
  /\ status \in {"investigating", "remediation_validation"} =>
       reviews = <<>> \/ Verdicts = <<"rejected">>

(* A step that signs nothing leaves the verdicts as they were.             *)
LEMMA SameVerdicts == UNCHANGED reviews => UNCHANGED Verdicts
  BY DEF Verdicts

(* The verdicts are a sequence of outcomes, one for each review.           *)
LEMMA VerdictsSequence ==
  TypeOK => /\ Verdicts \in Seq({"approved", "rejected"})
            /\ Len(Verdicts) = Len(reviews)
            /\ Verdicts = <<>> <=> reviews = <<>>
<1> SUFFICES ASSUME TypeOK
             PROVE  /\ Verdicts \in Seq({"approved", "rejected"})
                    /\ Len(Verdicts) = Len(reviews)
                    /\ Verdicts = <<>> <=> reviews = <<>>
  OBVIOUS
<1>1. reviews \in Seq(Review)
  BY DEF TypeOK
<1> DEFINE n == Len(reviews)
<1>2. n \in Nat /\ DOMAIN reviews = 1..n /\ \A k \in 1..n : reviews[k] \in Review
  BY <1>1, LenProperties
<1>3. Verdicts \in [1..n -> {"approved", "rejected"}]
  BY <1>2 DEF Verdicts, Review
<1>4. Verdicts \in Seq({"approved", "rejected"})
  BY <1>2, <1>3, SeqDef
<1>5. Len(Verdicts) = n
  BY <1>2, <1>3, <1>4, LenProperties
<1>6. QED
  BY <1>1, <1>4, <1>5, EmptySeq

(* An opinion is added behind the earlier ones (aggregate.go:142-157).     *)
LEMMA SignedVerdicts ==
  ASSUME TypeOK, NEW reviewer \in Actors, NEW outcome \in {"approved", "rejected"},
         Signed(reviewer, outcome)
  PROVE  Verdicts' = Append(Verdicts, outcome)
<1> DEFINE n == Len(reviews)
           review == [reviewer |-> reviewer, outcome |-> outcome]
           appended == Append(Verdicts, outcome)
<1>1. reviews \in Seq(Review) /\ review \in Review /\ n \in Nat
  BY LenProperties DEF TypeOK, Review
<1>2. /\ reviews' \in Seq(Review) /\ Len(reviews') = n + 1
      /\ \A k \in 1..n : reviews'[k] = reviews[k]
      /\ reviews'[n + 1] = review
  <2>1. reviews' = Append(reviews, review)
    BY DEF Signed
  <2> HIDE DEF review
  <2>2. QED
    BY <1>1, <2>1, AppendProperties
<1>3. /\ appended \in Seq({"approved", "rejected"}) /\ Len(appended) = n + 1
      /\ \A k \in 1..n : appended[k] = Verdicts[k]
      /\ appended[n + 1] = outcome
  BY VerdictsSequence, AppendProperties
<1>4. DOMAIN reviews = 1..n /\ DOMAIN reviews' = 1..(n + 1)
  BY <1>1, <1>2, LenProperties
<1>5. appended = [k \in 1..(n + 1) |-> appended[k]]
  BY <1>3, LenProperties
<1>6. \A k \in 1..(n + 1) : reviews'[k].outcome = appended[k]
  BY <1>1, <1>2, <1>3, <1>4 DEF Verdicts
<1> HIDE DEF appended
<1>7. QED
  BY <1>4, <1>5, <1>6 DEF Verdicts, appended
-----------------------------------------------------------------------------
(* Every step keeps reviews, items and actions in step with the status.    *)
LEMMA CourseStep == TypeOK /\ Begun /\ CourseInv /\ [Next]_vars => CourseInv'
<1> SUFFICES ASSUME TypeOK, Begun, CourseInv, [Next]_vars
             PROVE  CourseInv'
  OBVIOUS
<1> USE SameVerdicts DEF bounds, records, Expect
<1>1. ASSUME NEW cmd \in CreateCommands, CreateCase(cmd) PROVE CourseInv'
  BY <1>1 DEF CreateCase, Begun, CourseInv
<1>2. ASSUME NEW cmd \in FreezeCommands, FreezeBaseline(cmd) PROVE CourseInv'
  BY <1>2 DEF FreezeBaseline, CourseInv
<1>3. ASSUME NEW cmd \in EvidenceCommands, AddEvidence(cmd) PROVE CourseInv'
  BY <1>3 DEF AddEvidence, Collecting, CourseInv
<1>4. ASSUME NEW cmd \in HypothesisCommands, EvaluateHypothesis(cmd)
      PROVE  CourseInv'
  BY <1>4 DEF EvaluateHypothesis, CourseInv
<1>5. ASSUME NEW cmd \in PlanCommands, PlanRemediation(cmd) PROVE CourseInv'
  BY <1>5 DEF PlanRemediation, CourseInv
<1>6. ASSUME NEW cmd \in VerifyCommands, VerifyRemediation(cmd) PROVE CourseInv'
  BY <1>6 DEF VerifyRemediation, CourseInv
<1>7. ASSUME NEW at \in Times, SubmitReview(at) PROVE CourseInv'
  BY <1>7 DEF SubmitReview, CourseInv
<1>8. ASSUME NEW reviewer \in Actors, ApproveReview(reviewer) PROVE CourseInv'
  <2>1. reviews' # <<>>
    BY <1>8 DEF ApproveReview, Signed, TypeOK, Review
  <2>2. QED
    BY <1>8, <2>1 DEF ApproveReview, MayReview, CourseInv
<1>9. ASSUME NEW cmd \in RejectCommands, RejectReview(cmd) PROVE CourseInv'
  <2>1. cmd.actor \in Actors
    BY CommandAssumption DEF IsRejectCommand
  <2>2. Verdicts = <<>>
    BY <1>9, VerdictsSequence DEF RejectReview
  <2>3. Verdicts' = <<"rejected">>
    BY <1>9, <2>1, <2>2, SignedVerdicts DEF RejectReview
  <2>4. reviews' # <<>>
    BY <1>9, <2>1 DEF RejectReview, Signed, TypeOK, Review
  <2>5. QED
    BY <1>9, <2>3, <2>4 DEF RejectReview, CourseInv
<1>10. ASSUME NEW cmd \in CloseCommands, CloseCorrectiveItem(cmd)
       PROVE  CourseInv'
  BY <1>10 DEF CloseCorrectiveItem, CourseInv
<1>11. ASSUME NEW cmd \in DispositionCommands, RecordDispositions(cmd)
       PROVE  CourseInv'
  BY <1>11 DEF RecordDispositions, CourseInv
<1>12. CASE ArchiveCase
  BY <1>12 DEF ArchiveCase, CourseInv
<1>13. CASE UNCHANGED vars
  BY <1>13 DEF vars, CourseInv
<1>14. QED
  BY <1>1, <1>2, <1>3, <1>4, <1>5, <1>6, <1>7, <1>8, <1>9, <1>10, <1>11,
     <1>12, <1>13 DEF Next

(* So the course holds in every reachable state.                           *)
LEMMA CourseAlways == Spec => []CourseInv
<1>1. Init => CourseInv
  BY DEF Init, CourseInv
<1>2. QED
  BY <1>1, CourseStep, TypeCorrect, BegunAlways, PTL DEF Spec

(* Each command is a step of the life cycle or leaves it where it was.     *)
LEMMA LifecycleStep ==
  TypeOK /\ Begun /\ CourseInv /\ [Next]_vars =>
    [Lifecycle!Next]_(Lifecycle!vars)
<1> SUFFICES ASSUME TypeOK, Begun, CourseInv, [Next]_vars
             PROVE  [Lifecycle!Next]_(Lifecycle!vars)
  OBVIOUS
<1> USE SameVerdicts DEF bounds, records, Expect, Lifecycle!Next, Lifecycle!vars,
        Lifecycle!Move
<1>1. ASSUME NEW cmd \in CreateCommands, CreateCase(cmd) PROVE Lifecycle!Next
  BY <1>1 DEF CreateCase, Begun, Lifecycle!Open
<1>2. ASSUME NEW cmd \in FreezeCommands, FreezeBaseline(cmd) PROVE Lifecycle!Next
  BY <1>2 DEF FreezeBaseline, Lifecycle!Freeze
<1>3. ASSUME NEW cmd \in EvidenceCommands, AddEvidence(cmd)
      PROVE  [Lifecycle!Next]_(Lifecycle!vars)
  BY <1>3 DEF AddEvidence, Collecting, Lifecycle!Investigate
<1>4. ASSUME NEW cmd \in HypothesisCommands, EvaluateHypothesis(cmd)
      PROVE  UNCHANGED Lifecycle!vars
  BY <1>4 DEF EvaluateHypothesis
<1>5. ASSUME NEW cmd \in PlanCommands, PlanRemediation(cmd)
      PROVE  [Lifecycle!Next]_(Lifecycle!vars)
  BY <1>5 DEF PlanRemediation, Lifecycle!Remediate
<1>6. ASSUME NEW cmd \in VerifyCommands, VerifyRemediation(cmd)
      PROVE  UNCHANGED Lifecycle!vars
  BY <1>6 DEF VerifyRemediation
<1>7. ASSUME NEW at \in Times, SubmitReview(at) PROVE Lifecycle!Next
  <2>1. status = "investigating" => Verdicts = <<"rejected">>
    BY <1>7 DEF SubmitReview, CourseInv
  <2>2. QED
    BY <1>7, <2>1 DEF SubmitReview, Lifecycle!Submit
<1>8. ASSUME NEW reviewer \in Actors, ApproveReview(reviewer) PROVE Lifecycle!Next
  <2>1. Verdicts' = Append(Verdicts, "approved")
    BY <1>8, SignedVerdicts DEF ApproveReview
  <2>2. Len(Verdicts) < 2
    BY <1>8, VerdictsSequence DEF ApproveReview, MayReview
  <2>3. QED
    BY <1>8, <2>1, <2>2 DEF ApproveReview, MayReview, Lifecycle!Approve
<1>9. ASSUME NEW cmd \in RejectCommands, RejectReview(cmd) PROVE Lifecycle!Next
  <2>1. cmd.actor \in Actors
    BY CommandAssumption DEF IsRejectCommand
  <2>2. Verdicts = <<>>
    BY <1>9, VerdictsSequence DEF RejectReview
  <2>3. Verdicts' = <<"rejected">>
    BY <1>9, <2>1, <2>2, SignedVerdicts DEF RejectReview
  <2>4. QED
    BY <1>9, <2>2, <2>3 DEF RejectReview, MayReview, Lifecycle!Reject
<1>10. ASSUME NEW cmd \in CloseCommands, CloseCorrectiveItem(cmd)
       PROVE  [Lifecycle!Next]_(Lifecycle!vars)
  <2>1. Verdicts = <<"rejected">>
    BY <1>10 DEF CloseCorrectiveItem, CourseInv
  <2>2. QED
    BY <1>10, <2>1 DEF CloseCorrectiveItem, Lifecycle!Reopen
<1>11. ASSUME NEW cmd \in DispositionCommands, RecordDispositions(cmd)
       PROVE  Lifecycle!Next
  <2>1. Len(reviews) \in DOMAIN reviews /\ Len(Verdicts) = Len(reviews)
        /\ Verdicts # <<>>
    BY <1>11, VerdictsSequence DEF RecordDispositions, TypeOK
  <2>2. Verdicts[Len(Verdicts)] = "approved"
    BY <1>11, <2>1 DEF RecordDispositions, Verdicts
  <2>3. QED
    BY <1>11, <2>1, <2>2 DEF RecordDispositions, Lifecycle!Decide
<1>12. CASE ArchiveCase
  BY <1>12 DEF ArchiveCase, Lifecycle!Archive
<1>13. CASE UNCHANGED vars
  BY <1>13 DEF vars
<1>14. QED
  BY <1>1, <1>2, <1>3, <1>4, <1>5, <1>6, <1>7, <1>8, <1>9, <1>10, <1>11,
     <1>12, <1>13 DEF Next

(* The case follows its promised life cycle (README.md:7), whatever        *)
(* commands arrive: the aggregate refines the machine of statuses and      *)
(* verdicts.                                                               *)
THEOREM LifecycleImplemented == Spec => LifecycleSpec
<1>1. Init => Lifecycle!Init
  BY DEF Init, Lifecycle!Init, Verdicts
<1>2. QED
  BY <1>1, LifecycleStep, CourseAlways, TypeCorrect, BegunAlways, PTL
  DEF Spec, LifecycleSpec, Lifecycle!Spec
=============================================================================
