----------------------------- MODULE CaseLoops -----------------------------
(***************************************************************************)
(* The loops the aggregate computes its verdicts with, one iteration a     *)
(* step, over the records of any case that can come about.                 *)
(* ContaminationCase has a closed form for each; here the loop runs and    *)
(* what it returns is compared with the form.  The loops run on an         *)
(* aggregate nobody else sees, so the case stands still meanwhile.         *)
(***************************************************************************)
EXTENDS ContaminationCase

VARIABLES
  loop,   \* the function whose loop is running
  input,  \* what it was called with
  todo,   \* what its for statement still has to visit
  acc     \* its local variables

loops == <<loop, input, todo, acc>>

LoopInit == Init /\ loop = "none" /\ input = "" /\ todo = {} /\ acc = ""

Begin(name, argument, visits, locals) ==
  /\ loop = "none" /\ loop' = name
  /\ input' = argument /\ todo' = visits /\ acc' = locals
  /\ UNCHANGED vars

Visited ==
  IF loop \in {"completeness", "retest"} THEN todo = <<>> ELSE todo = {}

Return ==
  /\ loop # "none" /\ Visited
  /\ loop' = "none" /\ input' = "" /\ todo' = {} /\ acc' = ""
  /\ UNCHANGED vars
-----------------------------------------------------------------------------
(* completenessFor: the evidence of a sample in the order of custody.      *)

Chain_MapOrder(s) ==
  CHOOSE chain \in [1..Cardinality(EvidenceOf(s)) -> EvidenceOf(s)] :
    \A id \in EvidenceOf(s) : \E k \in DOMAIN chain : chain[k] = id
Chain(s) ==
  CHOOSE chain \in [1..Cardinality(EvidenceOf(s)) -> EvidenceOf(s)] :
    \A j, k \in DOMAIN chain :
      j < k => evidence[chain[j]].seq < evidence[chain[k]].seq

BeginCompleteness(s) ==
  Begin("completeness", s, Chain(s),
    [counts |-> {}, seen |-> {}, lastTime |-> 0, lastSeq |-> 0, blocked |-> FALSE])

Blocks(e) ==
  \/ e.digest \in acc.seen
  \/ acc.lastTime # 0 /\ e.collectedAt < acc.lastTime
  \/ acc.lastSeq # 0 /\ e.seq # acc.lastSeq + 1

CompletenessStep ==
  /\ loop = "completeness" /\ todo # <<>>
  /\ LET e == evidence[Head(todo)]
     IN acc' = [counts |-> acc.counts \cup {e.category},
                seen |-> acc.seen \cup {e.digest},
                lastTime |-> e.collectedAt, lastSeq |-> e.seq,
                blocked |-> acc.blocked \/ Blocks(e)]
  /\ todo' = Tail(todo)
  /\ UNCHANGED <<loop, input, vars>>

(* A sample counts as complete exactly if the loop finds every category    *)
(* and no issue, however the identifiers of the evidence are ordered       *)
(* (projections.go:25-72).                                                 *)
CompletenessLoop ==
  loop = "completeness" /\ todo = <<>> =>
    (Complete(input) <=> Categories \subseteq acc.counts /\ ~acc.blocked)
-----------------------------------------------------------------------------
(* recomputeHypothesisComparison: every pair of hypotheses.                *)

BeginComparison ==
  DOMAIN hypotheses # {} /\
  Begin("comparison", "",
    {pair \in SUBSET DOMAIN hypotheses : Cardinality(pair) = 2},
    [h \in DOMAIN hypotheses |-> {}])

Opposed(left, right) ==
  {id \in Links(left.relation) \cap Links(right.relation) :
     \/ left.relation[id] = "supports" /\ right.relation[id] = "refutes"
     \/ left.relation[id] = "refutes" /\ right.relation[id] = "supports"}

Compare_Left(left, right) ==
  [acc EXCEPT ![left] = @ \cup Opposed(hypotheses[left], hypotheses[right])]
Compare(left, right) ==
  LET found == Opposed(hypotheses[left], hypotheses[right])
  IN [acc EXCEPT ![left] = @ \cup found, ![right] = @ \cup found]

Skipped(left, right) ==
  left.source # right.source \/ left.explained \/ right.explained

ComparisonStep ==
  /\ loop = "comparison" /\ todo # {}
  /\ \E left, right \in DOMAIN hypotheses :
       /\ left # right /\ {left, right} \in todo
       /\ todo' = todo \ {{left, right}}
       /\ acc' = IF Skipped(hypotheses[left], hypotheses[right]) THEN acc
                 ELSE Compare(left, right)
  /\ UNCHANGED <<loop, input, vars>>

(* The contested evidence of every hypothesis, of the earlier one of a     *)
(* pair too, is what its contradictions say (projections.go:88-116).       *)
ComparisonLoop ==
  loop = "comparison" /\ todo = {} =>
    \A h \in DOMAIN hypotheses : acc[h] = ConflictEvidence(h)

(* What the investigation rests on: neither the order of the identifiers   *)
(* nor that of the evaluations shows in the views (projections.go:25-116). *)
InvestigationLoops == CompletenessLoop /\ ComparisonLoop
-----------------------------------------------------------------------------
(* DecideVerifyRemediation: the listed retest evidence, one by one.        *)

BeginRetest(cmd) ==
  /\ Expect({"remediation_validation"}) /\ cmd.id \in DOMAIN actions
  /\ Verifiable(actions[cmd.id], cmd.actor) /\ cmd.retest # <<>>
  /\ Begin("retest", cmd, cmd.retest,
       [valid |-> TRUE, covered |-> {}, passed |-> cmd.passed])

Admissible(action, id) ==
  /\ id \in DOMAIN evidence /\ evidence[id].collectedAt >= frozenAt
  /\ evidence[id].sample \in action.targets
  /\ action.threshold # NoThreshold => evidence[id].metric = action.threshold.metric

Verdict_Overwritten(action, id) ==
  IF action.threshold = NoThreshold THEN acc.passed ELSE Meets(id, action.threshold)
Verdict(action, id) ==
  IF action.threshold = NoThreshold THEN acc.passed
  ELSE Meets(id, action.threshold) /\ (id = input.retest[1] \/ acc.passed)

RetestStep ==
  /\ loop = "retest" /\ todo # <<>>
  /\ LET action == actions[input.id]
         id     == Head(todo)
     IN IF Admissible(action, id)
        THEN /\ acc' = [acc EXCEPT !.covered = @ \cup {evidence[id].sample},
                                   !.passed = Verdict(action, id)]
             /\ todo' = Tail(todo)
        ELSE acc' = [acc EXCEPT !.valid = FALSE] /\ todo' = <<>>
  /\ UNCHANGED <<loop, input, vars>>

(* The loop accepts the lists that cover the targets, and its verdict is   *)
(* the conjunction from the last occurrence of the first identifier on     *)
(* (remediation_rules.go:140-178).                                         *)
RetestLoop ==
  loop = "retest" /\ todo = <<>> =>
    LET action   == actions[input.id]
        accepted == acc.valid /\ action.targets \subseteq acc.covered
    IN /\ accepted <=> RetestCovers(action, input.retest)
       /\ accepted /\ action.threshold # NoThreshold =>
            (acc.passed <=> ComputedPassed(action.threshold, input.retest))
-----------------------------------------------------------------------------
(* RemediationCoverageMatrix: the actions of the case in map order.        *)

BeginCoverage(s) ==
  /\ s \in samples /\ DOMAIN actions # {}
  /\ Begin("coverage", s, DOMAIN actions,
       [isolation |-> FALSE, cleaning |-> FALSE, retest |-> FALSE,
        latest |-> 0, passed |-> FALSE])

Later_Any(action) == TRUE
Later(action) == action.verifiedAt > acc.latest

See(action) ==
  LET verified == action.status = "verified"
  IN CASE input \notin action.targets -> acc
       [] OTHER -> CASE
          action.type = "sample_isolation"    -> [acc EXCEPT !.isolation = @ \/ verified]
       [] action.type = "instrument_cleaning" -> [acc EXCEPT !.cleaning = @ \/ verified]
       [] action.type = "sample_retest" /\ Later(action) ->
            [acc EXCEPT !.retest = @ \/ action.status # "planned",
                        !.latest = action.verifiedAt, !.passed = verified]
       [] OTHER -> [acc EXCEPT !.retest = @ \/ action.status # "planned"]

CoverageStep ==
  /\ loop = "coverage" /\ todo # {}
  /\ \E a \in todo : todo' = todo \ {a} /\ acc' = See(actions[a])
  /\ UNCHANGED <<loop, input, vars>>

(* Whatever order the map is walked in, the loop accepts only samples that *)
(* are covered, and accepts every covered sample whose latest retests all  *)
(* passed; retests tied at the latest time leave it to the order           *)
(* (projections.go:150-183).                                               *)
CoverageLoop ==
  loop = "coverage" /\ todo = {} =>
    LET accepted == acc.isolation /\ acc.cleaning /\ acc.retest /\ acc.passed
    IN /\ accepted => Covered(input)
       /\ /\ Covered(input)
          /\ \A a \in LatestRetests(input) : actions[a].status = "verified"
          => accepted
-----------------------------------------------------------------------------
CaseStep == loop = "none" /\ Next /\ UNCHANGED loops

Call ==
  \/ \E s \in samples : BeginCompleteness(s) \/ BeginCoverage(s)
  \/ BeginComparison
  \/ \E cmd \in VerifyCommands : BeginRetest(cmd)

Iterate == CompletenessStep \/ ComparisonStep \/ RetestStep \/ CoverageStep

LoopNext == CaseStep \/ Call \/ Iterate \/ Return

LoopSpec == LoopInit /\ [][LoopNext]_<<vars, loops>>
=============================================================================
