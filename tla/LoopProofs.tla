----------------------------- MODULE LoopProofs -----------------------------
(***************************************************************************)
(* Theorems about CaseLoops, for cases of every size and every order the   *)
(* loops may visit records in: what each loop returns is the closed form   *)
(* that ContaminationCase uses for it.                                     *)
(***************************************************************************)
EXTENDS CaseLoops, CaseRecords

(* A loop is begun, iterated or left alone; the case stands still while it *)
(* runs.                                                                   *)
LEMMA OneLoop ==
  [LoopNext]_<<vars, loops>> =>
    /\ [Next]_vars
    /\ loop' # "none" => UNCHANGED vars
    /\ \/ loop' = "none"
       \/ UNCHANGED loops
       \/ loop' = "coverage" /\ \E s \in samples : BeginCoverage(s)
       \/ loop' = "coverage" /\ CoverageStep
       \/ loop' = "retest" /\ \E cmd \in VerifyCommands : BeginRetest(cmd)
       \/ loop' = "retest" /\ RetestStep
       \/ loop' = "comparison" /\ BeginComparison
       \/ loop' = "comparison" /\ ComparisonStep
       \/ loop' = "completeness" /\ \E s \in samples : BeginCompleteness(s)
       \/ loop' = "completeness" /\ CompletenessStep
<1>1. CASE CaseStep
  BY <1>1 DEF CaseStep, loops
<1>2. CASE Call
  <2>1. UNCHANGED vars
    BY <1>2 DEF Call, BeginCompleteness, BeginCoverage, BeginComparison,
                BeginRetest, Begin
  <2>2. QED
    BY <1>2, <2>1 DEF Call, BeginCompleteness, BeginCoverage, BeginComparison,
                      BeginRetest, Begin
<1>3. CASE Iterate
  BY <1>3 DEF Iterate, CompletenessStep, ComparisonStep, RetestStep, CoverageStep
<1>4. CASE Return
  BY <1>4 DEF Return
<1>5. CASE UNCHANGED <<vars, loops>>
  BY <1>5 DEF loops
<1>6. QED
  BY <1>1, <1>2, <1>3, <1>4, <1>5 DEF LoopNext

(* The case that is looped over is a case of the aggregate.                *)
LEMMA LoopsOverCases == LoopSpec => Spec
<1>1. LoopInit => Init
  BY DEF LoopInit
<1>2. [LoopNext]_<<vars, loops>> => [Next]_vars
  BY OneLoop
<1>3. QED
  BY <1>1, <1>2, PTL DEF LoopSpec, Spec
-----------------------------------------------------------------------------
(* RemediationCoverageMatrix: what it holds after some of the actions.     *)

Walked(type) == Targeting(input, type) \ todo

CoverageInv ==
  loop = "coverage" =>
    /\ todo \subseteq DOMAIN actions
    /\ acc \in [isolation: BOOLEAN, cleaning: BOOLEAN, retest: BOOLEAN,
                latest: Nat, passed: BOOLEAN]
    /\ acc.isolation <=>
         \E a \in Walked("sample_isolation") : actions[a].status = "verified"
    /\ acc.cleaning <=>
         \E a \in Walked("instrument_cleaning") : actions[a].status = "verified"
    /\ acc.retest <=>
         \E a \in Walked("sample_retest") : actions[a].status # "planned"
    /\ \A a \in Walked("sample_retest") : actions[a].verifiedAt <= acc.latest
    /\ \/ acc.latest = 0 /\ ~acc.passed
       \/ /\ acc.latest > 0
          /\ \E a \in Walked("sample_retest") :
               /\ actions[a].verifiedAt = acc.latest
               /\ acc.passed <=> actions[a].status = "verified"

(* One more action (projections.go:155-178).                               *)
LEMMA CoverageContinues ==
  TypeOK /\ CoverageInv /\ CoverageStep /\ UNCHANGED vars => CoverageInv'
<1> SUFFICES ASSUME TypeOK, CoverageInv, CoverageStep, UNCHANGED vars
             PROVE  CoverageInv'
  OBVIOUS
<1>1. /\ loop = "coverage" /\ loop' = "coverage" /\ input' = input
      /\ UNCHANGED actions
  BY DEF CoverageStep, vars, records
<1>2. PICK a \in todo : todo' = todo \ {a} /\ acc' = See(actions[a])
  BY DEF CoverageStep
<1> DEFINE action == actions[a]
           seen(type) == input \in action.targets /\ action.type = type
<1>3. /\ a \in DOMAIN actions /\ todo' \subseteq DOMAIN actions
      /\ action \in Action /\ action.verifiedAt \in Nat
      /\ \A b \in DOMAIN actions : actions[b].verifiedAt \in Nat
  BY <1>1, <1>2, TimesAssumption DEF CoverageInv, TypeOK, IsMap, Action
<1>4. /\ acc \in [isolation: BOOLEAN, cleaning: BOOLEAN, retest: BOOLEAN,
                  latest: Nat, passed: BOOLEAN]
  BY <1>1 DEF CoverageInv
<1>5. \A type : Walked(type)' =
        Walked(type) \cup (IF seen(type) THEN {a} ELSE {})
  BY <1>1, <1>2, <1>3 DEF Walked, Targeting
<1>6. CASE seen("sample_isolation")
  <2>1. acc' = [acc EXCEPT !.isolation = @ \/ action.status = "verified"]
    BY <1>2, <1>6 DEF See
  <2>2. /\ Walked("sample_isolation")' = Walked("sample_isolation") \cup {a}
        /\ Walked("instrument_cleaning")' = Walked("instrument_cleaning")
        /\ Walked("sample_retest")' = Walked("sample_retest")
    BY <1>5, <1>6
  <2> HIDE DEF seen
  <2>3. QED
    BY <1>1, <1>3, <1>4, <2>1, <2>2 DEF CoverageInv
<1>7. CASE seen("instrument_cleaning")
  <2>1. acc' = [acc EXCEPT !.cleaning = @ \/ action.status = "verified"]
    BY <1>2, <1>7 DEF See
  <2>2. /\ Walked("sample_isolation")' = Walked("sample_isolation")
        /\ Walked("instrument_cleaning")' = Walked("instrument_cleaning") \cup {a}
        /\ Walked("sample_retest")' = Walked("sample_retest")
    BY <1>5, <1>7
  <2> HIDE DEF seen
  <2>3. QED
    BY <1>1, <1>3, <1>4, <2>1, <2>2 DEF CoverageInv
<1>8. CASE seen("sample_retest")
  <2>1. acc' = IF Later(action)
               THEN [acc EXCEPT !.retest = @ \/ action.status # "planned",
                                !.latest = action.verifiedAt,
                                !.passed = action.status = "verified"]
               ELSE [acc EXCEPT !.retest = @ \/ action.status # "planned"]
    BY <1>2, <1>8 DEF See
  <2>2. /\ Walked("sample_isolation")' = Walked("sample_isolation")
        /\ Walked("instrument_cleaning")' = Walked("instrument_cleaning")
        /\ Walked("sample_retest")' = Walked("sample_retest") \cup {a}
    BY <1>5, <1>8
  <2>3. \A b \in Walked("sample_retest") : b \in DOMAIN actions
    BY DEF Walked, Targeting
  <2> HIDE DEF seen
  <2>4. /\ acc' \in [isolation: BOOLEAN, cleaning: BOOLEAN, retest: BOOLEAN,
                     latest: Nat, passed: BOOLEAN]
        /\ acc'.isolation = acc.isolation /\ acc'.cleaning = acc.cleaning
        /\ acc'.retest <=> acc.retest \/ action.status # "planned"
        /\ IF action.verifiedAt > acc.latest
           THEN /\ acc'.latest = action.verifiedAt
                /\ acc'.passed <=> action.status = "verified"
           ELSE acc'.latest = acc.latest /\ acc'.passed = acc.passed
    BY <1>3, <1>4, <2>1 DEF Later
  <2>5. \A b \in Walked("sample_retest")' : actions[b].verifiedAt <= acc'.latest
    BY <1>1, <1>3, <1>4, <2>2, <2>3, <2>4 DEF CoverageInv
  <2>6. \/ acc'.latest = 0 /\ ~acc'.passed
        \/ /\ acc'.latest > 0
           /\ \E b \in Walked("sample_retest")' :
                /\ actions[b].verifiedAt = acc'.latest
                /\ acc'.passed <=> actions[b].status = "verified"
    <3>1. CASE action.verifiedAt > acc.latest
      BY <1>3, <1>4, <2>2, <2>4, <3>1
    <3>2. CASE ~(action.verifiedAt > acc.latest)
      BY <1>1, <2>2, <2>4, <3>2 DEF CoverageInv
    <3>3. QED
      BY <3>1, <3>2
  <2>7. QED
    BY <1>1, <1>3, <2>2, <2>4, <2>5, <2>6 DEF CoverageInv
<1>9. CASE input \notin action.targets
  <2>1. acc' = acc
    BY <1>2, <1>9 DEF See
  <2>2. \A type : Walked(type)' = Walked(type)
    BY <1>5, <1>9
  <2> HIDE DEF seen
  <2>3. QED
    BY <1>1, <1>3, <2>1, <2>2 DEF CoverageInv
<1>10. QED
  <2>1. action.type \in ActionTypes
    BY <1>3 DEF Action
  <2>2. QED
    BY <1>6, <1>7, <1>8, <1>9, <2>1 DEF ActionTypes

(* The walk tells a sample that is covered, and no other where the latest  *)
(* retests agree (projections.go:150-183).                                 *)
THEOREM CoverageComputed == LoopSpec => []CoverageLoop
<1>1. LoopInit => CoverageInv
  BY DEF LoopInit, CoverageInv
<1>2. TypeOK /\ CoverageInv /\ [LoopNext]_<<vars, loops>> => CoverageInv'
  <2> SUFFICES ASSUME TypeOK, CoverageInv, [LoopNext]_<<vars, loops>>,
                      loop' = "coverage"
               PROVE  CoverageInv'
    BY DEF CoverageInv
  <2>1. UNCHANGED vars
    BY OneLoop
  <2>2. ASSUME NEW s \in samples, BeginCoverage(s)
        PROVE  CoverageInv'
    BY <2>1, <2>2 DEF BeginCoverage, Begin, CoverageInv, Walked, Targeting,
                      vars, records
  <2>3. CASE CoverageStep
    BY <2>1, <2>3, CoverageContinues
  <2>4. CASE UNCHANGED loops
    BY <2>1, <2>4 DEF CoverageInv, Walked, Targeting, vars, records, loops
  <2>5. QED
    BY <2>2, <2>3, <2>4, OneLoop
<1>3. TypeOK /\ CoverageInv => CoverageLoop
  <2> SUFFICES ASSUME TypeOK, CoverageInv, loop = "coverage", todo = {}
               PROVE  CoverageLoop
    BY DEF CoverageLoop
  <2>1. \A type : Walked(type) = Targeting(input, type)
    BY DEF Walked
  <2>2. /\ acc.latest \in Nat
        /\ \A a \in Targeting(input, "sample_retest") :
             actions[a].verifiedAt \in Nat
    BY TimesAssumption DEF CoverageInv, TypeOK, IsMap, Action, Targeting
  <2>3. (acc.isolation <=> Verified(input, "sample_isolation"))
        /\ (acc.cleaning <=> Verified(input, "instrument_cleaning"))
    BY <2>1 DEF CoverageInv, Verified
  <2>4. ASSUME acc.passed
        PROVE  \E a \in LatestRetests(input) : actions[a].status = "verified"
    BY <2>1, <2>2, <2>4 DEF CoverageInv, LatestRetests
  <2>5. ASSUME NEW a \in LatestRetests(input),
               \A b \in LatestRetests(input) : actions[b].status = "verified"
        PROVE  acc.retest /\ acc.passed
    <3>1. /\ a \in Targeting(input, "sample_retest")
          /\ actions[a].verifiedAt > 0 /\ actions[a].status = "verified"
      BY <2>5 DEF LatestRetests
    <3>2. acc.retest /\ acc.latest > 0
      BY <2>1, <2>2, <3>1 DEF CoverageInv
    <3>3. PICK b \in Targeting(input, "sample_retest") :
            /\ actions[b].verifiedAt = acc.latest
            /\ acc.passed <=> actions[b].status = "verified"
      BY <2>1, <2>2, <3>2 DEF CoverageInv
    <3>4. b \in LatestRetests(input)
      BY <2>1, <2>2, <3>2, <3>3 DEF CoverageInv, LatestRetests
    <3>5. QED
      BY <2>5, <3>2, <3>3, <3>4
  <2>6. QED
    BY <2>3, <2>4, <2>5 DEF CoverageLoop, Covered
<1>4. QED
  BY <1>1, <1>2, <1>3, TypeCorrect, LoopsOverCases, PTL DEF LoopSpec
-----------------------------------------------------------------------------
(* What a for statement over a list has left is the end of the list.       *)
Ends(list, rest) ==
  /\ Len(rest) <= Len(list)
  /\ \A k \in DOMAIN rest : rest[k] = list[Len(list) - Len(rest) + k]

LEMMA NextOfList ==
  ASSUME NEW T, NEW list \in Seq(T), NEW rest \in Seq(T), Ends(list, rest),
         rest # <<>>
  PROVE  /\ Tail(rest) \in Seq(T) /\ Ends(list, Tail(rest))
         /\ Len(rest) > 0 /\ Len(Tail(rest)) = Len(rest) - 1
         /\ Head(rest) = list[Len(list) - Len(rest) + 1]
<1> DEFINE n == Len(list)
           m == Len(rest)
<1>1. n \in Nat /\ m \in Nat /\ m > 0 /\ DOMAIN rest = 1..m
  BY LenProperties, EmptySeq
<1>2. /\ Tail(rest) \in Seq(T) /\ Len(Tail(rest)) = m - 1
      /\ Head(rest) = rest[1]
      /\ DOMAIN Tail(rest) = 1..(m - 1)
      /\ \A k \in 1..(m - 1) : Tail(rest)[k] = rest[k + 1]
  BY HeadTailProperties, LenProperties
<1>3. \A k \in 1..m : rest[k] = list[n - m + k]
  BY <1>1 DEF Ends
<1>4. m <= n
  BY DEF Ends
<1> HIDE DEF n, m
<1>5. \A k \in 1..(m - 1) : Tail(rest)[k] = list[n - (m - 1) + k]
  BY <1>1, <1>2, <1>3
<1>6. QED
  BY <1>1, <1>2, <1>3, <1>4, <1>5 DEF Ends, n, m
-----------------------------------------------------------------------------
(* DecideVerifyRemediation: the verdict on the first n of the list.        *)

PassedSoFar(threshold, retest, n) ==
  \E k \in 1..n :
    /\ retest[k] = retest[1]
    /\ \A j \in k..n :
         (j = k \/ retest[j] # retest[1]) /\ Meets(retest[j], threshold)

(* What an iteration does to the verdict (remediation_rules.go:163-168).   *)
LEMMA VerdictContinues ==
  ASSUME NEW threshold, NEW retest, NEW n \in Nat
  PROVE  PassedSoFar(threshold, retest, n + 1) <=>
           /\ Meets(retest[n + 1], threshold)
           /\ \/ retest[n + 1] = retest[1]
              \/ PassedSoFar(threshold, retest, n)
<1>1. ASSUME PassedSoFar(threshold, retest, n + 1)
      PROVE  /\ Meets(retest[n + 1], threshold)
             /\ \/ retest[n + 1] = retest[1]
                \/ PassedSoFar(threshold, retest, n)
  <2>1. PICK k \in 1..(n + 1) :
          /\ retest[k] = retest[1]
          /\ \A j \in k..(n + 1) :
               (j = k \/ retest[j] # retest[1]) /\ Meets(retest[j], threshold)
    BY <1>1 DEF PassedSoFar
  <2>2. n + 1 \in k..(n + 1) /\ \A j \in k..n : j \in k..(n + 1)
    BY <2>1
  <2>3. CASE k = n + 1
    BY <2>1, <2>2, <2>3
  <2>4. CASE k # n + 1
    <3>1. k \in 1..n
      BY <2>4
    <3>2. QED
      BY <2>1, <2>2, <3>1 DEF PassedSoFar
  <2>5. QED
    BY <2>3, <2>4
<1>2. ASSUME Meets(retest[n + 1], threshold), retest[n + 1] = retest[1]
      PROVE  PassedSoFar(threshold, retest, n + 1)
  <2>1. n + 1 \in 1..(n + 1) /\ \A j \in (n + 1)..(n + 1) : j = n + 1
    OBVIOUS
  <2>2. QED
    BY <1>2, <2>1 DEF PassedSoFar
<1>3. ASSUME Meets(retest[n + 1], threshold), retest[n + 1] # retest[1],
             PassedSoFar(threshold, retest, n)
      PROVE  PassedSoFar(threshold, retest, n + 1)
  <2>1. PICK k \in 1..n :
          /\ retest[k] = retest[1]
          /\ \A j \in k..n :
               (j = k \/ retest[j] # retest[1]) /\ Meets(retest[j], threshold)
    BY <1>3 DEF PassedSoFar
  <2>2. k \in 1..(n + 1) /\ \A j \in k..(n + 1) : j \in k..n \/ j = n + 1
    OBVIOUS
  <2>3. QED
    BY <1>3, <2>1, <2>2 DEF PassedSoFar
<1>4. QED
  BY <1>1, <1>2, <1>3

(* What holds of the rest of the list and of the local variables.          *)
RetestFacts(rest, locals) ==
  LET action == actions[input.id]
      retest == input.retest
      n      == Len(retest) - Len(rest)
  IN /\ input \in VerifyCommands /\ input.id \in DOMAIN actions
     /\ retest # <<>> /\ rest \in Seq(EvidenceIds)
     /\ locals \in [valid: BOOLEAN, covered: SUBSET SampleIds, passed: BOOLEAN]
     /\ locals.valid =>
          /\ Ends(retest, rest)
          /\ \A k \in 1..n : Admissible(action, retest[k])
          /\ locals.covered = {evidence[retest[k]].sample : k \in 1..n}
          /\ action.threshold # NoThreshold /\ n > 0 =>
               (locals.passed <=> PassedSoFar(action.threshold, retest, n))
     /\ ~locals.valid =>
          /\ rest = <<>>
          /\ \E k \in DOMAIN retest : ~Admissible(action, retest[k])

RetestInv == loop = "retest" => RetestFacts(todo, acc)

LEMMA RetestStays ==
  ASSUME UNCHANGED vars, UNCHANGED input, NEW rest, NEW locals,
         rest = todo', locals = acc', RetestFacts(rest, locals)
  PROVE  RetestFacts(todo, acc)'
<1>1. UNCHANGED <<actions, evidence, frozenAt>>
  BY DEF vars, records, proof, bounds
<1>2. \A action, id : Admissible(action, id)' <=> Admissible(action, id)
  BY <1>1 DEF Admissible
<1>3. \A threshold, retest, n :
        PassedSoFar(threshold, retest, n)' <=> PassedSoFar(threshold, retest, n)
  BY <1>1 DEF PassedSoFar, Meets
<1>4. RetestFacts(rest, locals)'
  <2> DEFINE action == actions[input.id]
             retest == input.retest
             n      == Len(retest) - Len(rest)
  <2>1. action' = action /\ retest' = retest /\ n' = n
    BY <1>1
  <2>2. QED
    BY <1>1, <1>2, <1>3, <2>1 DEF RetestFacts
<1>5. QED
  BY <1>4 DEF RetestFacts

(* One more identifier (remediation_rules.go:143-170).                     *)
LEMMA RetestContinues ==
  TypeOK /\ RetestInv /\ RetestStep /\ UNCHANGED vars => RetestInv'
<1> SUFFICES ASSUME TypeOK, RetestInv, RetestStep, UNCHANGED vars,
                    NEW rest, rest = todo', NEW locals, locals = acc'
             PROVE  RetestFacts(rest, locals)
  <2>1. RetestStep => input' = input
    BY DEF RetestStep
  <2>2. QED
    BY <2>1, RetestStays DEF RetestInv
<1> DEFINE action == actions[input.id]
           retest == input.retest
           n      == Len(retest) - Len(todo)
           id     == Head(todo)
<1>1. loop = "retest" /\ todo # <<>>
  BY DEF RetestStep
<1>2. /\ input \in VerifyCommands /\ input.id \in DOMAIN actions
      /\ retest # <<>> /\ todo \in Seq(EvidenceIds)
      /\ acc \in [valid: BOOLEAN, covered: SUBSET SampleIds, passed: BOOLEAN]
      /\ acc.valid
  BY <1>1 DEF RetestInv, RetestFacts
<1>3. retest \in Seq(EvidenceIds)
  BY <1>2, CommandAssumption DEF VerifyCommand
<1>4. /\ Ends(retest, todo)
      /\ \A k \in 1..n : Admissible(action, retest[k])
      /\ acc.covered = {evidence[retest[k]].sample : k \in 1..n}
      /\ action.threshold # NoThreshold /\ n > 0 =>
           (acc.passed <=> PassedSoFar(action.threshold, retest, n))
  BY <1>1, <1>2 DEF RetestInv, RetestFacts
<1>5. /\ n \in Nat /\ n + 1 \in DOMAIN retest /\ id = retest[n + 1]
      /\ Tail(todo) \in Seq(EvidenceIds) /\ Ends(retest, Tail(todo))
      /\ Len(retest) - Len(Tail(todo)) = n + 1
  <2>1. /\ Tail(todo) \in Seq(EvidenceIds) /\ Ends(retest, Tail(todo))
        /\ Len(todo) > 0 /\ Len(Tail(todo)) = Len(todo) - 1
        /\ id = retest[Len(retest) - Len(todo) + 1]
    BY <1>1, <1>2, <1>3, <1>4, NextOfList
  <2>2. /\ Len(todo) \in Nat /\ Len(retest) \in Nat /\ Len(todo) <= Len(retest)
        /\ DOMAIN retest = 1..Len(retest)
    BY <1>2, <1>3, <1>4, LenProperties DEF Ends
  <2>3. QED
    BY <2>1, <2>2
<1> HIDE DEF n
<1>6. CASE ~Admissible(action, id)
  <2>1. locals = [acc EXCEPT !.valid = FALSE] /\ rest = <<>>
    BY <1>6 DEF RetestStep
  <2>2. ~Admissible(action, retest[n + 1])
    BY <1>5, <1>6
  <2>3. /\ locals \in [valid: BOOLEAN, covered: SUBSET SampleIds, passed: BOOLEAN]
        /\ ~locals.valid
    BY <1>2, <2>1
  <2>4. rest \in Seq(EvidenceIds)
    BY <2>1, EmptySeq
  <2> HIDE DEF action, id
  <2>5. QED
    BY <1>2, <1>5, <2>1, <2>2, <2>3, <2>4 DEF RetestFacts, action
<1>7. CASE Admissible(action, id)
  <2>1. /\ locals = [acc EXCEPT !.covered = @ \cup {evidence[id].sample},
                                !.passed = Verdict(action, id)]
        /\ rest = Tail(todo)
    BY <1>7 DEF RetestStep
  <2>2. evidence[id].sample \in SampleIds
    BY <1>7 DEF Admissible, TypeOK, IsMap, Evidence
  <2>3. Verdict(action, id) \in BOOLEAN
    BY <1>2 DEF Verdict, Meets
  <2>4. /\ locals \in [valid: BOOLEAN, covered: SUBSET SampleIds, passed: BOOLEAN]
        /\ locals.valid /\ locals.passed = Verdict(action, id)
        /\ locals.covered = acc.covered \cup {evidence[id].sample}
    BY <1>2, <2>1, <2>2, <2>3
  <2>5. \A k : k \in 1..(n + 1) <=> k \in 1..n \/ k = n + 1
    BY <1>5
  <2>6. \A k \in 1..(n + 1) : Admissible(action, retest[k])
    BY <1>4, <1>5, <1>7, <2>5 DEF n
  <2>7. locals.covered = {evidence[retest[k]].sample : k \in 1..(n + 1)}
    BY <1>4, <1>5, <2>4, <2>5 DEF n
  <2>8. ASSUME action.threshold # NoThreshold
        PROVE  locals.passed <=> PassedSoFar(action.threshold, retest, n + 1)
    <3>1. locals.passed <=>
            /\ Meets(retest[n + 1], action.threshold)
            /\ retest[n + 1] = retest[1] \/ acc.passed
      BY <1>2, <1>5, <2>4, <2>8 DEF Verdict
    <3>2. CASE n = 0
      <4>1. retest[n + 1] = retest[1]
        BY <3>2
      <4>2. QED
        BY <1>5, <3>1, <4>1, VerdictContinues
    <3>3. CASE n > 0
      <4>1. acc.passed <=> PassedSoFar(action.threshold, retest, n)
        BY <1>4, <2>8, <3>3 DEF n
      <4>2. QED
        BY <1>5, <3>1, <4>1, VerdictContinues
    <3>4. QED
      BY <1>5, <3>2, <3>3
  <2>9. QED
    BY <1>2, <1>5, <2>1, <2>4, <2>6, <2>7, <2>8 DEF RetestFacts
<1>8. QED
  BY <1>6, <1>7

(* The loop accepts the lists that cover the targets, and conjoins from    *)
(* the last occurrence of the first identifier on                          *)
(* (remediation_rules.go:140-178).                                         *)
THEOREM RetestComputed == LoopSpec => []RetestLoop
<1>1. LoopInit => RetestInv
  BY DEF LoopInit, RetestInv
<1>2. TypeOK /\ RetestInv /\ [LoopNext]_<<vars, loops>> => RetestInv'
  <2> SUFFICES ASSUME TypeOK, RetestInv, [LoopNext]_<<vars, loops>>,
                      loop' = "retest"
               PROVE  RetestInv'
    BY DEF RetestInv
  <2>1. UNCHANGED vars
    BY OneLoop
  <2>2. ASSUME NEW cmd \in VerifyCommands, BeginRetest(cmd)
        PROVE  RetestInv'
    <3>1. /\ input' = cmd /\ todo' = cmd.retest
          /\ acc' = [valid |-> TRUE, covered |-> {}, passed |-> cmd.passed]
          /\ cmd.id \in DOMAIN actions' /\ cmd.retest # <<>>
      BY <2>1, <2>2 DEF BeginRetest, Begin, vars, records
    <3>2. cmd.retest \in Seq(EvidenceIds) /\ cmd.passed \in BOOLEAN
      BY CommandAssumption DEF VerifyCommand
    <3>3. Len(cmd.retest) - Len(cmd.retest) = 0 /\ Ends(cmd.retest, cmd.retest)
      BY <3>2, LenProperties DEF Ends
    <3>4. \A k : k \notin 1..0
      OBVIOUS
    <3>5. Ends(input.retest, todo)'
      BY <3>1, <3>3 DEF Ends
    <3>6. acc' \in [valid: BOOLEAN, covered: SUBSET SampleIds, passed: BOOLEAN]
      BY <3>1, <3>2
    <3>7. QED
      BY <3>1, <3>2, <3>3, <3>4, <3>5, <3>6 DEF RetestInv, RetestFacts
  <2>3. CASE RetestStep
    BY <2>1, <2>3, RetestContinues
  <2>4. CASE UNCHANGED loops
    <3>1. /\ loop = "retest" /\ UNCHANGED input
          /\ RetestFacts(todo, acc) /\ todo = todo' /\ acc = acc'
      BY <2>4 DEF loops, RetestInv
    <3> DEFINE rest   == todo
               locals == acc
    <3>2. RetestFacts(rest, locals) /\ rest = todo' /\ locals = acc'
      BY <3>1
    <3>3. QED
      BY <2>1, <3>1, <3>2, RetestStays DEF RetestInv
  <2>5. QED
    BY <2>2, <2>3, <2>4, OneLoop
<1>3. RetestInv => RetestLoop
  <2> SUFFICES ASSUME RetestInv, loop = "retest", todo = <<>>
               PROVE  RetestLoop
    BY DEF RetestLoop
  <2> DEFINE action == actions[input.id]
             retest == input.retest
             n      == Len(retest)
  <2>1. /\ input \in VerifyCommands /\ retest # <<>> /\ acc.valid \in BOOLEAN
        /\ todo = <<>>
    BY DEF RetestInv, RetestFacts
  <2>2. /\ n \in Nat /\ n > 0 /\ DOMAIN retest = 1..n /\ n - Len(todo) = n
    <3>1. retest \in Seq(EvidenceIds)
      BY <2>1, CommandAssumption DEF VerifyCommand
    <3>2. \A list \in Seq(EvidenceIds) :
            Len(list) \in Nat /\ DOMAIN list = 1..Len(list)
              /\ (list # <<>> => Len(list) > 0)
      BY LenProperties, EmptySeq
    <3>3. Len(<<>>) = 0
      OBVIOUS
    <3>4. QED
      BY <2>1, <3>1, <3>2, <3>3
  <2>3. CASE acc.valid
    <3>1. /\ \A k \in 1..n : Admissible(action, retest[k])
          /\ acc.covered = {evidence[retest[k]].sample : k \in 1..n}
          /\ action.threshold # NoThreshold =>
               (acc.passed <=> PassedSoFar(action.threshold, retest, n))
      BY <2>2, <2>3 DEF RetestInv, RetestFacts
    <3>2. RetestCovers(action, retest) <=> action.targets \subseteq acc.covered
      BY <2>1, <2>2, <3>1 DEF RetestCovers, Admissible
    <3>3. \A threshold :
            PassedSoFar(threshold, retest, n) <=> ComputedPassed(threshold, retest)
      BY <2>2 DEF PassedSoFar, ComputedPassed
    <3>4. QED
      BY <2>3, <3>1, <3>2, <3>3 DEF RetestLoop
  <2>4. CASE ~acc.valid
    <3>1. \E k \in DOMAIN retest : ~Admissible(action, retest[k])
      BY <2>4 DEF RetestInv, RetestFacts
    <3>2. ~RetestCovers(action, retest)
      BY <3>1 DEF RetestCovers, Admissible
    <3>3. QED
      BY <2>4, <3>2 DEF RetestLoop
  <2>5. QED
    BY <2>3, <2>4
<1>4. QED
  BY <1>1, <1>2, <1>3, TypeCorrect, LoopsOverCases, PTL DEF LoopSpec
-----------------------------------------------------------------------------
(* recomputeHypothesisComparison: what it holds after some of the pairs.   *)

LEMMA PairSize ==
  ASSUME NEW g, NEW h, g # h
  PROVE  Cardinality({g, h}) = 2
<1>1. IsFiniteSet({g}) /\ Cardinality({g}) = 1
  BY FS_Singleton
<1>2. Cardinality({g} \cup {h}) = Cardinality({g}) + 1
  BY <1>1, FS_AddElement
<1>3. {g} \cup {h} = {g, h}
  OBVIOUS
<1>4. QED
  BY <1>1, <1>2, <1>3

(* The contested evidence of h that the pairs behind have shown.           *)
ContestedSoFar(h, rest) ==
  {id \in EvidenceIds : \E g \in DOMAIN hypotheses :
     /\ g # h /\ {g, h} \notin rest
     /\ id \in Contradictions(hypotheses[h], hypotheses[g])}

ComparisonInv ==
  loop = "comparison" =>
    /\ acc \in [DOMAIN hypotheses -> SUBSET EvidenceIds]
    /\ \A h \in DOMAIN hypotheses : acc[h] = ContestedSoFar(h, todo)

(* What a pair that is not skipped adds to both is what contradicts them   *)
(* (projections.go:98-115).                                                *)
LEMMA PairContradictions ==
  ASSUME TypeOK, NEW g \in DOMAIN hypotheses, NEW h \in DOMAIN hypotheses
  PROVE  LET found == IF Skipped(hypotheses[g], hypotheses[h]) THEN {}
                      ELSE Opposed(hypotheses[g], hypotheses[h])
         IN /\ Contradictions(hypotheses[g], hypotheses[h]) = found
            /\ Contradictions(hypotheses[h], hypotheses[g]) = found
<1>1. /\ hypotheses[g].relation \in [EvidenceIds -> Labels]
      /\ hypotheses[h].relation \in [EvidenceIds -> Labels]
  BY DEF TypeOK, IsMap, Hypothesis
<1>2. \A l, m : {l, m} = {"supports", "refutes"} <=>
                  \/ l = "supports" /\ m = "refutes"
                  \/ l = "refutes" /\ m = "supports"
  OBVIOUS
<1>3. CASE Skipped(hypotheses[g], hypotheses[h])
  BY <1>3 DEF Skipped, Contradictions
<1>4. CASE ~Skipped(hypotheses[g], hypotheses[h])
  BY <1>1, <1>2, <1>4 DEF Skipped, Contradictions, Opposed, Links, Labels
<1>5. QED
  BY <1>3, <1>4

(* One more pair (projections.go:95-116).                                  *)
LEMMA ComparisonContinues ==
  TypeOK /\ ComparisonInv /\ ComparisonStep /\ UNCHANGED vars => ComparisonInv'
<1> SUFFICES ASSUME TypeOK, ComparisonInv, ComparisonStep, UNCHANGED vars
             PROVE  ComparisonInv'
  OBVIOUS
<1> SUFFICES ASSUME NEW rest, rest = todo', NEW locals, locals = acc'
             PROVE  /\ locals \in [DOMAIN hypotheses -> SUBSET EvidenceIds]
                    /\ \A h \in DOMAIN hypotheses :
                         locals[h] = ContestedSoFar(h, rest)
  <2>1. UNCHANGED hypotheses
    BY DEF vars, records
  <2>2. \A g, h : Contradictions(g, h)' = Contradictions(g, h)
    BY DEF Contradictions
  <2>3. ASSUME NEW rest, rest = todo'
        PROVE  \A h : ContestedSoFar(h, todo)' = ContestedSoFar(h, rest)
    BY <2>1, <2>2, <2>3 DEF ContestedSoFar
  <2>4. QED
    BY <2>1, <2>3 DEF ComparisonInv
<1>1. /\ acc \in [DOMAIN hypotheses -> SUBSET EvidenceIds]
      /\ \A h \in DOMAIN hypotheses : acc[h] = ContestedSoFar(h, todo)
  BY DEF ComparisonInv, ComparisonStep
<1>2. PICK left \in DOMAIN hypotheses, right \in DOMAIN hypotheses :
        /\ left # right /\ rest = todo \ {{left, right}}
        /\ locals = IF Skipped(hypotheses[left], hypotheses[right]) THEN acc
                    ELSE Compare(left, right)
  BY DEF ComparisonStep
<1> DEFINE found == IF Skipped(hypotheses[left], hypotheses[right]) THEN {}
                    ELSE Opposed(hypotheses[left], hypotheses[right])
<1>3. /\ Contradictions(hypotheses[left], hypotheses[right]) = found
      /\ Contradictions(hypotheses[right], hypotheses[left]) = found
  BY PairContradictions
<1>4. found \subseteq EvidenceIds
  BY DEF Opposed, Links
<1>5. /\ locals \in [DOMAIN hypotheses -> SUBSET EvidenceIds]
      /\ locals[left] = acc[left] \cup found
      /\ locals[right] = acc[right] \cup found
      /\ \A h \in DOMAIN hypotheses \ {left, right} : locals[h] = acc[h]
  BY <1>1, <1>2, <1>4 DEF Compare
<1>6. \A g, h : {g, h} \notin rest <=>
        \/ {g, h} \notin todo
        \/ g = left /\ h = right
        \/ g = right /\ h = left
  BY <1>2
<1> HIDE DEF found
<1>7. ASSUME NEW h \in DOMAIN hypotheses
      PROVE  locals[h] = ContestedSoFar(h, rest)
  <2>1. CASE h = left
    <3>1. ContestedSoFar(h, rest) = ContestedSoFar(h, todo) \cup found
      BY <1>2, <1>3, <1>4, <1>6, <2>1 DEF ContestedSoFar
    <3>2. QED
      BY <1>1, <1>5, <2>1, <3>1
  <2>2. CASE h = right
    <3>1. ContestedSoFar(h, rest) = ContestedSoFar(h, todo) \cup found
      BY <1>2, <1>3, <1>4, <1>6, <2>2 DEF ContestedSoFar
    <3>2. QED
      BY <1>1, <1>5, <2>2, <3>1
  <2>3. CASE h \notin {left, right}
    <3>1. ContestedSoFar(h, rest) = ContestedSoFar(h, todo)
      BY <1>6, <2>3 DEF ContestedSoFar
    <3>2. QED
      BY <1>1, <1>5, <2>3, <3>1
  <2>4. QED
    BY <2>1, <2>2, <2>3
<1>8. QED
  BY <1>5, <1>7

(* The contested evidence of every hypothesis is what its contradictions   *)
(* say (projections.go:88-116).                                            *)
LEMMA ComparisonComputed == LoopSpec => []ComparisonLoop
<1>1. LoopInit => ComparisonInv
  BY DEF LoopInit, ComparisonInv
<1>2. TypeOK /\ ComparisonInv /\ [LoopNext]_<<vars, loops>> => ComparisonInv'
  <2> SUFFICES ASSUME TypeOK, ComparisonInv, [LoopNext]_<<vars, loops>>,
                      loop' = "comparison"
               PROVE  ComparisonInv'
    BY DEF ComparisonInv
  <2>1. UNCHANGED vars
    BY OneLoop
  <2>2. CASE BeginComparison
    <3>1. /\ hypotheses' = hypotheses
          /\ acc' = [h \in DOMAIN hypotheses |-> {}]
          /\ todo' = {pair \in SUBSET DOMAIN hypotheses : Cardinality(pair) = 2}
      BY <2>2 DEF BeginComparison, Begin, vars, records
    <3>2. \A g, h \in DOMAIN hypotheses : g # h => {g, h} \in todo'
      BY <3>1, PairSize
    <3>3. \A h \in DOMAIN hypotheses : ContestedSoFar(h, todo)' = {}
      BY <3>1, <3>2 DEF ContestedSoFar
    <3>4. QED
      BY <3>1, <3>3 DEF ComparisonInv
  <2>3. CASE ComparisonStep
    BY <2>1, <2>3, ComparisonContinues
  <2>4. CASE UNCHANGED loops
    BY <2>1, <2>4 DEF ComparisonInv, ContestedSoFar, Contradictions, vars,
                      records, loops
  <2>5. QED
    BY <2>2, <2>3, <2>4, OneLoop
<1>3. TypeOK /\ ComparisonInv => ComparisonLoop
  <2> SUFFICES ASSUME TypeOK, ComparisonInv, loop = "comparison", todo = {},
                      NEW h \in DOMAIN hypotheses
               PROVE  acc[h] = ConflictEvidence(h)
    BY DEF ComparisonLoop
  <2>1. Contradictions(hypotheses[h], hypotheses[h]) = {}
    <3>1. \A l : {l, l} # {"supports", "refutes"}
      OBVIOUS
    <3>2. QED
      BY <3>1 DEF Contradictions
  <2>2. \A g \in DOMAIN hypotheses :
          Contradictions(hypotheses[h], hypotheses[g]) \subseteq EvidenceIds
    BY DEF Contradictions
  <2>3. ContestedSoFar(h, todo) = ConflictEvidence(h)
    BY <2>1, <2>2 DEF ContestedSoFar, ConflictEvidence
  <2>4. QED
    BY <2>3 DEF ComparisonInv
<1>4. QED
  BY <1>1, <1>2, <1>3, TypeCorrect, LoopsOverCases, PTL DEF LoopSpec
-----------------------------------------------------------------------------
(* completenessFor: the chain of a sample and the walk along it.           *)

(* Sorting lists each record of the sample once                            *)
(* (projections.go:27-41).                                                 *)
LEMMA ChainLists ==
  ASSUME TypeOK, CustodyIntact, NEW s \in SampleIds
  PROVE  /\ custody[s] \in Nat
         /\ Chain(s) \in [1..custody[s] -> EvidenceOf(s)]
         /\ \A id \in EvidenceOf(s) : \E k \in 1..custody[s] : Chain(s)[k] = id
         /\ \A j, k \in 1..custody[s] :
              j < k => evidence[Chain(s)[j]].seq < evidence[Chain(s)[k]].seq
<1> DEFINE n == custody[s]
           S == EvidenceOf(s)
           Sorted(c) == \A j, k \in DOMAIN c :
                          j < k => evidence[c[j]].seq < evidence[c[k]].seq
           f == [k \in 1..n |-> CHOOSE id \in S : evidence[id].seq = k]
<1>1. n \in Nat
  BY DEF TypeOK
<1>2. /\ {evidence[id].seq : id \in S} = 1..n
      /\ \A i, j \in S : i # j => evidence[i].seq # evidence[j].seq
  BY DEF CustodyIntact, EvidenceOf
<1>3. \A k \in 1..n : f[k] \in S /\ evidence[f[k]].seq = k
  <2> SUFFICES ASSUME NEW k \in 1..n
               PROVE  f[k] \in S /\ evidence[f[k]].seq = k
    OBVIOUS
  <2>1. \E id \in S : evidence[id].seq = k
    BY <1>2
  <2>2. QED
    BY <2>1
<1> HIDE DEF S, n
<1>4. f \in [1..n -> S]
  BY <1>3
<1>5. \A id \in S : evidence[id].seq \in 1..n /\ f[evidence[id].seq] = id
  BY <1>2, <1>3
<1> HIDE DEF f
<1>6. f \in Bijection(1..n, S)
  BY <1>3, <1>4, <1>5 DEF Bijection, Injection, Surjection, IsInjective
<1>7. IsFiniteSet(S) /\ Cardinality(S) = n
  <2>1. ExistsBijection(1..n, S)
    BY <1>6 DEF ExistsBijection
  <2>2. QED
    BY <1>1, <2>1, FS_CountingElements, FS_NatBijection
<1>8. Sorted(f)
  BY <1>1, <1>3, <1>4
<1>9. Chain(s) \in [1..n -> S] /\ Sorted(Chain(s))
  <2>1. Chain(s) = CHOOSE c \in [1..n -> S] : Sorted(c)
    BY <1>7 DEF Chain, S
  <2> HIDE DEF Sorted
  <2>2. QED
    BY <1>4, <1>8, <2>1
<1>10. Chain(s) \in Injection(1..n, S)
  <2>1. \A j, k \in 1..n : j # k => j < k \/ k < j
    BY <1>1
  <2>2. \A k \in 1..n : evidence[Chain(s)[k]].seq \in 1..n
    BY <1>5, <1>9
  <2>3. \A j, k \in 1..n : j # k => Chain(s)[j] # Chain(s)[k]
    BY <1>1, <1>9, <2>1, <2>2
  <2>4. QED
    BY <1>9, <2>3 DEF Injection, IsInjective
<1>11. Chain(s) \in Surjection(1..n, S)
  BY <1>1, <1>7, <1>10, IntervalSize, FS_Injection
<1>12. \A id \in S : \E k \in 1..n : Chain(s)[k] = id
  BY <1>11 DEF Surjection
<1>13. \A j, k \in 1..n :
         j < k => evidence[Chain(s)[j]].seq < evidence[Chain(s)[k]].seq
  BY <1>9
<1>14. QED
  BY <1>1, <1>9, <1>12, <1>13 DEF n, S

(* Neighbours in the chain neither share a digest nor step back in time    *)
(* nor leave a hole, so that the walk meets no issue.                      *)
LEMMA ChainClean ==
  ASSUME TypeOK, CustodyIntact, NEW s \in SampleIds,
         NEW n \in Nat, n + 1 \in 1..custody[s]
  PROVE  LET chain == Chain(s)
             next  == evidence[chain[n + 1]]
         IN /\ \A k \in 1..n : evidence[chain[k]].digest # next.digest
            /\ n > 0 => /\ evidence[chain[n]].collectedAt <= next.collectedAt
                        /\ next.seq = evidence[chain[n]].seq + 1
<1> DEFINE N == custody[s]
           c == Chain(s)
<1>1. /\ N \in Nat
      /\ c \in [1..N -> EvidenceOf(s)]
      /\ \A id \in EvidenceOf(s) : \E k \in 1..N : c[k] = id
      /\ \A j, k \in 1..N : j < k => evidence[c[j]].seq < evidence[c[k]].seq
  BY ChainLists
<1>2. {evidence[id].seq : id \in EvidenceOf(s)} = 1..N
  BY DEF CustodyIntact
<1>3. \A i, j \in EvidenceOf(s) : i # j =>
        /\ evidence[i].digest # evidence[j].digest
        /\ evidence[i].seq < evidence[j].seq =>
             evidence[i].collectedAt <= evidence[j].collectedAt
  BY DEF CustodyIntact, EvidenceOf
<1> HIDE DEF N, c
<1>4. \A k \in 1..N : c[k] \in EvidenceOf(s) /\ evidence[c[k]].seq \in 1..N
  BY <1>1, <1>2
<1>5. \A k \in 1..n : k \in 1..N /\ k < n + 1
  BY <1>1 DEF N
<1>6. n + 1 \in 1..N
  BY DEF N
<1>7. \A k \in 1..n : evidence[c[k]].digest # evidence[c[n + 1]].digest
  BY <1>1, <1>3, <1>4, <1>5, <1>6
<1>8. ASSUME n > 0
      PROVE  /\ evidence[c[n]].collectedAt <= evidence[c[n + 1]].collectedAt
             /\ evidence[c[n + 1]].seq = evidence[c[n]].seq + 1
  <2> DEFINE a == evidence[c[n]].seq
             b == evidence[c[n + 1]].seq
  <2>1. n \in 1..N /\ a \in 1..N /\ b \in 1..N /\ a < b
    BY <1>1, <1>4, <1>5, <1>6, <1>8
  <2>2. evidence[c[n]].collectedAt <= evidence[c[n + 1]].collectedAt
    BY <1>3, <1>4, <1>6, <2>1
  <2>3. ASSUME b # a + 1
        PROVE  FALSE
    <3>1. a + 1 \in 1..N /\ a + 1 < b
      <4> HIDE DEF a, b
      <4>1. QED
        BY <1>1, <2>1, <2>3
    <3>2. PICK m \in 1..N : evidence[c[m]].seq = a + 1
      BY <1>1, <1>2, <3>1
    <3>3. CASE m > n + 1
      <4>1. n + 1 < m
        BY <1>1, <3>3
      <4>2. b < a + 1
        BY <1>1, <1>6, <3>2, <4>1
      <4>3. QED
        BY <1>1, <2>1, <3>1, <4>2
    <3>4. CASE m = n + 1
      BY <3>1, <3>2, <3>4
    <3>5. CASE m = n
      BY <2>1, <3>2, <3>5
    <3>6. CASE m < n
      BY <1>1, <2>1, <3>2, <3>6
    <3>7. QED
      BY <1>1, <3>3, <3>4, <3>5, <3>6
  <2>4. QED
    BY <2>2, <2>3
<1>9. QED
  BY <1>7, <1>8 DEF c

(* A chain as custody keeps it has no blocking issue.                      *)
LEMMA NoIssue ==
  ASSUME TypeOK, CustodyIntact, NEW s \in SampleIds
  PROVE  ~BlockingIssues(s)
<1>1. {evidence[id].seq : id \in EvidenceOf(s)} = 1..custody[s]
      /\ custody[s] \in Nat
  BY DEF CustodyIntact, TypeOK
<1>2. SUFFICES ASSUME NEW i \in EvidenceOf(s), NEW j \in EvidenceOf(s), i # j,
                      evidence[i].seq <= evidence[j].seq,
                      \A k \in EvidenceOf(s) :
                        ~(evidence[i].seq < evidence[k].seq
                            /\ evidence[k].seq < evidence[j].seq)
               PROVE  /\ evidence[i].collectedAt <= evidence[j].collectedAt
                      /\ evidence[j].seq = evidence[i].seq + 1
  <2>1. \A i, j \in EvidenceOf(s) :
          i # j => evidence[i].digest # evidence[j].digest
    BY DEF CustodyIntact, EvidenceOf
  <2>2. \A i \in EvidenceOf(s) : evidence[i].collectedAt \in Nat
    BY TimesAssumption DEF TypeOK, IsMap, Evidence, EvidenceOf
  <2>3. QED
    BY <2>1, <2>2 DEF BlockingIssues
<1> DEFINE a == evidence[i].seq
           b == evidence[j].seq
<1>3. /\ a \in 1..custody[s] /\ b \in 1..custody[s] /\ a < b
      /\ evidence[i].collectedAt <= evidence[j].collectedAt
  <2>1. /\ a # b
        /\ a < b => evidence[i].collectedAt <= evidence[j].collectedAt
    BY <1>2 DEF CustodyIntact, EvidenceOf
  <2>2. a \in 1..custody[s] /\ b \in 1..custody[s]
    BY <1>1
  <2>3. QED
    BY <1>1, <1>2, <2>1, <2>2
<1>4. ASSUME b # a + 1
      PROVE  FALSE
  <2>1. a + 1 \in 1..custody[s] /\ a < a + 1 /\ a + 1 < b
    BY <1>1, <1>3, <1>4
  <2>2. PICK k \in EvidenceOf(s) : evidence[k].seq = a + 1
    BY <1>1, <2>1
  <2>3. QED
    BY <1>2, <2>1, <2>2
<1>5. QED
  BY <1>3, <1>4

(* What holds of the rest of the chain and of the local variables.         *)
CompletenessFacts(chain, rest, locals) ==
  LET n == Len(chain) - Len(rest)
  IN /\ rest \in Seq(EvidenceOf(input)) /\ Ends(chain, rest)
     /\ locals = [counts   |-> {evidence[chain[k]].category : k \in 1..n},
                  seen     |-> {evidence[chain[k]].digest : k \in 1..n},
                  lastTime |-> IF n = 0 THEN 0 ELSE evidence[chain[n]].collectedAt,
                  lastSeq  |-> IF n = 0 THEN 0 ELSE evidence[chain[n]].seq,
                  blocked  |-> FALSE]

CompletenessInv ==
  loop = "completeness" =>
    input \in SampleIds /\ CompletenessFacts(Chain(input), todo, acc)

LEMMA CompletenessStays ==
  ASSUME UNCHANGED vars, UNCHANGED input, NEW rest, NEW locals,
         rest = todo', locals = acc', CompletenessFacts(Chain(input), rest, locals)
  PROVE  CompletenessFacts(Chain(input), todo, acc)'
<1>1. UNCHANGED evidence
  BY DEF vars, records, proof
<1>2. \A s : EvidenceOf(s)' = EvidenceOf(s)
  BY <1>1 DEF EvidenceOf
<1>3. Chain(input)' = Chain(input)
  BY <1>1, <1>2 DEF Chain
<1> DEFINE chain == Chain(input)
<1>4. chain' = chain
  BY <1>3
<1> HIDE DEF chain
<1>5. CompletenessFacts(chain, rest, locals)
  BY DEF chain
<1>6. CompletenessFacts(chain, todo, acc)'
  BY <1>1, <1>2, <1>4, <1>5 DEF CompletenessFacts, Ends
<1>7. QED
  BY <1>6 DEF chain

(* One more record (projections.go:44-63).                                 *)
LEMMA CompletenessContinues ==
  /\ TypeOK /\ CustodyIntact /\ CompletenessInv
  /\ CompletenessStep /\ UNCHANGED vars
  => CompletenessInv'
<1> SUFFICES ASSUME TypeOK, CustodyIntact, CompletenessInv, CompletenessStep,
                    UNCHANGED vars
             PROVE  CompletenessInv'
  OBVIOUS
<1> SUFFICES ASSUME NEW rest, rest = todo', NEW locals, locals = acc'
             PROVE  CompletenessFacts(Chain(input), rest, locals)
  <2>1. input' = input /\ input \in SampleIds
    BY DEF CompletenessStep, CompletenessInv
  <2>2. QED
    BY <2>1, CompletenessStays DEF CompletenessInv
<1> DEFINE N    == custody[input]
           c    == Chain(input)
           n    == Len(c) - Len(todo)
           next == evidence[c[n + 1]]
<1>1. input \in SampleIds /\ todo # <<>> /\ CompletenessFacts(c, todo, acc)
  BY DEF CompletenessStep, CompletenessInv
<1>2. N \in Nat /\ c \in [1..N -> EvidenceOf(input)]
  BY <1>1, ChainLists
<1>3. c \in Seq(EvidenceOf(input)) /\ Len(c) = N
  BY <1>2
<1>4. todo \in Seq(EvidenceOf(input)) /\ Ends(c, todo)
  BY <1>1 DEF CompletenessFacts
<1>5. /\ Tail(todo) \in Seq(EvidenceOf(input)) /\ Ends(c, Tail(todo))
      /\ Len(todo) > 0 /\ Len(Tail(todo)) = Len(todo) - 1
      /\ Head(todo) = c[n + 1]
  <2> HIDE DEF c
  <2>1. QED
    BY <1>1, <1>3, <1>4, NextOfList DEF n
<1>6. n \in Nat /\ n + 1 \in 1..N /\ Len(c) - Len(Tail(todo)) = n + 1
  <2>1. Len(todo) \in Nat /\ Len(todo) <= N
    BY <1>3, <1>4, LenProperties DEF Ends
  <2> HIDE DEF c, N
  <2>2. QED
    BY <1>2, <1>3, <1>5, <2>1
<1>7. acc = [counts   |-> {evidence[c[k]].category : k \in 1..n},
             seen     |-> {evidence[c[k]].digest : k \in 1..n},
             lastTime |-> IF n = 0 THEN 0 ELSE evidence[c[n]].collectedAt,
             lastSeq  |-> IF n = 0 THEN 0 ELSE evidence[c[n]].seq,
             blocked  |-> FALSE]
  BY <1>1 DEF CompletenessFacts
<1>8. /\ \A k \in 1..n : evidence[c[k]].digest # next.digest
      /\ n > 0 => /\ evidence[c[n]].collectedAt <= next.collectedAt
                  /\ next.seq = evidence[c[n]].seq + 1
  <2> HIDE DEF n, N
  <2>1. QED
    BY <1>1, <1>6, ChainClean DEF N
<1>9. /\ rest = Tail(todo)
      /\ locals = [counts   |-> acc.counts \cup {next.category},
                   seen     |-> acc.seen \cup {next.digest},
                   lastTime |-> next.collectedAt, lastSeq |-> next.seq,
                   blocked  |-> acc.blocked \/ Blocks(next)]
  BY <1>5 DEF CompletenessStep
<1>10. next.collectedAt \in Nat /\ (n > 0 => evidence[c[n]].collectedAt \in Nat)
  <2>1. \A k \in 1..N : evidence[c[k]].collectedAt \in Nat
    BY <1>2, TimesAssumption DEF TypeOK, IsMap, Evidence, EvidenceOf
  <2>2. n > 0 => n \in 1..N
    BY <1>2, <1>6
  <2>3. QED
    BY <1>6, <2>1, <2>2
<1> HIDE DEF c, n, N
<1>11. ~Blocks(next)
  <2>1. CASE n = 0
    <3>1. acc.seen = {} /\ acc.lastTime = 0 /\ acc.lastSeq = 0
      BY <1>7, <2>1
    <3>2. QED
      BY <3>1 DEF Blocks
  <2>2. CASE n > 0
    <3>1. /\ acc.seen = {evidence[c[k]].digest : k \in 1..n}
          /\ acc.lastTime = evidence[c[n]].collectedAt
          /\ acc.lastSeq = evidence[c[n]].seq
      BY <1>7, <2>2
    <3>2. QED
      BY <1>8, <1>10, <2>2, <3>1 DEF Blocks
  <2>3. n = 0 \/ n > 0
    BY <1>6
  <2>4. QED
    BY <2>1, <2>2, <2>3
<1>12. \A k : k \in 1..(n + 1) <=> k \in 1..n \/ k = n + 1
  BY <1>6
<1>13. /\ acc.counts \cup {next.category}
            = {evidence[c[k]].category : k \in 1..(n + 1)}
       /\ acc.seen \cup {next.digest}
            = {evidence[c[k]].digest : k \in 1..(n + 1)}
  BY <1>7, <1>12
<1>14. ~(acc.blocked \/ Blocks(next))
  BY <1>7, <1>11
<1>15. locals = [counts   |-> {evidence[c[k]].category : k \in 1..(n + 1)},
                 seen     |-> {evidence[c[k]].digest : k \in 1..(n + 1)},
                 lastTime |-> next.collectedAt, lastSeq |-> next.seq,
                 blocked  |-> FALSE]
  BY <1>9, <1>13, <1>14
<1>16. CompletenessFacts(c, rest, locals)
  <2>1. n + 1 # 0 /\ Len(c) - Len(rest) = n + 1
    BY <1>6, <1>9
  <2>2. locals = [counts   |-> {evidence[c[k]].category : k \in 1..(n + 1)},
                  seen     |-> {evidence[c[k]].digest : k \in 1..(n + 1)},
                  lastTime |-> IF n + 1 = 0 THEN 0 ELSE next.collectedAt,
                  lastSeq  |-> IF n + 1 = 0 THEN 0 ELSE next.seq,
                  blocked  |-> FALSE]
    BY <1>15, <2>1
  <2>3. QED
    BY <1>5, <1>9, <2>1, <2>2 DEF CompletenessFacts
<1>17. QED
  BY <1>16 DEF c

(* A sample counts as complete exactly if the walk finds every category    *)
(* and no issue (projections.go:25-72).                                    *)
LEMMA CompletenessComputed == LoopSpec => []CompletenessLoop
<1>1. LoopInit => CompletenessInv
  BY DEF LoopInit, CompletenessInv
<1>2. /\ TypeOK /\ CustodyIntact /\ CompletenessInv
      /\ [LoopNext]_<<vars, loops>>
      => CompletenessInv'
  <2> SUFFICES ASSUME TypeOK, CustodyIntact, CompletenessInv,
                      [LoopNext]_<<vars, loops>>, loop' = "completeness"
               PROVE  CompletenessInv'
    BY DEF CompletenessInv
  <2>1. UNCHANGED vars
    BY OneLoop
  <2>2. ASSUME NEW s \in samples, BeginCompleteness(s)
        PROVE  CompletenessInv'
    <3> SUFFICES ASSUME NEW c, c = Chain(s)
                 PROVE  CompletenessInv'
      OBVIOUS
    <3>1. s \in SampleIds /\ UNCHANGED evidence
      BY <2>1 DEF TypeOK, vars, records, proof
    <3>2. /\ input' = s /\ todo' = c
          /\ acc' = [counts |-> {}, seen |-> {}, lastTime |-> 0, lastSeq |-> 0,
                     blocked |-> FALSE]
      BY <2>2 DEF BeginCompleteness, Begin
    <3>3. Chain(input)' = c /\ EvidenceOf(input)' = EvidenceOf(s)
      BY <3>1, <3>2 DEF Chain, EvidenceOf
    <3>4. custody[s] \in Nat /\ c \in [1..custody[s] -> EvidenceOf(s)]
      BY <3>1, ChainLists
    <3>5. c \in Seq(EvidenceOf(s)) /\ Len(c) - Len(c) = 0
      BY <3>4
    <3>6. Ends(c, c)
      BY <3>5 DEF Ends
    <3> DEFINE chain == Chain(input)
    <3>7. chain' = c
      BY <3>3
    <3> HIDE DEF chain
    <3>8. CompletenessFacts(chain, todo, acc)'
      <4>1. Ends(chain, todo)' /\ (Len(chain) - Len(todo))' = 0
        BY <3>2, <3>5, <3>6, <3>7 DEF Ends
      <4>2. todo' \in Seq(EvidenceOf(input)')
        BY <3>2, <3>3, <3>5
      <4>3. \A k : k \notin 1..0
        OBVIOUS
      <4>4. QED
        BY <3>2, <4>1, <4>2, <4>3 DEF CompletenessFacts
    <3>9. QED
      BY <3>1, <3>2, <3>8 DEF CompletenessInv, chain
  <2>3. CASE CompletenessStep
    BY <2>1, <2>3, CompletenessContinues
  <2>4. CASE UNCHANGED loops
    <3>1. /\ loop = "completeness" /\ UNCHANGED <<input, todo, acc>>
          /\ input \in SampleIds /\ CompletenessFacts(Chain(input), todo, acc)
      BY <2>4 DEF loops, CompletenessInv
    <3> DEFINE rest   == todo
               locals == acc
    <3>2. /\ CompletenessFacts(Chain(input), rest, locals)
          /\ rest = todo' /\ locals = acc'
      BY <3>1
    <3>3. QED
      BY <2>1, <3>1, <3>2, CompletenessStays DEF CompletenessInv
  <2>5. QED
    BY <2>2, <2>3, <2>4, OneLoop
<1>3. TypeOK /\ CustodyIntact /\ CompletenessInv => CompletenessLoop
  <2> SUFFICES ASSUME TypeOK, CustodyIntact, CompletenessInv,
                      loop = "completeness", todo = <<>>
               PROVE  Complete(input) <=> Categories \subseteq acc.counts /\ ~acc.blocked
    BY DEF CompletenessLoop
  <2> DEFINE N == custody[input]
             c == Chain(input)
  <2>1. input \in SampleIds /\ CompletenessFacts(c, todo, acc)
    BY DEF CompletenessInv
  <2>2. /\ N \in Nat /\ c \in [1..N -> EvidenceOf(input)]
        /\ \A id \in EvidenceOf(input) : \E k \in 1..N : c[k] = id
    BY <2>1, ChainLists
  <2>3. Len(c) - Len(todo) = N
    BY <2>2
  <2> HIDE DEF N, c
  <2>4. /\ acc.counts = {evidence[c[k]].category : k \in 1..N}
        /\ ~acc.blocked
    BY <2>1, <2>3 DEF CompletenessFacts
  <2>5. acc.counts = {evidence[id].category : id \in EvidenceOf(input)}
    BY <2>2, <2>4
  <2>6. ~BlockingIssues(input)
    BY <2>1, NoIssue
  <2>7. QED
    BY <2>4, <2>5, <2>6 DEF Complete
<1>4. QED
  BY <1>1, <1>2, <1>3, TypeCorrect, CustodyKept, LoopsOverCases, PTL DEF LoopSpec

(* Neither the order of the identifiers nor that of the evaluations shows  *)
(* in the views (projections.go:25-116).                                   *)
THEOREM InvestigationComputed == LoopSpec => []InvestigationLoops
<1>1. CompletenessLoop /\ ComparisonLoop => InvestigationLoops
  BY DEF InvestigationLoops
<1>2. QED
  BY <1>1, CompletenessComputed, ComparisonComputed, PTL
=============================================================================
