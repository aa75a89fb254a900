---------------------------- MODULE MCCaseLoops ----------------------------
(* The loops of investigation and retest on the cases of one scenario, the *)
(* walk over the actions on those of another.                              *)
EXTENDS CaseLoops, MCContaminationCase

MCCall ==
  \/ /\ scenario = "loops"
     /\ \/ \E s \in samples : BeginCompleteness(s)
        \/ BeginComparison
        \/ \E cmd \in Sent["loops"].verifications : BeginRetest(cmd)
  \/ scenario = "matrix" /\ \E s \in samples : BeginCoverage(s)

MCLoopInit == LoopInit /\ scenario \in Scenarios
MCLoopNext ==
  \/ loop = "none" /\ MCNext /\ UNCHANGED loops
  \/ (MCCall \/ Iterate \/ Return) /\ UNCHANGED scenario
MCLoopSpec == MCLoopInit /\ [][MCLoopNext]_<<vars, loops, scenario>>
=============================================================================
