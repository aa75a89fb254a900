--------------------------- MODULE CaseLifecycle ---------------------------
(***************************************************************************)
(* What a contamination case promises, whatever its records hold: the      *)
(* statuses it walks through and the verdicts an independent review gives  *)
(* on the way (README.md:7; the statuses are types.go:7-15).  The detailed *)
(* module ContaminationCase implements this one.                           *)
(***************************************************************************)
EXTENDS Naturals, Sequences

VARIABLES
  status,   \* where the case stands; "none" before it exists
  verdicts  \* outcomes of its reviews, oldest first

vars == <<status, verdicts>>

Statuses ==
  {"none", "draft", "bounded", "investigating", "remediation_validation",
   "pending_review", "decided", "archived"}

Outcomes == {"approved", "rejected"}

TypeOK == status \in Statuses /\ verdicts \in Seq(Outcomes)

Init == status = "none" /\ verdicts = <<>>

Move(from, to) == status = from /\ status' = to /\ UNCHANGED verdicts

Open        == Move("none", "draft")
Freeze      == Move("draft", "bounded")
Investigate == Move("bounded", "investigating")
Remediate   == Move("investigating", "remediation_validation")

(* Only a rejection reopens the investigation of a case under remediation. *)
Reopen ==
  verdicts = <<"rejected">> /\ Move("remediation_validation", "investigating")

(* The first submission comes out of remediation; after a rejection the    *)
(* corrected case may also be resubmitted from investigation.              *)
Submit ==
  \/ Move("remediation_validation", "pending_review")
  \/ verdicts = <<"rejected">> /\ Move("investigating", "pending_review")

(* One rejection at most, and only as the first verdict.                   *)
Reject ==
  /\ status = "pending_review" /\ verdicts = <<>>
  /\ status' = "investigating" /\ verdicts' = <<"rejected">>

Approve ==
  /\ status = "pending_review" /\ Len(verdicts) < 2
  /\ verdicts' = Append(verdicts, "approved")
  /\ UNCHANGED status

Decide ==
  /\ verdicts # <<>> /\ verdicts[Len(verdicts)] = "approved"
  /\ Move("pending_review", "decided")

Archive == Move("decided", "archived")

Next ==
  \/ Open \/ Freeze \/ Investigate \/ Remediate \/ Reopen
  \/ Submit \/ Reject \/ Approve \/ Decide \/ Archive

Spec == Init /\ [][Next]_vars
=============================================================================
