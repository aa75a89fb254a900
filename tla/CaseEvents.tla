----------------------------- MODULE CaseEvents -----------------------------
(***************************************************************************)
(* The events of a case and what they make of its status: which statuses   *)
(* the commands that record them ask for, what Apply does, and what the    *)
(* service takes the status to be when it prepares a response.             *)
(***************************************************************************)
Statuses ==
  {"draft", "bounded", "investigating", "remediation_validation",
   "pending_review", "decided", "archived"}

EventTypes ==
  {"case_created", "baseline_frozen", "evidence_added", "hypothesis_evaluated",
   "remediation_planned", "remediation_verified", "review_submitted",
   "review_rejected", "review_approved", "corrective_item_closed",
   "dispositions_recorded", "case_archived"}

Expected(e) ==
  CASE e = "case_created"         -> {"none"}
    [] e = "baseline_frozen"      -> {"draft"}
    [] e = "evidence_added"       -> {"bounded", "investigating", "remediation_validation"}
    [] e = "hypothesis_evaluated" -> {"investigating"}
    [] e \in {"remediation_planned", "review_submitted", "corrective_item_closed"} ->
         {"investigating", "remediation_validation"}
    [] e = "remediation_verified" -> {"remediation_validation"}
    [] e \in {"review_rejected", "review_approved", "dispositions_recorded"} ->
         {"pending_review"}
    [] e = "case_archived"        -> {"decided"}

statusAfter(e) ==
  CASE e = "case_created"    -> "draft"
    [] e = "baseline_frozen" -> "bounded"
    [] e \in {"evidence_added", "hypothesis_evaluated", "review_rejected",
              "corrective_item_closed"} -> "investigating"
    [] e \in {"remediation_planned", "remediation_verified"} -> "remediation_validation"
    [] e \in {"review_submitted", "review_approved"} -> "pending_review"
    [] e = "dispositions_recorded" -> "decided"
    [] e = "case_archived"   -> "archived"

(* Apply keeps the status of a case under remediation when evidence comes  *)
(* in; everywhere else the service agrees with it.                         *)
Apply(status, e) ==
  IF e = "evidence_added" /\ status = "remediation_validation"
  THEN status ELSE statusAfter(e)
=============================================================================
