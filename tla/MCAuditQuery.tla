---------------------------- MODULE MCAuditQuery ----------------------------
(* Filters by nothing, actor, type and revisions, and by some together.    *)
EXTENDS AuditQuery, TLC

CONSTANTS a1, a2

Recorded ==
  {"case_created", "baseline_frozen", "evidence_added", "remediation_planned",
   "corrective_item_closed"}

Asked ==
  {NoFilter,
   [NoFilter EXCEPT !.actor = a1],
   [NoFilter EXCEPT !.type = "evidence_added"],
   [NoFilter EXCEPT !.actor = a1, !.type = "evidence_added"],
   [NoFilter EXCEPT !.from = 2, !.to = 5],
   [NoFilter EXCEPT !.actor = a2, !.from = 3]}
=============================================================================
