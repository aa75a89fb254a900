--------------------------- MODULE MCCaseService ---------------------------
(* What clients send: a request_id for one command each, or for several.   *)
EXTENDS CaseService, TLC

CONSTANTS r1, r2, r3

OneEach(as, bs) == {{<<r1, a>>, <<r2, b>>} : a \in as, b \in bs}

AnyTwo == OneEach(Actions, Actions)

(* The end of a case: dispositions, archive, and a command in between.     *)
Closing ==
  {{<<r1, "record_dispositions">>, <<r2, "archive">>, <<r3, a>>} :
      a \in {"archive", "complete_review"}}

Reused == {{r1, r2} \X {"complete_review", "record_dispositions", "archive", "precheck"}}

Creates == {{<<r1, "create">>}}

Mixed == AnyTwo \cup Closing \cup Reused

AllBeginnings == Statuses \cup {"none"}
=============================================================================
