---------------------------- MODULE CaseService ----------------------------
(***************************************************************************)
(* The command service over the storage of one case: what a client is      *)
(* answered the first time and when it repeats a request_id, the archive   *)
(* document that follows the commit of case_archived, and Verify, which    *)
(* reads both without the mailbox.  A storage call is one step that may    *)
(* fail half-way; CaseStore shows what these steps are made of.            *)
(*                                                                         *)
(* A document, and the root digest in it, is represented by the number of  *)
(* events it closes; 0 is no document.                                     *)
(***************************************************************************)
EXTENDS Naturals, Sequences, FiniteSets, SequencesExt, CaseEvents

CONSTANTS
  Requests,
  Scenarios,   \* what clients send: sets of <<request_id, action>>
  Beginnings,  \* the statuses earlier commands may have left the case in
  Earlier,     \* the request_id of these
  NoRequest,
  Absent,
  MaxFaults    \* bounds the failures of one behaviour

Actions ==
  {"create", "freeze_baseline", "add_evidence", "evaluate_hypothesis",
   "plan_remediation", "verify_remediation", "submit_review",
   "complete_review", "close_corrective_item", "record_dispositions",
   "precheck", "archive"}

ASSUME ServiceAssumption ==
  /\ \A s \in Scenarios : s \subseteq Requests \X Actions
  /\ Beginnings \subseteq Statuses \cup {"none"}
  /\ {Earlier, NoRequest} \cap Requests = {} /\ MaxFaults \in Nat

VARIABLES
  sent,      \* the scenario
  log,       \* the events: request, type and the status Apply makes of it
  index,     \* the stored responses by request_id
  txn,       \* the log and the index of a commit that failed half-way
  quarantined, \* the start of the process could not load the case
  document,  \* the file in archives/
  phase, request, action,
  seen,      \* the revision the worker has decided on
  result,    \* the answer in the making
  built,     \* the document in the making
  told,      \* the successes clients were told
  refused,   \* the last request was refused although the case records it
  verify,    \* a verification under way or just made
  faults

store  == <<log, index, txn>>
worker == <<phase, request, action, seen, result, built>>
client == <<told, refused>>
vars == <<sent, store, quarantined, document, worker, client, verify, faults>>
-----------------------------------------------------------------------------
EventsOf(a) ==
  CASE a = "create"                -> {"case_created"}
    [] a = "freeze_baseline"       -> {"baseline_frozen"}
    [] a = "add_evidence"          -> {"evidence_added"}
    [] a = "evaluate_hypothesis"   -> {"hypothesis_evaluated"}
    [] a = "plan_remediation"      -> {"remediation_planned"}
    [] a = "verify_remediation"    -> {"remediation_verified"}
    [] a = "submit_review"         -> {"review_submitted"}
    [] a = "complete_review"       -> {"review_rejected", "review_approved"}
    [] a = "close_corrective_item" -> {"corrective_item_closed"}
    [] a = "record_dispositions"   -> {"dispositions_recorded"}
    [] a = "precheck"              -> {}
    [] a = "archive"               -> {"case_archived"}

(* What is stored: the events and the responses.                           *)
Entries   ==
  [request : Requests \cup {Earlier},
   event : {"earlier"} \cup UNION {EventsOf(a) : a \in Actions}, status : Statuses]
Responses == [action : Actions \cup {"none"}, revision : Nat,
              status : Statuses \cup {"none"}, document : Nat]
Stores(R) == [log : Seq(Entries), index : [R -> Responses]]

ASSUME AbsentAssumption == \A R \in SUBSET Requests : Absent \notin Stores(R)

StatusOf(l) == IF l = <<>> THEN "none" ELSE Last(l).status
Status == StatusOf(log)

Response(a, revision, status) ==
  [action |-> a, revision |-> revision, status |-> status, document |-> 0]
NoResult == Response("none", 0, "none")
NoVerify == [step |-> "none", document |-> 0, sure |-> FALSE]

(* The log and index once a pending transaction is applied.                *)
Recovered == IF txn = Absent THEN [log |-> log, index |-> index] ELSE txn
Recorded(r) == r \in DOMAIN Recovered.index

Init ==
  /\ sent \in Scenarios
  /\ \E s \in Beginnings :
       log = IF s = "none" THEN <<>>
             ELSE <<[request |-> Earlier, event |-> "earlier", status |-> s]>>
  /\ index = [r \in {} |-> NoResult] /\ txn = Absent /\ quarantined = FALSE
  /\ document = IF Status = "archived" THEN Len(log) ELSE 0
  /\ phase = "idle" /\ request = NoRequest /\ action = "none"
  /\ seen = 0 /\ result = NoResult /\ built = 0
  /\ told = {} /\ refused = FALSE /\ verify = NoVerify /\ faults = 0
-----------------------------------------------------------------------------
(* The storage                                                             *)

(* A reader or the worker applies a pending transaction as it loads the    *)
(* case, which a quarantined one never is.                                 *)
Recover ==
  /\ txn # Absent /\ ~quarantined
  /\ log' = txn.log /\ index' = txn.index /\ txn' = Absent

(* One of its files may be replaced when recovery, or the commit, gives up.*)
PartlyApplied(t) ==
  /\ txn' = t
  /\ \/ UNCHANGED <<log, index>>
     \/ log' = t.log /\ index' \in {index, t.index}

Fault == faults < MaxFaults /\ faults' = faults + 1
-----------------------------------------------------------------------------
(* The worker                                                              *)

Goto(p) == phase' = p
Idle ==
  /\ phase' = "idle" /\ request' = NoRequest /\ action' = "none"
  /\ seen' = 0 /\ result' = NoResult /\ built' = 0

Tell(res) ==
  /\ Idle
  /\ told' = told \cup {[request |-> request, result |-> res]}
  /\ refused' = FALSE

(* The answer is a business error.                                         *)
Refuse == Idle /\ refused' = Recorded(request) /\ UNCHANGED told
(* The answer is an internal error, which leaves everything open.          *)
Err == Idle /\ refused' = FALSE /\ UNCHANGED told

Receive(r, a) ==
  /\ phase = "idle" /\ <<r, a>> \in sent
  /\ Goto("lookup") /\ request' = r /\ action' = a
  /\ UNCHANGED <<sent, quarantined, store, document, seen, result, built,
                 client, verify, faults>>

(* A repetition is answered from the index as it is on disk.  Sent as      *)
(* archive, it first completes a response without a document.              *)
Completes_Never == FALSE
Completes_AnyAction == index[request].document = 0
Completes == action = "archive" /\ index[request].document = 0

Lookup ==
  /\ phase = "lookup"
  /\ IF request \notin DOMAIN index
     THEN /\ Goto("load")
          /\ UNCHANGED <<request, action, seen, result, built, client>>
     ELSE IF Completes
     THEN /\ Goto("save") /\ result' = index[request]
          /\ UNCHANGED <<request, action, seen, built, client>>
     ELSE Tell(index[request])
  /\ UNCHANGED <<sent, quarantined, store, document, verify, faults>>

(* Every Load applies a pending transaction before it reads.               *)
Loadable == txn = Absent /\ ~quarantined

WorkerRecovers ==
  /\ phase \in {"load", "reload", "save"} /\ Recover
  /\ UNCHANGED <<sent, quarantined, document, worker, client, verify, faults>>

(* A quarantined case is not loaded; the answer says so.                   *)
LoadRefused ==
  /\ phase \in {"load", "reload", "save"} /\ quarantined
  /\ Err
  /\ UNCHANGED <<sent, store, quarantined, document, verify, faults>>

(* The command is decided on the case as loaded; Conflict is the refusal.  *)
Load ==
  /\ phase = "load" /\ Loadable
  /\ \E e \in EventsOf(action) : Status \in Expected(e)
  /\ Goto("commit") /\ seen' = Len(log)
  /\ UNCHANGED <<sent, quarantined, store, document, request, action, result,
                 built, client, verify, faults>>

(* A precheck is answered from the case and leaves nothing behind.         *)
Precheck ==
  /\ phase = "load" /\ Loadable
  /\ action = "precheck" /\ Status = "pending_review"
  /\ Idle /\ refused' = FALSE
  /\ UNCHANGED <<sent, quarantined, store, document, told, verify, faults>>

(* The case is there already, or missing, or the domain refuses.           *)
Conflict ==
  /\ phase = "load" /\ Loadable
  /\ Refuse
  /\ UNCHANGED <<sent, quarantined, store, document, verify, faults>>

AlreadyIn_Unchecked == FALSE
AlreadyIn == request \in DOMAIN index

(* The response that is stored is made before the case is loaded again.    *)
Prepared_Unnumbered(e) == Response(action, seen, statusAfter(e))
Prepared(e) == Response(action, seen + 1, statusAfter(e))

Entry(e) == [request |-> request, event |-> e, status |-> Apply(Status, e)]
After(e) ==
  [log   |-> Append(log, Entry(e)),
   index |-> [r \in DOMAIN index \cup {request} |->
                IF r = request THEN Prepared(e) ELSE index[r]]]

Commit ==
  /\ phase = "commit"
  /\ \E e \in EventsOf(action) :
       /\ Status \in Expected(e)
       /\ IF AlreadyIn THEN UNCHANGED store
          ELSE log' = After(e).log /\ index' = After(e).index /\ UNCHANGED txn
  /\ Goto("reload")
  /\ UNCHANGED <<sent, quarantined, document, request, action, seen, result,
                 built, client, verify, faults>>

CommitFails ==
  /\ phase = "commit" /\ ~AlreadyIn
  /\ \E e \in EventsOf(action) :
       /\ Status \in Expected(e)
       /\ PartlyApplied(After(e)) \/ UNCHANGED store
  /\ Err /\ Fault
  /\ UNCHANGED <<sent, quarantined, document, verify>>

Reload ==
  /\ phase = "reload" /\ Loadable
  /\ LET res == Response(action, Len(log), Status)
     IN IF action = "archive"
        THEN /\ Goto("save") /\ result' = res
             /\ UNCHANGED <<request, action, seen, built, client>>
        ELSE Tell(res)
  /\ UNCHANGED <<sent, quarantined, store, document, verify, faults>>

(* Build takes a decided case too.                                         *)
Content_AsDecidedOn == IF seen > 0 THEN seen ELSE Len(log)
Content == Len(log)

Build ==
  /\ phase = "save" /\ Loadable /\ Status \in {"decided", "archived"}
  /\ Goto("publish") /\ built' = Content
  /\ UNCHANGED <<sent, quarantined, store, document, request, action, seen,
                 result, client, verify, faults>>

NotTerminal ==
  /\ phase = "save" /\ Loadable /\ Status \notin {"decided", "archived"}
  /\ Refuse
  /\ UNCHANGED <<sent, quarantined, store, document, verify, faults>>

Publish ==
  /\ phase = "publish" /\ document' = built
  /\ Goto("update") /\ result' = [result EXCEPT !.document = built]
  /\ UNCHANGED <<sent, quarantined, store, request, action, seen, built,
                 client, verify, faults>>

Update ==
  /\ phase = "update"
  /\ index' = [index EXCEPT ![request] = result]
  /\ Tell(result)
  /\ UNCHANGED <<sent, quarantined, log, txn, document, verify, faults>>

(* A call fails: reading the index or the case, a recovery on the way, the *)
(* archive file or the index, replaced or not.                             *)
Fails ==
  /\ phase \in {"lookup", "load", "reload", "save", "publish", "update"}
  /\ IF txn # Absent /\ ~quarantined /\ phase \in {"load", "reload", "save"}
     THEN PartlyApplied(txn)
     ELSE /\ UNCHANGED <<log, txn>>
          /\ index' \in {index} \cup
               (IF phase = "update" THEN {[index EXCEPT ![request] = result]} ELSE {})
  /\ document' \in {document} \cup (IF phase = "publish" THEN {built} ELSE {})
  /\ Err /\ Fault
  /\ UNCHANGED <<sent, quarantined, verify>>
-----------------------------------------------------------------------------
(* Readers                                                                 *)

ReaderRecovers ==
  /\ Recover
  /\ UNCHANGED <<sent, quarantined, document, worker, client, verify, faults>>

(* A client knows the case to be archived.                                 *)
Acknowledged == \E t \in told : t.result.action = "archive"

(* Verify reads the document first, and later the root of the events.      *)
VerifyReads ==
  /\ document # 0 /\ verify.step # "read"
  /\ verify' = [step |-> "read", document |-> document, sure |-> Acknowledged]
  /\ UNCHANGED <<sent, quarantined, store, document, worker, client, faults>>

TerminalStateValid_Decided(d) == log[d].status \in {"decided", "archived"}
TerminalStateValid(d) == log[d].status = "archived"
EventRootDigestValid(d) == d = Len(log)

VerifyJudges ==
  /\ verify.step = "read" /\ Loadable
  /\ verify' = [verify EXCEPT !.step =
       IF TerminalStateValid(verify.document) /\ EventRootDigestValid(verify.document)
       THEN "valid" ELSE "invalid"]
  /\ UNCHANGED <<sent, quarantined, store, document, worker, client, faults>>
-----------------------------------------------------------------------------
(* The process dies and starts again.  Its scan loads the case, or it      *)
(* quarantines it when the recovery or the reading fails; then only a later*)
(* start may load it.                                                      *)
Crash ==
  /\ Fault
  /\ quarantined' \in {FALSE, log # <<>> \/ txn # Absent}
  /\ \/ log' = Recovered.log /\ index' = Recovered.index /\ txn' = Absent
     \/ quarantined' /\ txn # Absent /\ PartlyApplied(txn)
  /\ Idle /\ verify' = NoVerify /\ refused' = FALSE
  /\ UNCHANGED <<sent, document, told>>

Work ==
  \/ Lookup \/ WorkerRecovers \/ LoadRefused \/ Load \/ Precheck \/ Conflict
  \/ Commit \/ Reload \/ Build \/ NotTerminal \/ Publish \/ Update

Read == ReaderRecovers \/ VerifyReads \/ VerifyJudges

Next ==
  \/ \E r \in Requests, a \in Actions : Receive(r, a)
  \/ Work \/ CommitFails \/ Fails \/ Read \/ Crash

Spec == Init /\ [][Next]_vars

(* The worker works, and clients repeat their requests again and again.    *)
FairSpec ==
  /\ Spec /\ WF_vars(Work)
  /\ \A r \in Requests : SF_vars(\E a \in Actions : Receive(r, a))
-----------------------------------------------------------------------------
IsIndex(i) == i \in [DOMAIN i -> Responses] /\ DOMAIN i \subseteq Requests

(* The store, the worker and what is known outside stay within their       *)
(* types, and the worker is on a command some client sent                  *)
(* (service.go:43-46).                                                     *)
TypeOK ==
  /\ sent \in Scenarios
  /\ log \in Seq(Entries) /\ IsIndex(index)
  /\ txn = Absent \/ \E R \in SUBSET Requests : txn \in Stores(R)
  /\ quarantined \in BOOLEAN
  /\ document \in Nat /\ seen \in Nat /\ built \in Nat /\ result \in Responses
  /\ \/ phase = "idle" /\ request = NoRequest /\ action = "none"
     \/ /\ phase \in {"lookup", "load", "commit", "reload", "save", "publish", "update"}
        /\ <<request, action>> \in sent
  /\ told \subseteq [request : Requests, result : Responses] /\ refused \in BOOLEAN
  /\ verify \in [step : {"none", "read", "valid", "invalid"},
                 document : Nat, sure : BOOLEAN]
  /\ faults \in 0..MaxFaults

(* The requests of the behaviour come behind what earlier commands left.   *)
Before(l) == IF l # <<>> /\ l[1].request = Earlier THEN 1 ELSE 0
RequestsOf(l) == [k \in 1..(Len(l) - Before(l)) |-> l[k + Before(l)].request]

Promise == INSTANCE CommitLog WITH
  log   <- RequestsOf(Recovered.log),
  acked <- {t.request : t \in told}

(* Through failures, recoveries and repetitions in any order the service   *)
(* keeps what CommitLog promises its clients (service.go:46-64,171-198).   *)
CommitLogSpec == Promise!Spec

(* No request_id is used for two commands.                                 *)
OneCommandEach == \A p, q \in sent : p[1] = q[1] => p = q

(* Whatever a client is told of a request, the first time, after a failed  *)
(* commit or as a repetition, names the same revision, action and          *)
(* document; only of a request_id used for several commands it may name    *)
(* the command asked last, or a document later (service.go:50-64,176,196). *)
AnswersAgree ==
  \A t, u \in told : t.request = u.request =>
    /\ t.result.revision = u.result.revision
    /\ OneCommandEach => /\ t.result.action = u.result.action
                         /\ t.result.document = u.result.document

(* A request whose event is in the case is not answered with a conflict    *)
(* when it is repeated: its response is in the index (README.md:9).        *)
RecordedNotRefused == ~refused

(* A verification that finds an archive valid speaks of an archived case   *)
(* and of a document with all its events, although it reads the two at     *)
(* different times and past the mailbox (archive/service.go:99-141).       *)
VerifySound ==
  verify.step = "valid" => Status = "archived" /\ verify.document = Len(log)

(* Once a client knows the case to be archived there is a document of all  *)
(* its events, no retry replaces it by another one, and no verification    *)
(* begun since fails (service.go:53-62,157-167).  A request_id used for    *)
(* archive and another command may be answered without the document.       *)
ArchiveTrusted ==
  OneCommandEach =>
    /\ Acknowledged => document = Len(log)
    /\ verify.step = "invalid" => ~verify.sure

(* A client that repeats a recorded request, and no other command under    *)
(* its request_id, is told of its success in the end, whatever failed      *)
(* before, unless the case is quarantined and no later start of the        *)
(* process loads it (service.go:48-64, store.go:45-59).                    *)
RecordedIsTold ==
  \A r \in Requests :
    OneCommandEach /\ Recorded(r)
      ~> (\E t \in told : t.request = r) \/ []quarantined

(* An archived case gets its document in the end, if the client of the     *)
(* archive command repeats it and nothing else, unless the case stays      *)
(* quarantined (service.go:53-62, store.go:45-59).                         *)
DocumentFollows ==
  OneCommandEach /\ Status = "archived"
    ~> document = Len(log) \/ []quarantined
=============================================================================
