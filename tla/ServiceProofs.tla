--------------------------- MODULE ServiceProofs ---------------------------
(***************************************************************************)
(* CaseService, for every set of requests, what clients send with them and *)
(* any number of failures: its types, that what it tells its clients       *)
(* agrees, that its archives can be trusted, and that it implements        *)
(* CommitLog.                                                              *)
(***************************************************************************)
EXTENDS CaseService, SequenceTheorems, TLAPS

(* What a command may record: nothing on an archived case, and case_archived *)
(* makes it one.                                                           *)
LEMMA RecordedEvents ==
  ASSUME NEW a \in Actions, NEW e \in EventsOf(a), NEW s \in Expected(e)
  PROVE  /\ statusAfter(e) \in Statuses /\ Apply(s, e) \in Statuses
         /\ s # "archived" /\ (a = "archive" => Apply(s, e) = "archived")
<1>1. CASE a = "create"
  BY <1>1 DEF EventsOf, Expected, statusAfter, Apply, Statuses
<1>2. CASE a = "freeze_baseline"
  BY <1>2 DEF EventsOf, Expected, statusAfter, Apply, Statuses
<1>3. CASE a = "add_evidence"
  BY <1>3 DEF EventsOf, Expected, statusAfter, Apply, Statuses
<1>4. CASE a = "evaluate_hypothesis"
  BY <1>4 DEF EventsOf, Expected, statusAfter, Apply, Statuses
<1>5. CASE a = "plan_remediation"
  BY <1>5 DEF EventsOf, Expected, statusAfter, Apply, Statuses
<1>6. CASE a = "verify_remediation"
  BY <1>6 DEF EventsOf, Expected, statusAfter, Apply, Statuses
<1>7. CASE a = "submit_review"
  BY <1>7 DEF EventsOf, Expected, statusAfter, Apply, Statuses
<1>8. CASE a = "complete_review"
  BY <1>8 DEF EventsOf, Expected, statusAfter, Apply, Statuses
<1>9. CASE a = "close_corrective_item"
  BY <1>9 DEF EventsOf, Expected, statusAfter, Apply, Statuses
<1>10. CASE a = "record_dispositions"
  BY <1>10 DEF EventsOf, Expected, statusAfter, Apply, Statuses
<1>11. CASE a = "precheck"
  BY <1>11 DEF EventsOf
<1>12. CASE a = "archive"
  BY <1>12 DEF EventsOf, Expected, statusAfter, Apply, Statuses
<1>13. QED
  BY <1>1, <1>2, <1>3, <1>4, <1>5, <1>6, <1>7, <1>8, <1>9, <1>10, <1>11, <1>12
     DEF Actions

(* What a request adds to the log and to the index.                        *)
LEMMA AfterStored ==
  ASSUME TypeOK, phase = "commit", NEW e \in EventsOf(action), Status \in Expected(e)
  PROVE  /\ Entry(e) \in Entries /\ Prepared(e) \in Responses
         /\ request \in Requests /\ action \in Actions /\ <<request, action>> \in sent
         /\ After(e) \in Stores(DOMAIN index \cup {request})
         /\ IsIndex(After(e).index)
<1> USE ServiceAssumption
<1>1. request \in Requests /\ action \in Actions /\ <<request, action>> \in sent
  BY DEF TypeOK
<1>2. /\ Apply(Status, e) \in Statuses /\ statusAfter(e) \in Statuses
      /\ e \in UNION {EventsOf(a) : a \in Actions}
  BY <1>1, RecordedEvents
<1>3. Entry(e) \in Entries
  BY <1>1, <1>2 DEF Entry, Entries
<1>4. Prepared(e) \in Responses
  BY <1>1, <1>2 DEF Prepared, Response, Responses, TypeOK
<1>5. Append(log, Entry(e)) \in Seq(Entries)
  BY <1>3, AppendProperties DEF TypeOK
<1>6. QED
  BY <1>1, <1>3, <1>4, <1>5 DEF After, Stores, TypeOK, IsIndex

LEMMA StatusTyped == TypeOK => Status \in Statuses \cup {"none"}
<1> SUFFICES ASSUME TypeOK, log # <<>>
             PROVE  Last(log).status \in Statuses
  BY DEF Status, StatusOf
<1>1. Len(log) \in 1..Len(log) /\ log \in Seq(Entries)
  BY EmptySeq DEF TypeOK
<1>2. log[Len(log)] \in Entries
  BY <1>1, ElementOfSeq
<1>3. QED
  BY <1>2 DEF Last, Entries

(* What a pending transaction holds is a log and an index.                 *)
LEMMA PendingTyped ==
  ASSUME TypeOK
  PROVE  /\ Recovered.log \in Seq(Entries) /\ IsIndex(Recovered.index)
         /\ txn = Absent => Recovered.log = log /\ Recovered.index = index
         /\ txn # Absent => Recovered.log = txn.log /\ Recovered.index = txn.index
  BY DEF Recovered, TypeOK, Stores, IsIndex
-----------------------------------------------------------------------------
(* What a step does to the store, the worker and the rest is of the types  *)
(* TypeOK lists (service.go:43-64).                                        *)
StoreTyped ==
  /\ log \in Seq(Entries) /\ IsIndex(index)
  /\ txn = Absent \/ \E R \in SUBSET Requests : txn \in Stores(R)
  /\ quarantined \in BOOLEAN

WorkerTyped ==
  /\ seen \in Nat /\ built \in Nat /\ result \in Responses
  /\ \/ phase = "idle" /\ request = NoRequest /\ action = "none"
     \/ /\ phase \in {"lookup", "load", "commit", "reload", "save", "publish", "update"}
        /\ <<request, action>> \in sent

RestTyped ==
  /\ sent \in Scenarios /\ document \in Nat
  /\ told \subseteq [request : Requests, result : Responses] /\ refused \in BOOLEAN
  /\ verify \in [step : {"none", "read", "valid", "invalid"},
                 document : Nat, sure : BOOLEAN]
  /\ faults \in 0..MaxFaults

LEMMA TypeParts == TypeOK <=> StoreTyped /\ WorkerTyped /\ RestTyped
  BY DEF TypeOK, StoreTyped, WorkerTyped, RestTyped

LEMMA StepTypesStore == TypeOK /\ [Next]_vars => StoreTyped'
<1> USE ServiceAssumption, AbsentAssumption
<1> SUFFICES ASSUME TypeOK, [Next]_vars
             PROVE  StoreTyped'
  OBVIOUS
<1>0. quarantined' \in BOOLEAN
  <2>1. quarantined' = quarantined \/ Crash
    BY DEF Next, Work, Read, Receive, Lookup, WorkerRecovers, LoadRefused, Load, Precheck,
           Conflict, Commit, Reload, Build, NotTerminal, Publish, Update, CommitFails, Fails,
           ReaderRecovers, VerifyReads, VerifyJudges, vars
  <2>2. (log # <<>> \/ txn # Absent) \in BOOLEAN
    OBVIOUS
  <2>3. Crash => quarantined' \in BOOLEAN
    BY <2>2 DEF Crash
  <2>4. QED
    BY <2>1, <2>3 DEF TypeOK
<1>1. CASE UNCHANGED store
  BY <1>0, <1>1 DEF TypeOK, StoreTyped, store
<1>2. ASSUME /\ log' \in {log, Recovered.log} /\ index' \in {index, Recovered.index}
             /\ txn' \in {txn, Absent}
      PROVE  StoreTyped'
  BY <1>0, <1>2, PendingTyped DEF TypeOK, StoreTyped
<1>3. CASE Recover \/ Crash \/ (txn # Absent /\ PartlyApplied(txn))
  BY <1>2, <1>3, PendingTyped DEF Recover, Crash, PartlyApplied
<1>4. ASSUME phase = "commit", NEW e \in EventsOf(action), Status \in Expected(e),
             /\ log' \in {log, After(e).log} /\ index' \in {index, After(e).index}
             /\ txn' \in {txn, After(e)}
      PROVE  StoreTyped'
  <2>1. /\ After(e).log \in Seq(Entries) /\ IsIndex(After(e).index)
        /\ DOMAIN index \cup {request} \in SUBSET Requests
    BY <1>4, AfterStored DEF Stores, TypeOK, IsIndex
  <2>2. QED
    BY <1>0, <1>4, <2>1, AfterStored DEF TypeOK, StoreTyped
<1>5. CASE Commit \/ CommitFails
  BY <1>1, <1>4, <1>5 DEF Commit, CommitFails, PartlyApplied
<1>6. CASE Update
  <2>1. index' = [index EXCEPT ![request] = result] /\ UNCHANGED <<log, txn>>
    BY <1>6 DEF Update
  <2>2. QED
    BY <1>0, <2>1 DEF TypeOK, StoreTyped, IsIndex
<1>7. CASE Fails
  <2>1. CASE txn # Absent /\ PartlyApplied(txn)
    BY <1>3, <2>1
  <2>2. CASE /\ UNCHANGED <<log, txn>>
             /\ index' \in {index, [index EXCEPT ![request] = result]}
    BY <1>0, <2>2 DEF TypeOK, StoreTyped, IsIndex
  <2>3. QED
    BY <1>7, <2>1, <2>2 DEF Fails
<1>8. QED
  BY <1>1, <1>3, <1>5, <1>6, <1>7
     DEF Next, Work, Read, Receive, Lookup, WorkerRecovers, LoadRefused, Load, Precheck,
         Conflict, Reload, Build, NotTerminal, Publish, ReaderRecovers, VerifyReads,
         VerifyJudges, store, vars

LEMMA StepTypesWorker == TypeOK /\ [Next]_vars => WorkerTyped'
<1> USE ServiceAssumption
<1> SUFFICES ASSUME TypeOK, [Next]_vars
             PROVE  WorkerTyped'
  OBVIOUS
<1>1. Status \in Statuses \cup {"none"} /\ Len(log) \in Nat
  BY StatusTyped, LenProperties DEF TypeOK
<1>2. NoResult \in Responses
  BY DEF NoResult, Response, Responses
<1>3. UNCHANGED sent
  BY DEF Next, Work, Read, Receive, Lookup, WorkerRecovers, LoadRefused, Load, Precheck,
         Conflict, Commit, Reload, Build, NotTerminal, Publish, Update, CommitFails, Fails,
         ReaderRecovers, VerifyReads, VerifyJudges, Crash, vars
<1>4. CASE Idle
  BY <1>2, <1>4 DEF Idle, WorkerTyped
<1>5. CASE UNCHANGED worker
  BY <1>3, <1>5 DEF TypeOK, WorkerTyped, worker
<1>6. ASSUME NEW r \in Requests, NEW a \in Actions, Receive(r, a)
      PROVE  WorkerTyped'
  BY <1>3, <1>6 DEF Receive, Goto, TypeOK, WorkerTyped
<1>7. CASE Lookup
  <2>1. request \in DOMAIN index => index[request] \in Responses
    BY DEF TypeOK, IsIndex
  <2>2. QED
    BY <1>3, <1>4, <1>7, <2>1 DEF Lookup, Goto, Tell, TypeOK, WorkerTyped
<1>8. CASE Load \/ Commit \/ Build
  BY <1>1, <1>3, <1>8 DEF Load, Commit, Build, Content, Goto, TypeOK, WorkerTyped
<1>9. CASE Reload
  <2>1. CASE action # "archive"
    BY <1>4, <1>9, <2>1 DEF Reload, Tell
  <2>2. CASE action = "archive"
    <3>1. Response(action, Len(log), Status) \in Responses
      BY <1>1, <2>2 DEF Response, Responses, Actions
    <3>2. QED
      BY <1>3, <1>9, <2>2, <3>1 DEF Reload, Goto, TypeOK, WorkerTyped
  <2>3. QED
    BY <2>1, <2>2
<1>10. CASE Publish
  <2>1. [result EXCEPT !.document = built] \in Responses
    BY DEF TypeOK, Responses
  <2>2. QED
    BY <1>3, <1>10, <2>1 DEF Publish, Goto, TypeOK, WorkerTyped
<1>11. CASE \/ Precheck \/ Conflict \/ NotTerminal \/ Update \/ CommitFails \/ Fails
            \/ Crash \/ LoadRefused
  BY <1>4, <1>11 DEF LoadRefused, Precheck, Conflict, NotTerminal, Update, CommitFails,
                     Fails, Crash, Refuse, Err, Tell
<1>12. QED
  BY <1>5, <1>6, <1>7, <1>8, <1>9, <1>10, <1>11
     DEF Next, Work, Read, WorkerRecovers, ReaderRecovers, VerifyReads, VerifyJudges, vars

LEMMA StepTypesRest == TypeOK /\ [Next]_vars => RestTyped'
<1> USE ServiceAssumption
<1> SUFFICES ASSUME TypeOK, [Next]_vars
             PROVE  RestTyped'
  OBVIOUS
<1>1. UNCHANGED sent
  BY DEF Next, Work, Read, Receive, Lookup, WorkerRecovers, LoadRefused, Load, Precheck,
         Conflict, Commit, Reload, Build, NotTerminal, Publish, Update, CommitFails, Fails,
         ReaderRecovers, VerifyReads, VerifyJudges, Crash, vars
<1>2. Fault => faults' \in 0..MaxFaults
  BY DEF Fault, TypeOK
<1>3. CASE UNCHANGED <<document, client, verify, faults>>
  BY <1>1, <1>3 DEF TypeOK, RestTyped, client
<1>4. Refuse \/ Err => told' = told /\ refused' \in BOOLEAN
  <2>1. Recorded(request) \in BOOLEAN
    BY DEF Recorded
  <2>2. Refuse => told' = told /\ refused' = Recorded(request)
    BY DEF Refuse
  <2>3. Err => told' = told /\ refused' = FALSE
    BY DEF Err
  <2>4. QED
    BY <2>1, <2>2, <2>3
<1>5. ASSUME NEW res \in Responses, Tell(res), phase # "idle"
      PROVE  told' \subseteq [request : Requests, result : Responses] /\ refused' \in BOOLEAN
  <2>1. request \in Requests
    BY <1>5 DEF TypeOK
  <2>2. told' = told \cup {[request |-> request, result |-> res]} /\ refused' = FALSE
    BY <1>5 DEF Tell
  <2> DEFINE Tellings == [request : Requests, result : Responses]
  <2>3. told \subseteq Tellings
    BY DEF TypeOK
  <2>4. [request |-> request, result |-> res] \in Tellings
    BY <2>1
  <2> HIDE DEF Tellings
  <2>5. told' \subseteq Tellings /\ refused' \in BOOLEAN
    BY <2>2, <2>3, <2>4
  <2>6. QED
    BY <2>5 DEF Tellings
<1>6. CASE LoadRefused \/ Precheck \/ Conflict \/ NotTerminal
  BY <1>1, <1>4, <1>6 DEF LoadRefused, TypeOK, RestTyped, Precheck, Conflict, NotTerminal
<1>7. CASE Lookup
  <2>1. request \in DOMAIN index => index[request] \in Responses
    BY DEF TypeOK, IsIndex
  <2>2. QED
    BY <1>1, <1>3, <1>5, <1>7, <2>1 DEF TypeOK, RestTyped, Lookup
<1>8. CASE Reload
  <2>1. action \in Actions /\ Len(log) \in Nat
    BY <1>8, LenProperties DEF Reload, TypeOK
  <2>2. Response(action, Len(log), Status) \in Responses
    BY <2>1, StatusTyped DEF Response, Responses
  <2>3. QED
    BY <1>1, <1>3, <1>5, <1>8, <2>2 DEF TypeOK, RestTyped, Reload
<1>9. CASE Update
  BY <1>1, <1>5, <1>9 DEF TypeOK, RestTyped, Update
<1>10. CASE Publish
  BY <1>1, <1>10 DEF TypeOK, RestTyped, Publish, client
<1>11. CASE CommitFails \/ Fails
  <2>1. document' \in Nat
    BY <1>11 DEF CommitFails, Fails, TypeOK
  <2>2. QED
    BY <1>1, <1>2, <1>4, <1>11, <2>1 DEF TypeOK, RestTyped, CommitFails, Fails
<1>12. CASE Crash
  BY <1>1, <1>2, <1>12 DEF TypeOK, RestTyped, Crash, NoVerify
<1>13. CASE VerifyReads
  <2>1. Acknowledged \in BOOLEAN
    BY DEF Acknowledged
  <2>2. verify' \in [step : {"none", "read", "valid", "invalid"},
                     document : Nat, sure : BOOLEAN]
    BY <1>13, <2>1 DEF TypeOK, VerifyReads
  <2>3. QED
    BY <1>1, <1>13, <2>2 DEF TypeOK, RestTyped, VerifyReads, client
<1>14. CASE VerifyJudges
  <2>1. PICK v \in {"valid", "invalid"} : verify' = [verify EXCEPT !.step = v]
    BY <1>14 DEF VerifyJudges
  <2>2. verify' \in [step : {"none", "read", "valid", "invalid"},
                     document : Nat, sure : BOOLEAN]
    BY <2>1 DEF TypeOK
  <2>3. QED
    BY <1>1, <1>14, <2>2 DEF TypeOK, RestTyped, VerifyJudges, client
<1>15. QED
  BY <1>3, <1>6, <1>7, <1>8, <1>9, <1>10, <1>11, <1>12, <1>13, <1>14
     DEF Next, Work, Read, Receive, WorkerRecovers, Load, Commit, Build, ReaderRecovers, vars

(* The service keeps its types (service.go:43-64).                         *)
THEOREM ServiceTyping == Spec => []TypeOK
<1> USE ServiceAssumption
<1>1. Init => TypeOK
  <2> SUFFICES ASSUME Init
               PROVE  TypeOK
    OBVIOUS
  <2>1. NoResult \in Responses /\ NoVerify \in [step : {"none", "read", "valid", "invalid"},
                                               document : Nat, sure : BOOLEAN]
    BY DEF NoResult, Response, Responses, NoVerify
  <2>2. log \in Seq(Entries)
    <3>1. PICK s \in Beginnings :
            log = IF s = "none" THEN <<>>
                  ELSE <<[request |-> Earlier, event |-> "earlier", status |-> s]>>
      BY DEF Init
    <3>2. s # "none" => [request |-> Earlier, event |-> "earlier", status |-> s] \in Entries
      BY DEF Entries
    <3>3. QED
      BY <3>1, <3>2
  <2>3. Len(log) \in Nat
    BY <2>2, LenProperties
  <2>4. IsIndex(index)
    BY DEF Init, IsIndex
  <2>5. document \in Nat /\ seen \in Nat /\ built \in Nat
    BY <2>3 DEF Init
  <2>6. told = {} /\ refused = FALSE /\ faults = 0 /\ 0 \in 0..MaxFaults
    BY DEF Init
  <2>7. /\ sent \in Scenarios /\ txn = Absent /\ quarantined = FALSE
        /\ result = NoResult /\ verify = NoVerify
        /\ phase = "idle" /\ request = NoRequest /\ action = "none"
    BY DEF Init
  <2>8. QED
    BY <2>1, <2>2, <2>4, <2>5, <2>6, <2>7 DEF TypeOK
<1>2. TypeOK /\ [Next]_vars => TypeOK'
  BY StepTypesStore, StepTypesWorker, StepTypesRest, TypeParts
     DEF StoreTyped, WorkerTyped, RestTyped, TypeOK
<1>3. QED
  BY <1>1, <1>2, PTL DEF Spec
-----------------------------------------------------------------------------
(* The invariant                                                           *)

Log == Recovered.log
Idx == Recovered.index

(* The log and the index a recovery leads to record the same requests,     *)
(* each once, each with the revision its event has.                        *)
RecordInv ==
  /\ \A i \in 1..Len(Log) :
       \/ Log[i].request = Earlier /\ i = 1
       \/ /\ Log[i].request \in DOMAIN Idx
          /\ Idx[Log[i].request].revision = i
  /\ \A r \in DOMAIN Idx :
       /\ Idx[r].revision \in 1..Len(Log) /\ Log[Idx[r].revision].request = r
       /\ <<r, Idx[r].action>> \in sent

(* A recovery changes nothing of what is on disk, it adds the last command,*)
(* and none to an archived case.                                           *)
AheadInv ==
  /\ DOMAIN index \subseteq DOMAIN Idx /\ \A r \in DOMAIN index : index[r] = Idx[r]
  /\ \A r \in DOMAIN Idx \ DOMAIN index :
       Idx[r].revision = Len(Log) /\ Idx[r].document = 0
  /\ StatusOf(log) = "archived" => Log = log

(* Nothing is pending from the decision on; a worker that finds its        *)
(* request recorded after its lookup finds it recorded last; only archive  *)
(* goes on to the document.                                                *)
WorkerInv ==
  /\ phase \in {"commit", "reload", "publish", "update"} => txn = Absent
  /\ phase = "commit" => seen = Len(log)
  /\ phase \in {"load", "commit"} /\ request \in DOMAIN Idx =>
       Idx[request].revision = Len(Log)
  /\ phase = "reload" => request \in DOMAIN Idx /\ Idx[request].revision = Len(Log)
  /\ phase \in {"save", "publish", "update"} =>
       /\ action = "archive" /\ request \in DOMAIN Idx
       /\ result.revision = Idx[request].revision /\ <<request, result.action>> \in sent

(* A client was told of a command it sent, at the revision it has.         *)
ClientInv ==
  \A t \in told :
    /\ t.request \in DOMAIN Idx /\ t.result.revision = Idx[t.request].revision
    /\ <<t.request, t.result.action>> \in sent

StoreInv == TypeOK /\ RecordInv /\ AheadInv /\ WorkerInv /\ ClientInv
-----------------------------------------------------------------------------
(* What a step does to the store: it recovers, perhaps part of it or       *)
(* nothing, or adds a command, or completes a response.                    *)
Settles ==
  Log' = Log /\ Idx' = Idx /\ log' \in {log, Log} /\ index' \in {index, Idx}

Adds(e) ==
  /\ phase = "commit" /\ request \notin DOMAIN index
  /\ e \in EventsOf(action) /\ Status \in Expected(e)
  /\ Log' = Append(log, Entry(e)) /\ Idx' = After(e).index
  /\ log' \in {log, Log'} /\ index' \in {index, Idx'}

Overwrites ==
  phase = "update" /\ index' = [index EXCEPT ![request] = result] /\ UNCHANGED <<log, txn>>

LEMMA StoreSteps ==
  ASSUME StoreInv, [Next]_vars
  PROVE  Settles \/ Overwrites \/ \E e \in EventsOf(action) : Adds(e)
<1> USE AbsentAssumption DEF StoreInv, Log, Idx
<1>1. CASE UNCHANGED store
  BY <1>1 DEF Settles, store, Recovered
<1>2. ASSUME txn # Absent, Recover \/ PartlyApplied(txn)
      PROVE  Settles
  BY <1>2, PendingTyped DEF Settles, Recover, PartlyApplied, Recovered
<1>3. CASE Crash
  <2>1. CASE log' = Recovered.log /\ index' = Recovered.index /\ txn' = Absent
    BY <2>1, PendingTyped DEF Settles, Recovered
  <2>2. CASE txn # Absent /\ PartlyApplied(txn)
    BY <1>2, <2>2
  <2>3. QED
    BY <1>3, <2>1, <2>2 DEF Crash
<1>4. CASE Recover
  BY <1>2, <1>4 DEF Recover
<1>5. CASE Fails /\ ~UNCHANGED store
  <2>1. CASE txn # Absent /\ PartlyApplied(txn)
    BY <1>2, <2>1
  <2>2. CASE phase = "update" /\ UNCHANGED <<log, txn>>
             /\ index' = [index EXCEPT ![request] = result]
    BY <2>2 DEF Overwrites
  <2>3. QED
    BY <1>5, <2>1, <2>2 DEF Fails, store
<1>6. ASSUME NEW e \in EventsOf(action), phase = "commit", Status \in Expected(e),
             ~AlreadyIn,
             \/ log' = After(e).log /\ index' = After(e).index /\ UNCHANGED txn
             \/ PartlyApplied(After(e))
      PROVE  Adds(e)
  <2>1. txn = Absent
    BY <1>6 DEF WorkerInv
  <2>2. After(e) # Absent
    BY <1>6, AfterStored DEF TypeOK, IsIndex
  <2>3. After(e).log = Append(log, Entry(e))
    BY DEF After
  <2>4. QED
    BY <1>6, <2>1, <2>2, <2>3 DEF Adds, AlreadyIn, PartlyApplied, Recovered
<1>7. CASE Commit \/ CommitFails
  BY <1>1, <1>6, <1>7 DEF Commit, CommitFails, store
<1>8. QED
  BY <1>1, <1>3, <1>4, <1>5, <1>7
     DEF Next, Work, Read, Receive, Lookup, WorkerRecovers, LoadRefused, Load, Precheck,
         Conflict, Reload, Build, NotTerminal, Publish, Update, ReaderRecovers, VerifyReads,
         VerifyJudges, store, vars, Overwrites

(* Adding a command puts its event and its response behind the others.     *)
LEMMA Added ==
  ASSUME StoreInv, NEW e \in EventsOf(action), Adds(e)
  PROVE  /\ Log = log /\ Idx = index /\ request \in Requests /\ <<request, action>> \in sent
         /\ log \in Seq(Entries) /\ Len(Log) \in Nat /\ Len(Log') = Len(Log) + 1
         /\ \A i \in 1..Len(Log) : Log'[i] = Log[i]
         /\ Log'[Len(Log')].request = request
         /\ request \notin DOMAIN Idx /\ DOMAIN Idx' = DOMAIN Idx \cup {request}
         /\ \A r \in DOMAIN Idx : Idx'[r] = Idx[r]
         /\ Idx'[request].action = action /\ Idx'[request].revision = Len(Log')
         /\ Idx'[request].document = 0
         /\ Status # "archived" /\ (action = "archive" => StatusOf(Log') = "archived")
<1> USE DEF StoreInv, Adds
<1>1. Log = log /\ Idx = index
  BY PendingTyped DEF WorkerInv, Log, Idx
<1>2. /\ Entry(e) \in Entries /\ request \in Requests /\ action \in Actions
      /\ <<request, action>> \in sent
  BY AfterStored
<1>3. log \in Seq(Entries) /\ Len(log) \in Nat /\ Log' = Append(log, Entry(e))
  BY LenProperties DEF TypeOK
<1>4. /\ Len(Log') = Len(log) + 1 /\ \A i \in 1..Len(log) : Log'[i] = log[i]
      /\ Log'[Len(Log')] = Entry(e)
  BY <1>2, <1>3, AppendProperties
<1>5. Idx' = [r \in DOMAIN index \cup {request} |->
                IF r = request THEN Prepared(e) ELSE index[r]]
  BY DEF After
<1>6. /\ Prepared(e).action = action /\ Prepared(e).revision = Len(Log')
      /\ Prepared(e).document = 0
  BY <1>4 DEF Prepared, Response, WorkerInv
<1>7. Status # "archived" /\ (action = "archive" => Apply(Status, e) = "archived")
  BY <1>2, RecordedEvents
<1>8. StatusOf(Log') = Apply(Status, e)
  <2>1. Log' # <<>>
    BY <1>3, <1>4, EmptySeq
  <2>2. QED
    BY <1>4, <2>1 DEF StatusOf, Last, Entry
<1>9. Log'[Len(Log')].request = request
  BY <1>4 DEF Entry
<1>10. QED
  BY <1>1, <1>2, <1>3, <1>4, <1>5, <1>6, <1>7, <1>8, <1>9

(* Completing a response leaves the revision and what is recorded alone.   *)
LEMMA Overwritten ==
  ASSUME StoreInv, Overwrites
  PROVE  /\ Log = log /\ Idx = index /\ Log' = log' /\ Idx' = index' /\ log' = log
         /\ request \in DOMAIN index /\ DOMAIN Idx' = DOMAIN Idx
         /\ \A r \in DOMAIN Idx : Idx'[r] = IF r = request THEN result ELSE Idx[r]
         /\ result.revision = Idx[request].revision /\ <<request, result.action>> \in sent
         /\ action = "archive"
<1> USE DEF StoreInv
<1>1. txn = Absent /\ txn' = Absent
  BY DEF WorkerInv, Overwrites
<1>2. Log = log /\ Idx = index /\ Log' = log' /\ Idx' = index'
  BY <1>1 DEF Log, Idx, Recovered
<1>3. index' = [index EXCEPT ![request] = result] /\ log' = log
  BY DEF Overwrites
<1>4. /\ request \in DOMAIN Idx /\ result.revision = Idx[request].revision
      /\ <<request, result.action>> \in sent /\ action = "archive"
  BY DEF WorkerInv, Overwrites
<1>5. QED
  BY <1>2, <1>3, <1>4

(* What is recorded stays recorded, at its revision, and an archived case  *)
(* stays as it is.                                                         *)
LEMMA RecordedStays ==
  ASSUME StoreInv, [Next]_vars
  PROVE  /\ \A r \in DOMAIN Idx :
              r \in DOMAIN Idx' /\ Idx'[r].revision = Idx[r].revision
         /\ StatusOf(log) = "archived" => UNCHANGED log
<1>1. CASE Settles
  BY <1>1 DEF Settles, StoreInv, AheadInv
<1>2. CASE Overwrites
  BY <1>2, Overwritten
<1>3. CASE \E e \in EventsOf(action) : Adds(e)
  BY <1>3, Added DEF Status
<1>4. QED
  BY <1>1, <1>2, <1>3, StoreSteps
-----------------------------------------------------------------------------
(* The invariant holds                                                     *)

LEMMA SentStays == [Next]_vars => UNCHANGED sent
  BY DEF Next, Work, Read, Receive, Lookup, WorkerRecovers, LoadRefused, Load, Precheck,
         Conflict, Commit, Reload, Build, NotTerminal, Publish, Update, CommitFails, Fails,
         ReaderRecovers, VerifyReads, VerifyJudges, Crash, vars

LEMMA RecordKept ==
  ASSUME StoreInv, [Next]_vars
  PROVE  RecordInv'
<1> USE SentStays DEF StoreInv
<1>1. CASE Settles
  BY <1>1 DEF Settles, RecordInv
<1>2. CASE Overwrites
  <2>1. /\ Log' = Log /\ DOMAIN Idx' = DOMAIN Idx
        /\ \A r \in DOMAIN Idx : Idx'[r] = IF r = request THEN result ELSE Idx[r]
        /\ result.revision = Idx[request].revision /\ <<request, result.action>> \in sent
    BY <1>2, Overwritten
  <2>2. /\ \A r \in DOMAIN Idx : Idx'[r].revision = Idx[r].revision
        /\ \A r \in DOMAIN Idx : <<r, Idx'[r].action>> \in sent
    BY <2>1 DEF RecordInv
  <2>3. QED
    BY <2>1, <2>2 DEF RecordInv
<1>3. ASSUME NEW e \in EventsOf(action), Adds(e)
      PROVE  RecordInv'
  <2>1. /\ Log'[Len(Log')].request = request /\ Idx'[request].revision = Len(Log')
        /\ Idx'[request].action = action /\ request \notin DOMAIN Idx
    BY <1>3, Added
  <2>2. ASSUME NEW i \in 1..Len(Log')
        PROVE  \/ Log'[i].request = Earlier /\ i = 1
               \/ /\ Log'[i].request \in DOMAIN Idx'
                  /\ Idx'[Log'[i].request].revision = i
    <3>1. CASE i = Len(Log')
      BY <1>3, <2>1, <3>1, Added
    <3>2. CASE i \in 1..Len(Log)
      BY <1>3, <3>2, Added DEF RecordInv
    <3>3. QED
      BY <1>3, <3>1, <3>2, Added
  <2>3. ASSUME NEW r \in DOMAIN Idx'
        PROVE  /\ Idx'[r].revision \in 1..Len(Log') /\ Log'[Idx'[r].revision].request = r
               /\ <<r, Idx'[r].action>> \in sent'
    <3>1. CASE r = request
      BY <1>3, <2>1, <3>1, Added
    <3>2. CASE r \in DOMAIN Idx
      <4>1. Idx'[r] = Idx[r] /\ Idx[r].revision \in 1..Len(Log)
        BY <1>3, <3>2, Added DEF RecordInv
      <4>2. Log'[Idx[r].revision] = Log[Idx[r].revision]
        BY <1>3, <4>1, Added
      <4>3. QED
        BY <1>3, <3>2, <4>1, <4>2, Added DEF RecordInv
    <3>3. QED
      BY <1>3, <3>1, <3>2, Added
  <2>4. QED
    BY <2>2, <2>3 DEF RecordInv
<1>4. QED
  BY <1>1, <1>2, <1>3, StoreSteps

LEMMA AheadKept ==
  ASSUME StoreInv, [Next]_vars
  PROVE  AheadInv'
<1> USE DEF StoreInv
<1>1. CASE Settles
  BY <1>1 DEF Settles, AheadInv
<1>2. CASE Overwrites
  BY <1>2, Overwritten DEF AheadInv
<1>3. ASSUME NEW e \in EventsOf(action), Adds(e)
      PROVE  AheadInv'
  <2>1. /\ Idx'[request].revision = Len(Log') /\ Idx'[request].document = 0
        /\ log' \in {log, Log'} /\ index' \in {index, Idx'}
    BY <1>3, Added DEF Adds
  <2>2. QED
    BY <1>3, <2>1, Added DEF AheadInv, Status
<1>4. QED
  BY <1>1, <1>2, <1>3, StoreSteps

LEMMA ClientKept ==
  ASSUME StoreInv, [Next]_vars
  PROVE  ClientInv'
<1> USE DEF StoreInv
<1>1. CASE told' = told
  BY <1>1, RecordedStays, SentStays DEF ClientInv
<1>2. ASSUME NEW res, Tell(res), request \in DOMAIN Idx,
             res.revision = Idx[request].revision, <<request, res.action>> \in sent
      PROVE  ClientInv'
  <2>1. told' = told \cup {[request |-> request, result |-> res]}
    BY <1>2 DEF Tell
  <2>2. ASSUME NEW t \in told'
        PROVE  /\ t.request \in DOMAIN Idx /\ t.result.revision = Idx[t.request].revision
               /\ <<t.request, t.result.action>> \in sent
    BY <1>2, <2>1, <2>2 DEF ClientInv
  <2>3. QED
    BY <2>2, RecordedStays, SentStays DEF ClientInv
<1>3. CASE Lookup /\ told' # told
  <2>1. Tell(index[request]) /\ request \in DOMAIN index
    BY <1>3 DEF Lookup, client
  <2>2. index[request] = Idx[request] /\ request \in DOMAIN Idx
    BY <2>1 DEF AheadInv
  <2>3. QED
    BY <1>2, <2>1, <2>2 DEF RecordInv
<1>4. CASE Reload /\ told' # told
  <2>1. /\ Tell(Response(action, Len(log), Status)) /\ phase = "reload" /\ txn = Absent
    BY <1>4 DEF Reload, Loadable, client
  <2>2. /\ Log = log /\ request \in DOMAIN Idx /\ Idx[request].revision = Len(log)
        /\ <<request, action>> \in sent
    BY <2>1, PendingTyped DEF WorkerInv, TypeOK, Log
  <2>3. QED
    BY <1>2, <2>1, <2>2 DEF Response
<1>5. CASE Update
  BY <1>2, <1>5, Overwritten DEF Update, Overwrites, WorkerInv
<1>6. QED
  BY <1>1, <1>3, <1>4, <1>5
     DEF Next, Work, Read, Receive, WorkerRecovers, LoadRefused, Load, Precheck, Conflict,
         Commit, Build, NotTerminal, Publish, CommitFails, Fails, Refuse, Err, client,
         ReaderRecovers, VerifyReads, VerifyJudges, Crash, vars

LEMMA WorkerKept ==
  ASSUME StoreInv, [Next]_vars
  PROVE  WorkerInv'
<1> USE DEF StoreInv
<1>1. CASE Idle
  BY <1>1 DEF Idle, WorkerInv
<1>2. CASE UNCHANGED <<store, worker>>
  BY <1>2, SentStays DEF store, worker, WorkerInv, Log, Idx, Recovered
<1>3. CASE Recover /\ UNCHANGED worker
  <2>1. txn # Absent /\ UNCHANGED worker
    BY <1>3 DEF Recover
  <2>2. Settles
    BY <1>3, PendingTyped DEF Settles, Recover, Log, Idx, Recovered
  <2>3. QED
    BY <2>1, <2>2, SentStays DEF Settles, WorkerInv, worker
<1>4. CASE UNCHANGED store /\ ~UNCHANGED worker /\ ~Idle
  <2>1. /\ Log' = Log /\ Idx' = Idx /\ UNCHANGED <<log, index, txn>>
        /\ txn = Absent => Log = log /\ Idx = index
    BY <1>4, PendingTyped DEF store, Log, Idx, Recovered
  <2>2. ASSUME NEW r \in Requests, NEW a \in Actions, Receive(r, a)
        PROVE  WorkerInv'
    BY <2>2 DEF Receive, Goto, WorkerInv
  <2>3. CASE Lookup
    <3>1. CASE request \notin DOMAIN index
      BY <2>1, <2>3, <3>1 DEF Lookup, Goto, WorkerInv, AheadInv
    <3>2. CASE request \in DOMAIN index /\ Completes
      BY <2>1, <2>3, <3>2, SentStays DEF Lookup, Goto, Completes, WorkerInv, AheadInv, RecordInv
    <3>3. QED
      BY <1>4, <2>3, <3>1, <3>2 DEF Lookup, Tell
  <2>4. CASE Load \/ Build
    BY <2>1, <2>4, SentStays DEF Load, Build, Loadable, Goto, WorkerInv
  <2>5. CASE Commit
    BY <1>4, <2>1, <2>5 DEF Commit, Goto, AlreadyIn, WorkerInv, store, After
  <2>6. CASE Reload
    <3>1. /\ action = "archive" /\ phase' = "save" /\ request' = request /\ action' = action
          /\ result' = Response(action, Len(log), Status) /\ phase = "reload"
      BY <1>4, <2>6 DEF Reload, Goto, Tell
    <3>2. /\ request \in DOMAIN Idx /\ Idx[request].revision = Len(log)
          /\ <<request, action>> \in sent
      BY <2>1, <3>1 DEF WorkerInv, TypeOK
    <3>3. QED
      BY <2>1, <3>1, <3>2, SentStays DEF WorkerInv, Response
  <2>7. CASE Publish
    <3>1. /\ result'.revision = result.revision /\ result'.action = result.action
      BY <2>7 DEF Publish, TypeOK, Responses
    <3>2. QED
      BY <2>1, <2>7, <3>1, SentStays DEF Publish, Goto, WorkerInv
  <2>8. QED
    BY <1>4, <2>2, <2>3, <2>4, <2>5, <2>6, <2>7
       DEF Next, Work, Read, WorkerRecovers, LoadRefused, Precheck, Conflict, Update,
           NotTerminal, CommitFails, Fails, Refuse, Err, Tell, Crash, worker,
           ReaderRecovers, VerifyReads, VerifyJudges, vars
<1>5. CASE Commit /\ ~UNCHANGED store
  <2>1. PICK e \in EventsOf(action) :
          /\ Status \in Expected(e) /\ ~AlreadyIn
          /\ log' = After(e).log /\ index' = After(e).index /\ UNCHANGED txn
    BY <1>5 DEF Commit, store
  <2>2. phase = "commit" /\ txn = Absent /\ txn' = Absent /\ phase' = "reload" /\ request' = request
    BY <1>5, <2>1 DEF Commit, Goto, WorkerInv
  <2>3. Log' = log' /\ Idx' = index' /\ Log = log
    BY <2>2 DEF Log, Idx, Recovered
  <2>4. Adds(e)
    BY <2>1, <2>2, <2>3 DEF Adds, AlreadyIn, After
  <2>5. request \in DOMAIN Idx' /\ Idx'[request].revision = Len(Log')
    BY <2>4, Added
  <2>6. QED
    BY <2>2, <2>5 DEF WorkerInv
<1>6. QED
  BY <1>1, <1>2, <1>3, <1>4, <1>5
     DEF Next, Work, Read, Receive, Lookup, WorkerRecovers, LoadRefused, Load, Precheck,
         Conflict, Reload, Build, NotTerminal, Publish, Update, CommitFails, Fails, Refuse,
         Err, Tell, ReaderRecovers, VerifyReads, VerifyJudges, Crash, vars

THEOREM StoreInvariant == Spec => []StoreInv
<1> USE ServiceAssumption
<1>1. Init => RecordInv /\ AheadInv /\ WorkerInv /\ ClientInv
  <2> SUFFICES ASSUME Init
               PROVE  RecordInv /\ AheadInv /\ WorkerInv /\ ClientInv
    OBVIOUS
  <2>1. /\ index = [r \in {} |-> NoResult] /\ txn = Absent /\ told = {} /\ phase = "idle"
        /\ \E s \in Beginnings :
             log = IF s = "none" THEN <<>>
                   ELSE <<[request |-> Earlier, event |-> "earlier", status |-> s]>>
    BY DEF Init
  <2>2. Log = log /\ Idx = index /\ DOMAIN index = {}
    BY <2>1 DEF Log, Idx, Recovered
  <2>3. \A i \in 1..Len(log) : log[i].request = Earlier /\ i = 1
    BY <2>1
  <2>4. RecordInv
    BY <2>2, <2>3 DEF RecordInv
  <2>5. QED
    BY <2>1, <2>2, <2>4 DEF AheadInv, WorkerInv, ClientInv
<1>2. StoreInv /\ [Next]_vars => RecordInv' /\ AheadInv' /\ WorkerInv' /\ ClientInv'
  BY RecordKept, AheadKept, WorkerKept, ClientKept
<1>3. QED
  BY <1>1, <1>2, ServiceTyping, PTL DEF Spec, StoreInv
-----------------------------------------------------------------------------
(* Archives                                                                *)

VerifyInv == VerifySound /\ (verify.step = "read" => verify.document # 0)

(* The archive of a case that stays as it is.                              *)
Final(d) == StatusOf(log) = "archived" /\ document = Len(log) /\ d = Len(log)

(* Where clients use a request_id for one command, only that of an         *)
(* archived case leads to a document, in the index, the worker, the        *)
(* answers and the verifications that count on it.                         *)
FinalInv ==
  /\ \A r \in DOMAIN Idx : Idx[r].action = "archive" => StatusOf(Log) = "archived"
  /\ \A r \in DOMAIN index :
       index[r].document # 0 => index[r].action = "archive" /\ Final(index[r].document)
  /\ phase = "publish" => StatusOf(log) = "archived" /\ built = Len(log)
  /\ phase = "update" => Final(result.document)

ToldInv ==
  /\ \A t \in told :
       /\ t.result.document # 0 => t.result.action = "archive"
       /\ t.result.action = "archive" => Final(t.result.document)
  /\ verify.step = "read" /\ verify.sure => Final(verify.document)
  /\ verify.step = "invalid" => ~verify.sure

ArchiveInv == OneCommandEach => FinalInv /\ ToldInv

ServiceInv == StoreInv /\ VerifyInv /\ ArchiveInv

(* The status of a case is that of its last event.                         *)
LEMMA LastStatus ==
  ASSUME TypeOK
  PROVE  Len(log) \in Nat /\ (Len(log) # 0 => StatusOf(log) = log[Len(log)].status)
         /\ (StatusOf(log) = "archived" => Len(log) # 0)
  BY EmptySeq, LenProperties DEF TypeOK, StatusOf, Last

LEMMA VerifyKept ==
  ASSUME StoreInv, VerifyInv, [Next]_vars
  PROVE  VerifyInv'
<1>1. CASE verify' = verify
  <2>1. verify.step = "valid" => StatusOf(log) = "archived" /\ UNCHANGED log
    BY RecordedStays DEF VerifyInv, VerifySound, Status
  <2>2. QED
    BY <1>1, <2>1 DEF VerifyInv, VerifySound, Status
<1>2. CASE VerifyReads
  BY <1>2 DEF VerifyReads, VerifyInv, VerifySound
<1>3. CASE VerifyJudges
  <2>1. /\ verify.document # 0 /\ verify'.document = verify.document /\ UNCHANGED log
        /\ verify'.step = IF /\ log[verify.document].status = "archived"
                             /\ verify.document = Len(log)
                          THEN "valid" ELSE "invalid"
    BY <1>3 DEF VerifyJudges, VerifyInv, TerminalStateValid, EventRootDigestValid, store,
                StoreInv, TypeOK
  <2>2. QED
    BY <2>1, LastStatus DEF VerifyInv, VerifySound, Status, StoreInv
<1>4. CASE Crash
  BY <1>4 DEF Crash, NoVerify, VerifyInv, VerifySound
<1>5. QED
  BY <1>1, <1>2, <1>3, <1>4
     DEF Next, Work, Read, Receive, Lookup, WorkerRecovers, LoadRefused, Load, Precheck,
         Conflict, Commit, Reload, Build, NotTerminal, Publish, Update, CommitFails, Fails,
         ReaderRecovers, vars

(* Under one command each, whoever works towards a document has archive    *)
(* recorded under its request, and the case is archived.                   *)
LEMMA ArchiveWork ==
  ASSUME StoreInv, FinalInv, OneCommandEach, phase \in {"save", "publish", "update"}
  PROVE  /\ action = "archive" /\ result.action = "archive"
         /\ request \in DOMAIN Idx /\ StatusOf(Log) = "archived"
<1>1. /\ action = "archive" /\ request \in DOMAIN Idx /\ <<request, result.action>> \in sent
      /\ <<request, action>> \in sent /\ <<request, Idx[request].action>> \in sent
  BY DEF StoreInv, WorkerInv, TypeOK, RecordInv
<1>2. result.action = "archive" /\ Idx[request].action = "archive"
  BY <1>1 DEF OneCommandEach
<1>3. QED
  BY <1>1, <1>2 DEF FinalInv

LEMMA FinalStays ==
  ASSUME StoreInv, FinalInv, [Next]_vars,
         StatusOf(log) = "archived", document = Len(log)
  PROVE  UNCHANGED <<log, document>>
<1>1. document' = document \/ (phase = "publish" /\ document' = built)
  BY DEF Next, Work, Read, Receive, Lookup, WorkerRecovers, LoadRefused, Load, Precheck,
         Conflict, Commit, Reload, Build, NotTerminal, Publish, Update, CommitFails, Fails,
         ReaderRecovers, VerifyReads, VerifyJudges, Crash, vars
<1>2. UNCHANGED log
  BY RecordedStays
<1>3. QED
  BY <1>1, <1>2 DEF FinalInv

LEMMA FinalKept ==
  ASSUME StoreInv, FinalInv, OneCommandEach, [Next]_vars
  PROVE  FinalInv'
<1>1. /\ \A r \in DOMAIN Idx' : Idx'[r].action = "archive" => StatusOf(Log') = "archived"
      /\ \A r \in DOMAIN index' :
           index'[r].document # 0 =>
             index'[r].action = "archive" /\ Final(index'[r].document)
  <2>1. CASE Settles
    BY <2>1 DEF Settles, FinalInv, StoreInv, AheadInv
  <2>2. CASE Overwrites
    <3>1. phase = "update"
      BY <2>2 DEF Overwrites
    <3>2. result.action = "archive" /\ StatusOf(Log) = "archived" /\ Final(result.document)
      BY <3>1, ArchiveWork DEF FinalInv
    <3>3. QED
      BY <2>2, <3>2, Overwritten DEF FinalInv
  <2>3. ASSUME NEW e \in EventsOf(action), Adds(e)
        PROVE  <1>1
    <3>1. index' \in {index, Idx'}
      BY <2>3 DEF Adds
    <3>2. QED
      BY <2>3, <3>1, Added DEF FinalInv, Status
  <2>4. QED
    BY <2>1, <2>2, <2>3, StoreSteps
<1>2. \A r \in DOMAIN index' :
        index'[r].document # 0 =>
          /\ index'[r].action = "archive" /\ StatusOf(log') = "archived"
          /\ document' = Len(log') /\ index'[r].document = Len(log')
  BY <1>1, FinalStays DEF Final
<1>3. phase' = "publish" => StatusOf(log') = "archived" /\ built' = Len(log')
  <2>1. CASE phase = "publish" /\ UNCHANGED <<phase, built>>
    BY <2>1, RecordedStays DEF FinalInv
  <2>2. CASE Build
    <3>1. phase = "save" /\ txn = Absent /\ built' = Len(log) /\ UNCHANGED log
      BY <2>2 DEF Build, Loadable, Content, store
    <3>2. StatusOf(log) = "archived"
      BY <3>1, ArchiveWork, PendingTyped DEF StoreInv, Log
    <3>3. QED
      BY <3>1, <3>2
  <2>3. QED
    BY <2>1, <2>2
       DEF Next, Work, Read, Receive, Lookup, WorkerRecovers, LoadRefused, Load, Precheck,
           Conflict, Commit, Reload, NotTerminal, Publish, Update, CommitFails, Fails,
           ReaderRecovers, VerifyReads, VerifyJudges, Crash, Idle, Tell, Refuse, Err, Goto,
           worker, vars
<1>4. phase' = "update" =>
        /\ StatusOf(log') = "archived"
        /\ document' = Len(log') /\ result'.document = Len(log')
  <2>1. CASE phase = "update" /\ UNCHANGED <<phase, result>>
    BY <2>1, FinalStays DEF FinalInv, Final
  <2>2. CASE Publish
    <3>1. document' = built /\ result'.document = built /\ UNCHANGED log /\ phase = "publish"
      BY <2>2 DEF Publish, store, StoreInv, TypeOK, Responses
    <3>2. QED
      BY <3>1 DEF FinalInv
  <2>3. QED
    BY <2>1, <2>2
       DEF Next, Work, Read, Receive, Lookup, WorkerRecovers, LoadRefused, Load, Precheck,
           Conflict, Commit, Reload, Build, NotTerminal, Update, CommitFails, Fails,
           ReaderRecovers, VerifyReads, VerifyJudges, Crash, Idle, Tell, Refuse, Err, Goto,
           worker, vars
<1>5. QED
  BY <1>1, <1>2, <1>3, <1>4 DEF FinalInv, Final

LEMMA ToldKept ==
  ASSUME StoreInv, FinalInv, ToldInv, OneCommandEach, [Next]_vars
  PROVE  ToldInv'
<1> DEFINE Good(res) == /\ res.document # 0 => res.action = "archive"
                        /\ res.action = "archive" => Final(res.document)
<1>1. ASSUME NEW res, Tell(res), Good(res)
      PROVE  \A t \in told' : Good(t.result)
  <2>1. told' = told \cup {[request |-> request, result |-> res]}
    BY <1>1 DEF Tell
  <2>2. QED
    BY <1>1, <2>1 DEF ToldInv
<1>2. \A t \in told' : Good(t.result)
  <2>1. CASE told' = told
    BY <2>1 DEF ToldInv
  <2>2. CASE Lookup /\ told' # told
    <3>1. Tell(index[request]) /\ request \in DOMAIN index /\ ~Completes
      BY <2>2 DEF Lookup, client
    <3>2. /\ request \in DOMAIN Idx /\ <<request, index[request].action>> \in sent
          /\ <<request, action>> \in sent
      BY <2>2, <3>1 DEF StoreInv, AheadInv, RecordInv, TypeOK, Lookup
    <3>3. index[request].action = action
      BY <3>2 DEF OneCommandEach
    <3>4. Good(index[request])
      BY <3>1, <3>3 DEF FinalInv, Completes
    <3>5. QED
      BY <1>1, <3>1, <3>4
  <2>3. CASE Reload /\ told' # told
    <3>1. Tell(Response(action, Len(log), Status)) /\ action # "archive"
      BY <2>3 DEF Reload, client
    <3>2. QED
      BY <1>1, <3>1 DEF Response
  <2>4. CASE Update
    <3>1. Tell(result) /\ phase = "update"
      BY <2>4 DEF Update
    <3>2. Good(result)
      BY <3>1, ArchiveWork DEF FinalInv
    <3>3. QED
      BY <1>1, <3>1, <3>2
  <2>5. QED
    BY <2>1, <2>2, <2>3, <2>4
       DEF Next, Work, Read, Receive, WorkerRecovers, LoadRefused, Load, Precheck, Conflict,
           Commit, Build, NotTerminal, Publish, CommitFails, Fails, Refuse, Err, client,
           ReaderRecovers, VerifyReads, VerifyJudges, Crash, vars
<1>3. \A t \in told' : t.result.action = "archive" =>
        /\ StatusOf(log') = "archived" /\ document' = Len(log')
        /\ t.result.document = Len(log')
  BY <1>2, FinalStays DEF Final
<1>4. /\ verify'.step = "read" /\ verify'.sure =>
           /\ StatusOf(log') = "archived" /\ document' = Len(log')
           /\ verify'.document = Len(log')
      /\ verify'.step = "invalid" => ~verify'.sure
  <2>1. CASE verify' = verify
    BY <2>1, FinalStays DEF ToldInv, Final
  <2>2. CASE VerifyReads
    <3>1. /\ verify'.step = "read" /\ verify'.document = document
          /\ verify'.sure = Acknowledged /\ UNCHANGED <<log, document>>
      BY <2>2 DEF VerifyReads, store
    <3>2. Acknowledged => StatusOf(log) = "archived" /\ document = Len(log)
      BY DEF Acknowledged, ToldInv, Final
    <3>3. QED
      BY <3>1, <3>2
  <2>3. CASE VerifyJudges
    <3>1. /\ verify.step = "read" /\ verify'.sure = verify.sure
          /\ verify'.step = IF /\ log[verify.document].status = "archived"
                               /\ verify.document = Len(log)
                            THEN "valid" ELSE "invalid"
      BY <2>3 DEF VerifyJudges, TerminalStateValid, EventRootDigestValid, StoreInv, TypeOK
    <3>2. verify.sure => verify'.step = "valid"
      BY <3>1, LastStatus DEF ToldInv, Final, StoreInv
    <3>3. QED
      BY <3>1, <3>2
  <2>4. CASE Crash
    BY <2>4 DEF Crash, NoVerify
  <2>5. QED
    BY <2>1, <2>2, <2>3, <2>4
       DEF Next, Work, Read, Receive, Lookup, WorkerRecovers, LoadRefused, Load, Precheck,
           Conflict, Commit, Reload, Build, NotTerminal, Publish, Update, CommitFails,
           Fails, ReaderRecovers, vars
<1>5. QED
  BY <1>2, <1>3, <1>4 DEF ToldInv, Final

THEOREM ServiceInvariant == Spec => []ServiceInv
<1>1. Init => VerifyInv /\ ArchiveInv
  <2> SUFFICES ASSUME Init
               PROVE  VerifyInv /\ ArchiveInv
    OBVIOUS
  <2>1. /\ index = [r \in {} |-> NoResult] /\ txn = Absent /\ told = {} /\ phase = "idle"
        /\ verify = NoVerify
    BY DEF Init
  <2>2. DOMAIN Idx = {} /\ DOMAIN index = {} /\ verify.step = "none"
    BY <2>1 DEF Idx, Recovered, NoVerify
  <2>3. QED
    BY <2>1, <2>2 DEF VerifyInv, VerifySound, ArchiveInv, FinalInv, ToldInv
<1>2. StoreInv /\ VerifyInv /\ ArchiveInv /\ [Next]_vars => VerifyInv' /\ ArchiveInv'
  <2> SUFFICES ASSUME StoreInv, VerifyInv, ArchiveInv, [Next]_vars
               PROVE  VerifyInv' /\ ArchiveInv'
    OBVIOUS
  <2>1. OneCommandEach' <=> OneCommandEach
    BY SentStays DEF OneCommandEach
  <2>2. QED
    BY <2>1, VerifyKept, FinalKept, ToldKept DEF ArchiveInv
<1>3. QED
  BY <1>1, <1>2, StoreInvariant, PTL DEF Spec, ServiceInv

(* Whatever a client is told of a request agrees with what it was told     *)
(* before (service.go:50-64,176,196).                                      *)
THEOREM ClientsAgree == Spec => []AnswersAgree
<1>1. ServiceInv => AnswersAgree
  <2> SUFFICES ASSUME ServiceInv, NEW t \in told, NEW u \in told, t.request = u.request
               PROVE  /\ t.result.revision = u.result.revision
                      /\ OneCommandEach => /\ t.result.action = u.result.action
                                           /\ t.result.document = u.result.document
    BY DEF AnswersAgree
  <2>1. /\ t.result.revision = u.result.revision
        /\ <<t.request, t.result.action>> \in sent /\ <<t.request, u.result.action>> \in sent
    BY DEF ServiceInv, StoreInv, ClientInv
  <2>2. OneCommandEach => t.result.action = u.result.action
    BY <2>1 DEF OneCommandEach
  <2>3. OneCommandEach => t.result.document = u.result.document
    BY <2>2 DEF ServiceInv, ArchiveInv, ToldInv, Final
  <2>4. QED
    BY <2>1, <2>2, <2>3
<1>2. QED
  BY <1>1, ServiceInvariant, PTL

(* A document found valid is the whole of an archived case                 *)
(* (archive/service.go:99-141).                                            *)
THEOREM VerificationSound == Spec => []VerifySound
<1>1. ServiceInv => VerifySound
  BY DEF ServiceInv, VerifyInv
<1>2. QED
  BY <1>1, ServiceInvariant, PTL

(* An archive a client knows of is there, complete, and found valid        *)
(* (service.go:53-62,157-167).                                             *)
THEOREM ArchivesTrusted == Spec => []ArchiveTrusted
<1>1. ServiceInv => ArchiveTrusted
  BY DEF ServiceInv, ArchiveInv, ToldInv, Final, Acknowledged, ArchiveTrusted
<1>2. QED
  BY <1>1, ServiceInvariant, PTL
-----------------------------------------------------------------------------
(* The service implements CommitLog                                        *)

(* Behind what earlier commands left, the log holds the recorded requests. *)
LEMMA RequestsRecorded ==
  ASSUME StoreInv
  PROVE  /\ Len(Log) \in Nat /\ Before(Log) \in {0, 1} /\ Before(Log) <= Len(Log)
         /\ RequestsOf(Log) \in Seq(Requests)
         /\ Len(RequestsOf(Log)) = Len(Log) - Before(Log)
         /\ \A r \in Requests : Contains(RequestsOf(Log), r) <=> r \in DOMAIN Idx
<1> USE ServiceAssumption DEF StoreInv
<1> DEFINE b == Before(Log)
           n == Len(Log) - b
<1>1. Log \in Seq(Entries) /\ IsIndex(Idx)
  BY PendingTyped DEF Log, Idx
<1>2. Len(Log) \in Nat /\ b \in {0, 1} /\ (Log # <<>> => Len(Log) \in Nat \ {0})
  BY <1>1, LenProperties, EmptySeq DEF Before
<1>3. b <= Len(Log) /\ n \in Nat
  BY <1>2 DEF Before
<1>4. \A i \in 1..Len(Log) : i > b => Log[i].request \in DOMAIN Idx
  <2> SUFFICES ASSUME NEW i \in 1..Len(Log), i > b, Log[i].request = Earlier, i = 1
               PROVE  FALSE
    BY DEF RecordInv
  <2>1. Log # <<>>
    BY <1>1, EmptySeq
  <2>2. QED
    BY <2>1 DEF Before
<1>5. RequestsOf(Log) = [k \in 1..n |-> Log[k + b].request]
  BY DEF RequestsOf
<1>6. \A k \in 1..n : k + b \in 1..Len(Log) /\ Log[k + b].request \in DOMAIN Idx
  BY <1>2, <1>3, <1>4
<1>7. DOMAIN Idx \subseteq Requests
  BY <1>1 DEF IsIndex
<1> HIDE DEF b, n
<1>8. RequestsOf(Log) \in [1..n -> Requests]
  BY <1>5, <1>6, <1>7
<1>9. RequestsOf(Log) \in Seq(Requests)
  BY <1>3, <1>8, SeqDef
<1>10. Len(RequestsOf(Log)) = n
  BY <1>3, <1>8, <1>9, LenProperties
<1>11. ASSUME NEW r \in DOMAIN Idx
       PROVE  Contains(RequestsOf(Log), r)
  <2> DEFINE i == Idx[r].revision
  <2>1. i \in 1..Len(Log) /\ Log[i].request = r /\ r # Earlier
    BY <1>7 DEF RecordInv
  <2>2. i # b \/ b = 0
    BY <1>2, <2>1 DEF b, Before
  <2>3. i - b \in 1..n /\ (i - b) + b = i
    BY <1>2, <2>1, <2>2 DEF n
  <2> HIDE DEF i
  <2>4. RequestsOf(Log)[i - b] = r
    BY <1>5, <2>1, <2>3
  <2>5. QED
    BY <1>10, <2>3, <2>4 DEF Contains
<1>12. ASSUME NEW r \in Requests, Contains(RequestsOf(Log), r)
       PROVE  r \in DOMAIN Idx
  BY <1>5, <1>6, <1>10, <1>12 DEF Contains
<1>13. QED
  BY <1>2, <1>3, <1>9, <1>10, <1>11, <1>12 DEF b, n

LEMMA RequestsAdded ==
  ASSUME StoreInv, NEW e \in EventsOf(action), Adds(e)
  PROVE  RequestsOf(Log') = Append(RequestsOf(Log), request)
<1> USE ServiceAssumption
<1> DEFINE b == Before(Log)
           n == Len(Log) - b
           s == RequestsOf(Log)
<1>1. /\ Len(Log) \in Nat /\ Len(Log') = Len(Log) + 1 /\ request \in Requests
      /\ \A i \in 1..Len(Log) : Log'[i] = Log[i]
      /\ Log'[Len(Log')].request = request
      /\ Log \in Seq(Entries) /\ Log' # <<>>
  <2>1. Log' = Append(log, Entry(e)) /\ Entry(e) \in Entries
    BY AfterStored DEF Adds, StoreInv
  <2>2. QED
    BY <2>1, Added, AppendProperties, EmptySeq
<1>2. Before(Log') = b
  <2>1. CASE Log = <<>>
    BY <1>1, <2>1, EmptySeq DEF Before
  <2>2. CASE Log # <<>>
    <3>1. 1 \in 1..Len(Log)
      BY <1>1, <2>2, EmptySeq
    <3>2. QED
      BY <1>1, <2>2, <3>1 DEF Before
  <2>3. QED
    BY <2>1, <2>2
<1>3. b \in {0, 1} /\ n \in Nat /\ s \in Seq(Requests) /\ Len(s) = n
  BY RequestsRecorded
<1>4. s = [k \in 1..n |-> Log[k + b].request]
  BY DEF RequestsOf
<1>5. RequestsOf(Log') = [k \in 1..(n + 1) |-> Log'[k + b].request]
  BY <1>1, <1>2, <1>3 DEF RequestsOf
<1> DEFINE t == Append(s, request)
<1>6. /\ t \in Seq(Requests) /\ Len(t) = n + 1 /\ t[n + 1] = request
      /\ \A k \in 1..n : t[k] = s[k]
  BY <1>1, <1>3, AppendProperties
<1>7. t = [k \in 1..(n + 1) |-> t[k]]
  BY <1>3, <1>6, LenProperties
<1>8. n + 1 + b = Len(Log') /\ \A k \in 1..n : k + b \in 1..Len(Log)
  BY <1>1, <1>3
<1> HIDE DEF t, s, n, b
<1>9. \A k \in 1..(n + 1) : t[k] = Log'[k + b].request
  <2> SUFFICES ASSUME NEW k \in 1..(n + 1)
               PROVE  t[k] = Log'[k + b].request
    OBVIOUS
  <2>1. CASE k = n + 1
    BY <1>1, <1>6, <1>8, <2>1
  <2>2. CASE k \in 1..n
    BY <1>1, <1>4, <1>6, <1>8, <2>2
  <2>3. QED
    BY <1>3, <2>1, <2>2
<1>10. QED
  BY <1>5, <1>7, <1>9 DEF t, s

(* A step adds a request that is not recorded, or tells a client of one    *)
(* that is, or does nothing of either (service.go:46-64,171-198).          *)
LEMMA PromiseStep ==
  ASSUME StoreInv, [Next]_vars
  PROVE  [Promise!Next]_(Promise!vars)
<1> USE DEF Log
<1>1. \A l, r : Promise!Contains(l, r) <=> Contains(l, r)
  BY DEF Promise!Contains, Contains
<1>2. ASSUME NEW e \in EventsOf(action), Adds(e), told' = told
      PROVE  Promise!Append1(request)
  <2>1. request \in Requests /\ ~Contains(RequestsOf(Log), request)
    BY <1>2, Added, RequestsRecorded
  <2>2. RequestsOf(Log') = Append(RequestsOf(Log), request)
    BY <1>2, RequestsAdded
  <2>3. QED
    BY <1>1, <1>2, <2>1, <2>2 DEF Promise!Append1
<1>3. CASE Log' = Log /\ told' = told
  BY <1>3 DEF Promise!vars
<1>4. told' = told \/ (phase \in {"lookup", "reload", "update"} /\ \E res : Tell(res))
  BY DEF Next, Work, Read, Receive, Lookup, WorkerRecovers, LoadRefused, Load, Precheck,
         Conflict, Commit, Reload, Build, NotTerminal, Publish, Update, CommitFails, Fails,
         Refuse, Err, client, ReaderRecovers, VerifyReads, VerifyJudges, Crash, vars
<1>5. ASSUME NEW res, Tell(res), Log' = Log, DOMAIN Idx' = DOMAIN Idx
      PROVE  request \in Requests /\ Promise!Ack(request)
  <2> DEFINE tell == [request |-> request, result |-> res]
  <2>1. told' = told \cup {tell} /\ tell.request = request
    BY <1>5 DEF Tell
  <2> HIDE DEF tell
  <2>2. request \in DOMAIN Idx
    BY <1>5, <2>1, ClientKept DEF ClientInv
  <2>3. request \in Requests
    BY <2>2, PendingTyped DEF StoreInv, Idx, IsIndex
  <2>4. {t.request : t \in told'} = {t.request : t \in told} \cup {request}
    BY <2>1
  <2>5. Contains(RequestsOf(Log), request)
    BY <2>2, <2>3, RequestsRecorded
  <2>6. QED
    BY <1>1, <1>5, <2>3, <2>4, <2>5 DEF Promise!Ack
<1>6. CASE Settles \/ Overwrites
  <2>1. Log' = Log /\ DOMAIN Idx' = DOMAIN Idx
    BY <1>6, Overwritten DEF Settles
  <2>2. CASE told' = told
    BY <1>3, <2>1, <2>2
  <2>3. CASE \E res : Tell(res)
    <3>1. PICK res : Tell(res)
      BY <2>3
    <3>2. request \in Requests /\ Promise!Ack(request)
      BY <1>5, <2>1, <3>1
    <3>3. Promise!Next
      BY <3>2 DEF Promise!Next, Promise!Ack
    <3>4. QED
      BY <3>3
  <2>4. QED
    BY <1>4, <2>2, <2>3
<1>7. CASE \E e \in EventsOf(action) : Adds(e)
  BY <1>2, <1>4, <1>7, Added DEF Adds, Promise!Next
<1>8. QED
  BY <1>6, <1>7, StoreSteps

(* The service implements CommitLog: a request is recorded at most once    *)
(* and, once a client was told of it, for ever.                            *)
THEOREM ServiceImplementsCommitLog == Spec => CommitLogSpec
<1> USE ServiceAssumption
<1>1. Init => Promise!Init
  <2> SUFFICES ASSUME Init
               PROVE  Promise!Init
    OBVIOUS
  <2>1. /\ txn = Absent /\ told = {}
        /\ \E s \in Beginnings :
             log = IF s = "none" THEN <<>>
                   ELSE <<[request |-> Earlier, event |-> "earlier", status |-> s]>>
    BY DEF Init
  <2>2. Recovered.log = log /\ Len(log) = Before(log)
    BY <2>1 DEF Recovered, Before
  <2>3. RequestsOf(Recovered.log) = <<>>
    BY <2>1, <2>2 DEF RequestsOf
  <2>4. QED
    BY <2>1, <2>3 DEF Promise!Init
<1>2. QED
  BY <1>1, StoreInvariant, PromiseStep, PTL DEF Spec, CommitLogSpec, Promise!Spec
=============================================================================
