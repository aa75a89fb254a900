----------------------------- MODULE CaseStore -----------------------------
(***************************************************************************)
(* The files of one case and the requests served on it: package storage    *)
(* as package application drives it.  A request is served by the single    *)
(* worker of the case's mailbox, through critical sections of the case's   *)
(* mutex; readers take the same mutex.  The process may crash or lose      *)
(* power between any two file operations, and any of them may fail.        *)
(*                                                                         *)
(* An event is represented by the request that appended it.  Digests are   *)
(* abstracted: a file holds a whole log, as atomicWrite replaces whole     *)
(* files, and a root digest is the log it closes.                          *)
(***************************************************************************)
EXTENDS Naturals, Sequences, FiniteSets, SequencesExt

CONSTANTS
  Requests,   \* request_ids clients use, each perhaps again and again
  NoRequest,
  Absent      \* the content of a file that does not exist

ASSUME SentinelAssumption == NoRequest \notin Requests

VARIABLES
  disk,        \* the files of the case directory as processes see them
  survivors,   \* the directories a power loss may leave
  document,    \* the case's file in archives/: the log it closes
  documents,   \* what a power loss may leave of it
  up,          \* the process has finished its start-up scan
  quarantined, \* the scan has set the case aside
  holder,      \* who holds the mutex of the case
  plan,        \* the file operations its holder has still to do
  job,         \* the log and index these operations write
  phase,       \* how far the worker has come with its request
  request, kind,
  seen,        \* the log the worker has loaded, to decide or to archive
  acked        \* <<r, k>>: a client knows that r of kind k succeeded

archives == <<document, documents>>
disks  == <<disk, survivors, archives>>
mutex  == <<holder, plan, job>>
worker == <<phase, request, kind, seen>>
vars   == <<disks, up, quarantined, mutex, worker, acked>>

Files == {"txn", "events", "requests", "checkpoint"}
Kinds == {"create", "command", "archive"}
-----------------------------------------------------------------------------
(* The request index maps a request to its revision and to whether its     *)
(* stored response carries the archive digest.                             *)
Entry == [revision: Nat, archived: BOOLEAN]
Indexes(R) == [R -> Entry]
Jobs(R) == [log: Seq(Requests), index: Indexes(R)]

(* No file that exists reads like one that does not.                       *)
ASSUME AbsentAssumption ==
  /\ Absent \notin Seq(Requests)
  /\ \A R \in SUBSET Requests : Absent \notin Indexes(R) /\ Absent \notin Jobs(R)

EmptyIndex == [r \in {} |-> [revision |-> 0, archived |-> FALSE]]
Enter(index, r, entry) ==
  [q \in DOMAIN index \cup {r} |-> IF q = r THEN entry ELSE index[q]]

IndexOf(d) == IF d["requests"] = Absent THEN EmptyIndex ELSE d["requests"]
LogOf(d)   == IF d["events"] = Absent THEN <<>> ELSE d["events"]

(* The checkpoint, where there is one, closes a prefix of the events.      *)
Consistent(d) ==
  \/ d["checkpoint"] = Absent
  \/ d["events"] # Absent /\ IsPrefix(d["checkpoint"], d["events"])

Empty == [f \in Files |-> Absent]
NoJob == [log |-> <<>>, index |-> EmptyIndex]

Init ==
  /\ disk = Empty /\ survivors = {Empty}
  /\ document = Absent /\ documents = {Absent}
  /\ up = FALSE /\ quarantined = FALSE
  /\ holder = "nobody" /\ plan = <<>>
  /\ job = NoJob
  /\ phase = "idle" /\ request = NoRequest /\ kind = "command"
  /\ seen = <<>> /\ acked = {}
-----------------------------------------------------------------------------
(* File operations                                                         *)

(* A rename is seen at once; until the directory is synced a power loss    *)
(* may undo it, and every change of the directory after it (the file       *)
(* system journals metadata in order).  The data were synced before.       *)
Rename(f, content) ==
  /\ disk' = [disk EXCEPT ![f] = content]
  /\ survivors' = survivors \cup {disk'}
  /\ UNCHANGED archives

SyncDir_Skipped == UNCHANGED disks
SyncDir == survivors' = {disk} /\ UNCHANGED <<disk, archives>>

Perform(step) ==
  CASE step = "txn"        -> Rename("txn", job)
    [] step = "events"     -> Rename("events", job.log)
    [] step = "requests"   -> Rename("requests", job.index)
    [] step = "checkpoint" -> Rename("checkpoint", job.log)
    [] step = "remove"     -> Rename("txn", Absent)
    [] step = "sync"       -> SyncDir

ApplyPlan  == <<"events", "sync", "requests", "sync", "checkpoint", "sync", "remove">>
CommitPlan_NoTransaction ==
  <<"checkpoint", "sync", "events", "sync", "requests", "sync">>
CommitPlan_OneSync == <<"txn", "events", "requests", "checkpoint", "remove">>
CommitPlan == <<"txn", "sync">> \o ApplyPlan
UpdatePlan == <<"requests", "sync">>

Free == holder = "nobody"
Take(who, steps, content) == holder' = who /\ plan' = steps /\ job' = content
Release_WritesGoOn == holder' = "nobody" /\ UNCHANGED <<plan, job>>
Release == holder' = "nobody" /\ plan' = <<>> /\ job' = NoJob

Step ==
  /\ plan # <<>>
  /\ Perform(Head(plan))
  /\ plan' = Tail(plan)
  /\ UNCHANGED <<up, quarantined, holder, job, worker, acked>>

(* recoverTransactionUnlocked: the transaction file is applied again.      *)
Recover_Discards(who) ==
  /\ Free /\ disk["txn"] # Absent
  /\ Take(who, <<"remove">>, disk["txn"])
Recover(who) ==
  /\ Free /\ disk["txn"] # Absent
  /\ Take(who, ApplyPlan, disk["txn"])
-----------------------------------------------------------------------------
(* Start-up                                                                *)

BootRecover ==
  /\ ~up /\ Recover("boot")
  /\ UNCHANGED <<disks, up, quarantined, worker, acked>>

BootDone ==
  /\ ~up /\ holder \in {"nobody", "boot"} /\ plan = <<>>
  /\ disk["txn"] = Absent
  /\ up' = TRUE
  /\ quarantined' = (disk["events"] # Absent /\ ~Consistent(disk))
  /\ Release
  /\ UNCHANGED <<disks, worker, acked>>
-----------------------------------------------------------------------------
(* The worker                                                              *)

Idle ==
  /\ phase' = "idle" /\ request' = NoRequest /\ kind' = "command"
  /\ seen' = <<>>
Goto(p) == phase' = p /\ UNCHANGED <<request, kind, seen>>

Receive(r, k) ==
  /\ up /\ phase = "idle"
  /\ phase' = "lookup" /\ request' = r /\ kind' = k
  /\ UNCHANGED <<disks, up, quarantined, mutex, seen, acked>>

Answer(k) == acked' = acked \cup {<<request, k>>} /\ Idle

(* IdempotentResult reads the index as it is, without recovering.  The     *)
(* archive command completes a response that lacks the archive digest.     *)
Lookup ==
  /\ phase = "lookup" /\ Free
  /\ LET index == IndexOf(disk)
     IN IF request \notin DOMAIN index
        THEN Goto("load") /\ UNCHANGED acked
        ELSE IF kind = "archive" /\ ~index[request].archived
             THEN Goto("save") /\ UNCHANGED acked
             ELSE Answer(kind)
  /\ UNCHANGED <<disks, up, quarantined, mutex>>

(* Load recovers a pending transaction in the critical section that reads. *)
LoadRecover ==
  /\ phase \in {"load", "reload", "save"} /\ ~quarantined /\ Recover("worker")
  /\ UNCHANGED <<disks, up, quarantined, worker, acked>>

Loading ==
  /\ holder \in {"nobody", "worker"} /\ plan = <<>>
  /\ disk["txn"] = Absent /\ ~quarantined

Readable == disk["events"] # Absent /\ Consistent(disk)

(* A new case must not exist yet, any other request needs the case.        *)
Load ==
  /\ phase = "load" /\ Loading
  /\ IF kind = "create" THEN disk["events"] = Absent ELSE Readable
  /\ phase' = "decided" /\ seen' = LogOf(disk)
  /\ Release
  /\ UNCHANGED <<disks, up, quarantined, request, kind, acked>>

(* Commit: a request in the index is not appended again, and the events    *)
(* must be those the decision was made on.                                 *)
AlreadyIn_Unchecked(index) == FALSE
AlreadyIn(index) == request \in DOMAIN index

Commit ==
  /\ phase = "decided" /\ Free
  /\ LET log   == LogOf(disk)
         index == IndexOf(disk)
     IN IF AlreadyIn(index)
        THEN Goto("reload") /\ UNCHANGED mutex
        ELSE /\ Len(log) = Len(seen)
             /\ Take("worker", CommitPlan,
                  [log |-> Append(log, request),
                   index |-> Enter(index, request,
                     [revision |-> Len(log) + 1, archived |-> FALSE])])
             /\ Goto("committing")
  /\ UNCHANGED <<disks, up, quarantined, acked>>

Committed ==
  /\ phase = "committing" /\ plan = <<>>
  /\ Goto("reload") /\ Release
  /\ UNCHANGED <<disks, up, quarantined, acked>>

Reload ==
  /\ phase = "reload" /\ Loading /\ Readable
  /\ IF kind = "archive" THEN Goto("save") /\ UNCHANGED acked
     ELSE Answer(kind)
  /\ Release
  /\ UNCHANGED <<disks, up, quarantined>>

(* archive.Save: the document is built from the case as Load gives it, and *)
(* replaces the one in archives/ without the mutex of the case.            *)
Save_WithoutLoading ==
  /\ phase = "save" /\ Free
  /\ Goto("publish")
  /\ UNCHANGED <<disks, up, quarantined, mutex, acked>>
Save ==
  /\ phase = "save" /\ Loading /\ Readable
  /\ phase' = "publish" /\ seen' = LogOf(disk) /\ UNCHANGED <<request, kind>>
  /\ Release
  /\ UNCHANGED <<disks, up, quarantined, acked>>

Publish ==
  /\ phase = "publish" /\ Goto("published")
  /\ document' = seen /\ documents' = documents \cup {seen}
  /\ UNCHANGED <<disk, survivors, up, quarantined, mutex, acked>>

SyncArchives_Skipped == UNCHANGED documents
SyncArchives == documents' = {document}

Published ==
  /\ phase = "published" /\ Goto("update") /\ SyncArchives
  /\ UNCHANGED <<disk, survivors, document, up, quarantined, mutex, acked>>

PublishFails ==
  /\ phase \in {"publish", "published"} /\ Idle
  /\ UNCHANGED <<disks, up, quarantined, mutex, acked>>

(* UpdateIdempotentResponse, once the archive is saved.                    *)
Update ==
  /\ phase = "update" /\ Free /\ request \in DOMAIN IndexOf(disk)
  /\ Take("worker", UpdatePlan,
       [log |-> LogOf(disk),
        index |-> [IndexOf(disk) EXCEPT ![request].archived = TRUE]])
  /\ Goto("updating")
  /\ UNCHANGED <<disks, up, quarantined, acked>>

Updated ==
  /\ phase = "updating" /\ plan = <<>>
  /\ Answer(kind) /\ Release
  /\ UNCHANGED <<disks, up, quarantined>>

(* The worker answers with an error outside a file operation: the case is  *)
(* quarantined, missing or already there, the domain refuses the command,  *)
(* the revision has changed, a file cannot be read.                        *)
Refuse ==
  /\ phase \in {"lookup", "load", "decided", "reload", "save", "update"}
  /\ Free \/ (holder = "worker" /\ phase \in {"load", "reload", "save"})
  /\ plan = <<>>
  /\ Idle /\ Release
  /\ UNCHANGED <<disks, up, quarantined, acked>>
-----------------------------------------------------------------------------
(* Readers: case view, events, archive.  Only their recovery writes.       *)

ReaderRecover ==
  /\ up /\ ~quarantined /\ Recover("reader")
  /\ UNCHANGED <<disks, up, quarantined, worker, acked>>

ReaderDone ==
  /\ holder = "reader" /\ plan = <<>>
  /\ Release
  /\ UNCHANGED <<disks, up, quarantined, worker, acked>>
-----------------------------------------------------------------------------
(* Failures                                                                *)

(* A file operation fails: its holder gives up, and the start-up scan      *)
(* quarantines the case.                                                   *)
Fail_KeepsMutex ==
  /\ plan # <<>> /\ holder = "worker"
  /\ plan' = <<>> /\ Idle
  /\ UNCHANGED <<disks, up, quarantined, holder, job, acked>>
Fail ==
  /\ plan # <<>>
  /\ Release
  /\ IF holder = "worker" THEN Idle ELSE UNCHANGED worker
  /\ IF holder = "boot" THEN up' = TRUE /\ quarantined' = TRUE
     ELSE UNCHANGED <<up, quarantined>>
  /\ UNCHANGED <<disks, acked>>

Down ==
  /\ up' = FALSE /\ quarantined' = FALSE
  /\ Idle /\ Release
  /\ UNCHANGED acked

Crash == Down /\ UNCHANGED disks

PowerLoss ==
  /\ Down
  /\ disk' \in survivors
  /\ survivors' = {disk'}
  /\ document' \in documents /\ documents' = {document'}
-----------------------------------------------------------------------------
Boot == BootRecover \/ BootDone

Work ==
  \/ Lookup \/ LoadRecover \/ Load \/ Commit \/ Committed
  \/ Reload \/ Save \/ Publish \/ Published \/ Update \/ Updated

Next ==
  \/ Step \/ Boot \/ Work \/ Refuse
  \/ \E r \in Requests, k \in Kinds : Receive(r, k)
  \/ ReaderRecover \/ ReaderDone
  \/ Fail \/ PublishFails \/ Crash \/ PowerLoss

Spec == Init /\ [][Next]_vars
(* The holder of the mutex keeps running, and the process is started again *)
(* after it went down.  Strong fairness of the worker is the mutex's: a    *)
(* goroutine that waits for a sync.Mutex is passed over only finitely      *)
(* often.  Clients, readers and failures owe nothing.                      *)
FairSpec ==
  Spec /\ WF_vars(Step) /\ WF_vars(Boot) /\ WF_vars(ReaderDone)
       /\ SF_vars(Work \/ Refuse)
-----------------------------------------------------------------------------
Contents == {Absent} \cup Seq(Requests)
IsIndex(i) == DOMAIN i \subseteq Requests /\ i \in Indexes(DOMAIN i)
IsJob(j)   == j \in Jobs(DOMAIN j.index) /\ IsIndex(j.index)
IsDisk(d) ==
  /\ d = [f \in Files |-> d[f]]
  /\ d["txn"] = Absent \/ IsJob(d["txn"])
  /\ d["events"] \in Contents /\ d["checkpoint"] \in Contents
  /\ d["requests"] = Absent \/ IsIndex(d["requests"])

(* Files, mutex and worker stay within their types, and a holder of the    *)
(* mutex is there whenever file operations are pending (commit.go:59-65).  *)
TypeOK ==
  /\ disk \in survivors /\ \A d \in survivors : IsDisk(d)
  /\ up \in BOOLEAN /\ quarantined \in BOOLEAN
  /\ holder \in {"nobody", "worker", "reader", "boot"} /\ IsJob(job)
  /\ \E p \in {CommitPlan, ApplyPlan, UpdatePlan} : plan \in Suffixes(p)
  /\ plan # <<>> => holder # "nobody"
  /\ phase \in {"idle", "lookup", "load", "decided", "committing", "reload",
                "save", "publish", "published", "update", "updating"}
  /\ document \in documents /\ documents \subseteq Contents
  /\ request \in Requests \cup {NoRequest} /\ kind \in Kinds
  /\ seen \in Seq(Requests) /\ acked \subseteq Requests \X Kinds

(* What recovery makes of the files a failure leaves.                      *)
Recovered(d) ==
  IF d["txn"] = Absent THEN d
  ELSE [txn |-> Absent, events |-> d["txn"].log, requests |-> d["txn"].index,
        checkpoint |-> d["txn"].log]

(* Whatever moment the process dies or the power fails at, the case that   *)
(* recovery rebuilds loads: it is not quarantined for what a crash left    *)
(* (commit.go:19-57, events.go:79-92).                                     *)
CrashLeavesLoadableCase ==
  \A d \in survivors : Consistent(Recovered(d))

(* A request a client knows to have succeeded is in the case, and in its   *)
(* index, after any crash or power loss (commit.go:114-129).               *)
AckedSurvive ==
  \A d \in survivors : \A a \in acked :
    /\ Contains(LogOf(Recovered(d)), a[1])
    /\ a[1] \in DOMAIN IndexOf(Recovered(d))

(* Once a response carries the archive digest, no crash, recovery of an    *)
(* older transaction or failed retry takes it out again; only a power loss *)
(* before the directory was synced may (idempotency.go:43-70,              *)
(* commit.go:39-56).                                                       *)
ArchiveDigestKept ==
  [][\/ \A r \in DOMAIN IndexOf(disk) : IndexOf(disk)[r].archived =>
          r \in DOMAIN IndexOf(disk') /\ IndexOf(disk')[r].archived
     \/ PowerLoss]_vars

(* A response that carries the archive digest has its document, with the   *)
(* event of the request in it, after any crash or power loss, though the   *)
(* two lie in different directories; the code would not write it again     *)
(* (service.go:53,157-165, archive/service.go:71-81,225-234).              *)
ArchivedHasDocument ==
  \A d \in survivors, a \in documents :
    LET index == IndexOf(Recovered(d))
    IN \A r \in DOMAIN index :
         index[r].archived => a # Absent /\ Contains(a, r)

(* However often a request is sent, and whatever fails in between, its     *)
(* event is appended once, and the index tells its revision                *)
(* (commit.go:77-101).                                                     *)
ExactlyOnce ==
  \A d \in survivors :
    LET log   == LogOf(Recovered(d))
        index == IndexOf(Recovered(d))
    IN /\ DOMAIN index = {log[k] : k \in DOMAIN log}
       /\ \A k \in DOMAIN log : index[log[k]].revision = k

(* The log a decision is made on is already safe: no power loss can take   *)
(* back what a command was judged against.                                 *)
DecisionsRestOnDurableLog ==
  phase = "decided" =>
    \A d \in survivors : IsPrefix(seen, LogOf(Recovered(d)))

(* A request that reached the worker is answered or fails: nobody waits    *)
(* for the mutex for ever (store.go:40-43, mailbox.go:47-57).              *)
RequestsEnd == (phase # "idle") ~> (phase = "idle")

(* The log that is sure to survive.                                        *)
SafeLog ==
  LET logs == {LogOf(Recovered(d)) : d \in survivors}
  IN CHOOSE l \in logs : \A m \in logs : Len(l) <= Len(m)

Promise == INSTANCE CommitLog WITH log <- SafeLog, acked <- {a[1] : a \in acked}

(* The files implement an append-only log without repetitions.             *)
CommitLogSpec == Promise!Spec
=============================================================================
