---------------------------- MODULE StoreProofs ----------------------------
(***************************************************************************)
(* CaseStore, for every set of requests: whatever crashes, power losses    *)
(* and failing file operations do to the files of a case, it loads, holds  *)
(* each request once and keeps what a client was told, and the files       *)
(* implement CommitLog.                                                    *)
(***************************************************************************)
EXTENDS CaseStore, SequenceTheorems, TLAPS

(* The log and the index recovery makes of a directory.                    *)
RLog(d)   == LogOf(Recovered(d))
RIndex(d) == IndexOf(Recovered(d))

(* The requests of a log are those of an index, which tells the position.  *)
Tied(log, index) ==
  /\ DOMAIN index = {log[k] : k \in DOMAIN log}
  /\ \A k \in DOMAIN log : index[log[k]].revision = k

(* A directory without a pending transaction is at rest; one with it       *)
(* recovers to what its index has, and perhaps to more.                    *)
Sound(d) ==
  /\ d["txn"] = Absent => d["checkpoint"] = d["events"]
  /\ Tied(RLog(d), RIndex(d))
  /\ \A r \in DOMAIN IndexOf(d) :
       r \in DOMAIN RIndex(d) /\ (IndexOf(d)[r].archived => RIndex(d)[r].archived)

(* A power loss takes back at most the transaction still pending.          *)
Behind(d) ==
  \/ RLog(d) = RLog(disk)
  \/ /\ disk["txn"] # Absent
     /\ \E r \in Requests : RLog(disk) = Append(RLog(d), r)

Covers(d) == DOMAIN IndexOf(disk) \subseteq DOMAIN RIndex(d)

DiskInv == \A d \in survivors : Sound(d) /\ Behind(d) /\ Covers(d)

(* What no failure takes out of the case.                                  *)
Recorded(r) == \A d \in survivors : r \in DOMAIN RIndex(d)

AckInv == \A a \in acked : Recorded(a[1])

(* A response that carries the archive digest has its document.            *)
InDocument(r) == \A a \in documents : a # Absent /\ Contains(a, r)

DigestInv ==
  \A d \in survivors : \A r \in DOMAIN RIndex(d) :
    RIndex(d)[r].archived => InDocument(r)

Asked == phase # "idle" => request \in Requests

(* How far the worker has come tells what is on disk.                      *)
PhaseInv ==
  /\ phase \in {"committing", "updating"} => holder = "worker"
  /\ phase \in {"decided", "publish", "published", "update", "updating"} =>
       disk["txn"] = Absent
  /\ phase \in {"decided", "publish", "published"} => seen = LogOf(disk)
  /\ phase = "published" => document = seen
  /\ phase \in {"update", "updating"} => InDocument(request)
  /\ phase = "committing" /\ plan = <<>> =>
       disk["txn"] = Absent /\ request \in DOMAIN IndexOf(disk)
  /\ phase \in {"reload", "save", "publish", "published", "update", "updating"} =>
       Recorded(request)

(* What is left of ApplyPlan, and what it has done by then.                *)
Left == {ApplyPlan,
         <<"sync", "requests", "sync", "checkpoint", "sync", "remove">>,
         <<"requests", "sync", "checkpoint", "sync", "remove">>,
         <<"sync", "checkpoint", "sync", "remove">>,
         <<"checkpoint", "sync", "remove">>,
         <<"sync", "remove">>,
         <<"remove">>}
Applied(n) ==
  /\ n <= 6 => disk["events"] = job.log
  /\ n <= 5 => \A d \in survivors : RLog(d) = job.log
  /\ n <= 4 => disk["requests"] = job.index
  /\ n <= 2 => disk["checkpoint"] = job.log

Committing ==
  /\ plan = CommitPlan /\ phase = "committing" /\ disk["txn"] = Absent
  /\ request \notin DOMAIN IndexOf(disk)
  /\ job = [log |-> Append(LogOf(disk), request),
            index |-> Enter(IndexOf(disk), request,
              [revision |-> Len(LogOf(disk)) + 1, archived |-> FALSE])]
Applying ==
  /\ plan \in Left \cup {<<"sync">> \o ApplyPlan} /\ disk["txn"] = job
  /\ Applied(Len(plan))
  /\ phase = "committing" => request \in DOMAIN job.index
Updating ==
  /\ plan = UpdatePlan /\ phase = "updating"
  /\ request \in DOMAIN IndexOf(disk)
  /\ job.index = [IndexOf(disk) EXCEPT ![request].archived = TRUE]
Closing == plan = <<"sync">> /\ phase = "updating"

PlanInv == plan = <<>> \/ Committing \/ Applying \/ Updating \/ Closing

StoreInv ==
  TypeOK /\ Asked /\ DiskInv /\ AckInv /\ DigestInv /\ PhaseInv /\ PlanInv
-----------------------------------------------------------------------------
(* Types                                                                   *)

(* What recovery makes of a well-formed directory is well-formed.          *)
LEMMA DiskTypes ==
  ASSUME NEW d, IsDisk(d)
  PROVE  /\ LogOf(d) \in Seq(Requests) /\ IsIndex(IndexOf(d))
         /\ RLog(d) \in Seq(Requests) /\ IsIndex(RIndex(d))
         /\ d["txn"] = Absent => RLog(d) = LogOf(d) /\ RIndex(d) = IndexOf(d)
         /\ d["txn"] # Absent =>
              /\ RLog(d) = d["txn"].log /\ RIndex(d) = d["txn"].index
              /\ Recovered(d)["checkpoint"] = Recovered(d)["events"]
<1>1. IsIndex(EmptyIndex)
  BY DEF EmptyIndex, IsIndex, Indexes, Entry
<1>2. LogOf(d) \in Seq(Requests) /\ IsIndex(IndexOf(d))
  BY <1>1 DEF IsDisk, LogOf, IndexOf, Contents
<1>3. CASE d["txn"] = Absent
  BY <1>2, <1>3 DEF RLog, RIndex, Recovered
<1>4. CASE d["txn"] # Absent
  <2>1. IsJob(d["txn"])
    BY <1>4 DEF IsDisk
  <2> DEFINE j == d["txn"]
             R == Recovered(d)
  <2>2. R["events"] = j.log /\ R["requests"] = j.index /\ R["checkpoint"] = j.log
    BY <1>4 DEF Recovered
  <2>3. j.log \in Seq(Requests) /\ IsIndex(j.index)
    BY <2>1 DEF IsJob, Jobs
  <2>4. j.log # Absent /\ j.index # Absent
    BY <2>3, AbsentAssumption DEF IsIndex
  <2>5. RLog(d) = j.log /\ RIndex(d) = j.index
    BY <2>2, <2>4 DEF RLog, RIndex, LogOf, IndexOf
  <2>6. QED
    BY <1>2, <1>4, <2>2, <2>3, <2>5
<1>5. QED
  BY <1>3, <1>4

(* A rename changes one file.                                              *)
LEMMA Renamed ==
  ASSUME NEW d, IsDisk(d), NEW f \in Files, NEW c,
         NEW e, e = [d EXCEPT ![f] = c]
  PROVE  /\ e[f] = c /\ \A g \in Files \ {f} : e[g] = d[g]
         /\ e = [g \in Files |-> e[g]]
BY DEF IsDisk

(* What is left of a list of file operations as they are done.             *)
Steps == {"txn", "events", "requests", "checkpoint", "remove", "sync"}
Plans == {CommitPlan, ApplyPlan, UpdatePlan}

LEMMA PlanTypes == Plans \subseteq Seq(Steps) /\ \A p \in Plans : p # <<>>
<1>1. ApplyPlan \in Seq(Steps) /\ UpdatePlan \in Seq(Steps)
  BY DEF ApplyPlan, UpdatePlan, Steps
<1>2. <<"txn", "sync">> \in Seq(Steps)
  BY DEF Steps
<1>3. CommitPlan \in Seq(Steps) /\ CommitPlan # <<>>
  BY <1>1, <1>2, ConcatProperties DEF CommitPlan
<1>4. ApplyPlan # <<>> /\ UpdatePlan # <<>>
  BY DEF ApplyPlan, UpdatePlan
<1>5. QED
  BY <1>1, <1>3, <1>4 DEF Plans

LEMMA SuffixEnds == \A p \in Plans : p \in Suffixes(p) /\ <<>> \in Suffixes(p)
<1> TAKE p \in Plans
<1>1. p \in Seq(Steps) /\ p # <<>>
  BY PlanTypes
<1>2. p = SubSeq(p, 1, Len(p)) /\ 1 \in 1..Len(p)
  BY <1>1
<1>3. QED
  BY <1>2 DEF Suffixes

LEMMA SuffixStep ==
  ASSUME NEW p \in Plans, NEW s \in Suffixes(p), s # <<>>
  PROVE  Tail(s) \in Suffixes(p) /\ Head(s) \in Steps
<1>1. p \in Seq(Steps) /\ p # <<>>
  BY PlanTypes
<1>2. PICK l \in 1..Len(p) : s = SubSeq(p, l, Len(p))
  BY DEF Suffixes
<1>3. Head(s) = p[l] /\ Tail(s) = SubSeq(p, l + 1, Len(p))
  BY <1>1, <1>2
<1>4. p[l] \in Steps
  BY <1>1
<1>5. CASE l = Len(p)
  <2>1. SubSeq(p, l + 1, Len(p)) = <<>>
    BY <1>1, <1>5
  <2>2. QED
    BY <1>3, <1>4, <2>1 DEF Suffixes
<1>6. CASE l # Len(p)
  <2>1. l + 1 \in 1..Len(p)
    BY <1>1, <1>6
  <2>2. QED
    BY <1>3, <1>4, <2>1 DEF Suffixes
<1>7. QED
  BY <1>5, <1>6

(* A job adds one entry, or completes one, of a well-formed index.         *)
LEMMA Entered ==
  ASSUME NEW i, IsIndex(i), NEW r \in Requests, NEW entry \in Entry
  PROVE  IsIndex(Enter(i, r, entry))
BY DEF Enter, IsIndex, Indexes

LEMMA Completed ==
  ASSUME NEW i, IsIndex(i), NEW r \in DOMAIN i
  PROVE  /\ IsIndex([i EXCEPT ![r].archived = TRUE])
         /\ DOMAIN [i EXCEPT ![r].archived = TRUE] = DOMAIN i
         /\ \A q \in DOMAIN i :
              /\ [i EXCEPT ![r].archived = TRUE][q].revision = i[q].revision
              /\ q # r =>
                   [i EXCEPT ![r].archived = TRUE][q].archived = i[q].archived
              /\ i[q].archived => [i EXCEPT ![r].archived = TRUE][q].archived
<1> DEFINE e == [i EXCEPT ![r].archived = TRUE]
<1>1. i = [q \in DOMAIN i |-> i[q]] /\ \A q \in DOMAIN i : i[q] \in Entry
  BY DEF IsIndex, Indexes
<1>2. /\ DOMAIN e = DOMAIN i
      /\ \A q \in DOMAIN i : e[q] = IF q = r THEN [i[r] EXCEPT !.archived = TRUE]
                                    ELSE i[q]
  BY <1>1
<1>3. /\ [i[r] EXCEPT !.archived = TRUE] \in Entry
      /\ [i[r] EXCEPT !.archived = TRUE].revision = i[r].revision
      /\ [i[r] EXCEPT !.archived = TRUE].archived
  BY <1>1 DEF Entry
<1>4. e = [q \in DOMAIN i |-> e[q]]
  BY <1>1
<1> HIDE DEF e
<1>5. e \in [DOMAIN i -> Entry]
  BY <1>1, <1>2, <1>3, <1>4
<1>6. IsIndex(e)
  BY <1>2, <1>5 DEF IsIndex, Indexes
<1>7. QED
  BY <1>2, <1>3, <1>6 DEF e

LEMMA JobTyped ==
  ASSUME NEW l \in Seq(Requests), NEW i, IsIndex(i)
  PROVE  /\ IsJob([log |-> l, index |-> i])
         /\ [log |-> l, index |-> i].log = l /\ [log |-> l, index |-> i].index = i
<1>1. [log |-> l, index |-> i].log = l /\ [log |-> l, index |-> i].index = i
  OBVIOUS
<1>2. i \in Indexes(DOMAIN i)
  BY DEF IsIndex
<1>3. [log |-> l, index |-> i] \in Jobs(DOMAIN i)
  BY <1>2 DEF Jobs
<1>4. QED
  BY <1>1, <1>3 DEF IsJob

(* The parts of TypeOK.                                                    *)
DiskTyped  == disk \in survivors /\ \A d \in survivors : IsDisk(d)
MutexTyped ==
  /\ holder \in {"nobody", "worker", "reader", "boot"} /\ IsJob(job)
  /\ \E p \in Plans : plan \in Suffixes(p)
  /\ plan # <<>> => holder # "nobody"
WorkerTyped ==
  /\ up \in BOOLEAN /\ quarantined \in BOOLEAN
  /\ phase \in {"idle", "lookup", "load", "decided", "committing", "reload",
                "save", "publish", "published", "update", "updating"}
  /\ request \in Requests \cup {NoRequest} /\ kind \in Kinds
  /\ seen \in Seq(Requests) /\ acked \subseteq Requests \X Kinds
DocumentTyped == document \in documents /\ documents \subseteq Contents

LEMMA TypeParts == TypeOK <=> DiskTyped /\ MutexTyped /\ WorkerTyped /\ DocumentTyped
BY DEF TypeOK, DiskTyped, MutexTyped, WorkerTyped, DocumentTyped, Plans

(* The worker and those who recover touch no file but in Step.             *)
LEMMA DisksChange == [Next]_vars => Step \/ PowerLoss \/ UNCHANGED <<disk, survivors>>
BY DEF Next, Boot, BootRecover, BootDone, Work, Receive, Lookup, LoadRecover, Load, Commit,
       Committed, Reload, Save, Publish, Published, Update, Updated, Refuse,
       ReaderRecover, ReaderDone, Fail, PublishFails, Crash, vars, disks

LEMMA StepWrites ==
  ASSUME MutexTyped, Step
  PROVE  /\ plan # <<>> /\ plan' = Tail(plan) /\ Head(plan) \in Steps
         /\ UNCHANGED <<archives, up, quarantined, holder, job, worker, acked>>
         /\ \/ Head(plan) = "sync" /\ SyncDir
            \/ Head(plan) = "txn" /\ Rename("txn", job)
            \/ Head(plan) = "events" /\ Rename("events", job.log)
            \/ Head(plan) = "requests" /\ Rename("requests", job.index)
            \/ Head(plan) = "checkpoint" /\ Rename("checkpoint", job.log)
            \/ Head(plan) = "remove" /\ Rename("txn", Absent)
<1>1. Head(plan) \in Steps
  BY SuffixStep DEF MutexTyped, Step
<1>2. plan # <<>> /\ plan' = Tail(plan) /\ Perform(Head(plan))
      /\ UNCHANGED <<up, quarantined, holder, job, worker, acked>>
  BY DEF Step
<1>3. /\ Head(plan) = "sync" => SyncDir
      /\ Head(plan) = "txn" => Rename("txn", job)
      /\ Head(plan) = "events" => Rename("events", job.log)
      /\ Head(plan) = "requests" => Rename("requests", job.index)
      /\ Head(plan) = "checkpoint" => Rename("checkpoint", job.log)
      /\ Head(plan) = "remove" => Rename("txn", Absent)
  BY <1>2 DEF Perform
<1>4. UNCHANGED archives
  BY <1>1, <1>3 DEF Steps, Rename, SyncDir
<1>5. QED
  BY <1>1, <1>2, <1>3, <1>4 DEF Steps

LEMMA StepTypesDisk == TypeOK /\ [Next]_vars => DiskTyped'
<1> SUFFICES ASSUME TypeOK, [Next]_vars
             PROVE  DiskTyped'
  OBVIOUS
<1>1. DiskTyped /\ MutexTyped
  BY TypeParts
<1>2. IsDisk(disk)
  BY <1>1 DEF DiskTyped
<1>3. ASSUME NEW f \in Files, NEW c, Rename(f, c),
             /\ f = "txn" => c = Absent \/ IsJob(c)
             /\ f \in {"events", "checkpoint"} => c \in Seq(Requests)
             /\ f = "requests" => IsIndex(c)
      PROVE  DiskTyped'
  <2>1. disk' = [disk EXCEPT ![f] = c] /\ survivors' = survivors \cup {disk'}
    BY <1>3 DEF Rename
  <2>2. /\ disk'[f] = c /\ \A g \in Files \ {f} : disk'[g] = disk[g]
        /\ disk' = [g \in Files |-> disk'[g]]
    BY <1>2, <2>1 DEF IsDisk
  <2>3. IsDisk(disk')
    BY <1>2, <1>3, <2>2 DEF IsDisk, Files, Contents
  <2>4. QED
    BY <1>1, <2>1, <2>3 DEF DiskTyped
<1>4. CASE Step
  <2>1. IsJob(job) /\ job.log \in Seq(Requests) /\ IsIndex(job.index)
    BY <1>1 DEF MutexTyped, IsJob, Jobs
  <2>2. CASE SyncDir
    BY <1>1, <2>2 DEF SyncDir, DiskTyped
  <2>3. QED
    BY <1>1, <1>3, <1>4, <2>1, <2>2, StepWrites DEF Files
<1>5. CASE PowerLoss
  BY <1>1, <1>5 DEF PowerLoss, DiskTyped
<1>6. QED
  BY <1>1, <1>4, <1>5, DisksChange DEF DiskTyped

(* What the mutex is taken for, and what it is released to.                *)
LEMMA Taken ==
  ASSUME holder' \in {"worker", "reader", "boot"}, plan' \in Plans, IsJob(job)'
  PROVE  MutexTyped'
BY SuffixEnds DEF MutexTyped

LEMMA Released == Release => MutexTyped'
<1>1. IsIndex(EmptyIndex) /\ <<>> \in Seq(Requests)
  BY DEF EmptyIndex, IsIndex, Indexes, Entry
<1>2. IsJob(NoJob)
  BY <1>1, JobTyped DEF NoJob
<1>3. <<>> \in Suffixes(CommitPlan) /\ CommitPlan \in Plans
  BY SuffixStep DEF Suffixes, Plans
<1>4. QED
  BY <1>2, <1>3 DEF Release, MutexTyped

(* The job of a commit and that of the completion of a response.           *)
LEMMA CommitJob ==
  ASSUME TypeOK, Asked, phase = "decided"
  PROVE  LET j == [log |-> Append(LogOf(disk), request),
                   index |-> Enter(IndexOf(disk), request,
                     [revision |-> Len(LogOf(disk)) + 1, archived |-> FALSE])]
         IN IsJob(j)
<1>1. request \in Requests
  BY DEF Asked
<1>2. IsDisk(disk)
  BY DEF TypeOK
<1>3. LogOf(disk) \in Seq(Requests) /\ IsIndex(IndexOf(disk))
  BY <1>2, DiskTypes
<1>4. [revision |-> Len(LogOf(disk)) + 1, archived |-> FALSE] \in Entry
  BY <1>3, LenProperties DEF Entry
<1>5. Append(LogOf(disk), request) \in Seq(Requests)
  BY <1>1, <1>3, AppendProperties
<1>6. IsIndex(Enter(IndexOf(disk), request,
                [revision |-> Len(LogOf(disk)) + 1, archived |-> FALSE]))
  BY <1>1, <1>3, <1>4, Entered
<1>7. QED
  BY <1>5, <1>6, JobTyped

LEMMA UpdateJob ==
  ASSUME TypeOK, request \in DOMAIN IndexOf(disk)
  PROVE  IsJob([log |-> LogOf(disk),
                index |-> [IndexOf(disk) EXCEPT ![request].archived = TRUE]])
<1>1. LogOf(disk) \in Seq(Requests) /\ IsIndex(IndexOf(disk))
  BY DiskTypes DEF TypeOK
<1>2. IsIndex([IndexOf(disk) EXCEPT ![request].archived = TRUE])
  BY <1>1, Completed
<1>3. QED
  BY <1>1, <1>2, JobTyped

(* Every step leaves the mutex alone, takes it with a job, releases it or  *)
(* does what it was taken for.                                             *)
LEMMA StepTypesMutex == TypeOK /\ Asked /\ [Next]_vars => MutexTyped'
<1> SUFFICES ASSUME TypeOK, Asked, [Next]_vars
             PROVE  MutexTyped'
  OBVIOUS
<1>1. MutexTyped /\ IsDisk(disk)
  BY TypeParts DEF DiskTyped
<1>2. CASE UNCHANGED mutex
  BY <1>1, <1>2 DEF MutexTyped, mutex
<1>3. CASE Release
  BY <1>3, Released
<1>4. CASE Step
  <2>1. plan # <<>> /\ plan' = Tail(plan) /\ UNCHANGED <<holder, job>>
    BY <1>1, <1>4, StepWrites
  <2>2. PICK p \in Plans : plan \in Suffixes(p)
    BY <1>1 DEF MutexTyped
  <2>3. Tail(plan) \in Suffixes(p)
    BY <2>1, <2>2, SuffixStep
  <2>4. QED
    BY <1>1, <2>1, <2>3 DEF MutexTyped
<1>5. ASSUME NEW who \in {"worker", "reader", "boot"}, Recover(who)
      PROVE  MutexTyped'
  <2>1. IsJob(disk["txn"]) /\ ApplyPlan \in Plans
    BY <1>1, <1>5 DEF IsDisk, Recover, Plans
  <2>2. QED
    BY <1>5, <2>1, Taken DEF Recover, Take
<1>6. CASE Commit
  <2>1. CASE AlreadyIn(IndexOf(disk))
    BY <1>2, <1>6, <2>1 DEF Commit
  <2>2. CASE ~AlreadyIn(IndexOf(disk))
    <3>1. CommitPlan \in Plans /\ phase = "decided"
      BY <1>6 DEF Plans, Commit
    <3>2. QED
      BY <1>6, <2>2, <3>1, CommitJob, Taken DEF Commit, Take
  <2>3. QED
    BY <2>1, <2>2
<1>7. CASE Update
  <2>1. UpdatePlan \in Plans /\ request \in DOMAIN IndexOf(disk)
    BY <1>7 DEF Plans, Update
  <2>2. QED
    BY <1>7, <2>1, UpdateJob, Taken DEF Update, Take
<1>8. QED
  BY <1>2, <1>3, <1>4, <1>5, <1>6, <1>7
     DEF Next, Boot, BootRecover, BootDone, Work, Receive, Lookup, LoadRecover, Load,
         Committed, Reload, Save, Publish, Published, Updated, Refuse,
         ReaderRecover, ReaderDone, Fail, PublishFails, Crash, PowerLoss, Down, vars

LEMMA StepTypesWorker ==
  TypeOK /\ Asked /\ [Next]_vars => WorkerTyped' /\ Asked'
<1> SUFFICES ASSUME TypeOK, Asked, [Next]_vars
             PROVE  WorkerTyped' /\ Asked'
  OBVIOUS
<1>1. WorkerTyped /\ MutexTyped /\ LogOf(disk) \in Seq(Requests)
  BY TypeParts, DiskTypes DEF DiskTyped
<1>2. CASE UNCHANGED <<worker, up, quarantined, acked>>
  BY <1>1, <1>2 DEF WorkerTyped, Asked, worker
<1>3. CASE Idle /\ UNCHANGED <<up, quarantined, acked>>
  BY <1>1, <1>3 DEF Idle, WorkerTyped, Asked, Kinds
<1>4. ASSUME Answer(kind), phase # "idle", UNCHANGED <<up, quarantined>>
      PROVE  WorkerTyped' /\ Asked'
  <2>1. request \in Requests /\ kind \in Kinds
    BY <1>1, <1>4 DEF Asked, WorkerTyped
  <2>2. acked' \subseteq Requests \X Kinds
    BY <1>1, <1>4, <2>1 DEF Answer, WorkerTyped
  <2>3. QED
    BY <1>1, <1>4, <2>2 DEF Answer, Idle, WorkerTyped, Asked, Kinds
<1>5. ASSUME NEW p \in {"load", "save", "reload", "committing", "publish", "published",
                        "update", "updating"},
             phase # "idle", Goto(p), UNCHANGED <<up, quarantined, acked>>
      PROVE  WorkerTyped' /\ Asked'
  BY <1>1, <1>5 DEF Goto, WorkerTyped, Asked
<1>6. ASSUME NEW r \in Requests, NEW k \in Kinds, Receive(r, k)
      PROVE  WorkerTyped' /\ Asked'
  BY <1>1, <1>6 DEF Receive, WorkerTyped, Asked
<1>7. CASE Load
  BY <1>1, <1>7 DEF Load, WorkerTyped, Asked
<1>8. CASE Save
  BY <1>1, <1>8 DEF Save, WorkerTyped, Asked
<1>9. CASE Lookup
  BY <1>4, <1>5, <1>9 DEF Lookup
<1>10. CASE Commit \/ Committed
  BY <1>5, <1>10 DEF Commit, Committed
<1>11. CASE Reload
  BY <1>4, <1>5, <1>11 DEF Reload
<1>12. CASE Publish \/ Published
  BY <1>5, <1>12 DEF Publish, Published
<1>13. CASE Update
  BY <1>5, <1>13 DEF Update
<1>14. CASE Updated
  BY <1>4, <1>14 DEF Updated
<1>15. CASE Refuse \/ PublishFails
  BY <1>3, <1>15 DEF Refuse, PublishFails
<1>16. CASE BootDone
  BY <1>1, <1>16 DEF BootDone, WorkerTyped, Asked, worker
<1>17. CASE Fail
  <2>1. up' \in BOOLEAN /\ quarantined' \in BOOLEAN /\ UNCHANGED acked
    BY <1>1, <1>17 DEF Fail, WorkerTyped
  <2>2. CASE Idle
    BY <1>1, <2>1, <2>2 DEF Idle, WorkerTyped, Asked, Kinds
  <2>3. CASE UNCHANGED worker
    BY <1>1, <2>1, <2>3 DEF worker, WorkerTyped, Asked
  <2>4. QED
    BY <1>17, <2>2, <2>3 DEF Fail
<1>18. CASE Crash \/ PowerLoss
  <2>1. up' \in BOOLEAN /\ quarantined' \in BOOLEAN /\ UNCHANGED acked /\ Idle
    BY <1>18 DEF Crash, PowerLoss, Down
  <2>2. QED
    BY <1>1, <2>1 DEF Idle, WorkerTyped, Asked, Kinds
<1>19. CASE Step
  BY <1>1, <1>2, <1>19, StepWrites
<1>20. QED
  BY <1>2, <1>6, <1>7, <1>8, <1>9, <1>10, <1>11, <1>12, <1>13, <1>14, <1>15, <1>16,
     <1>17, <1>18, <1>19
     DEF Next, Boot, BootRecover, Work, LoadRecover, ReaderRecover, ReaderDone, vars

LEMMA StepTypesDocument == TypeOK /\ [Next]_vars => DocumentTyped'
<1> SUFFICES ASSUME TypeOK, [Next]_vars
             PROVE  DocumentTyped'
  OBVIOUS
<1>1. DocumentTyped /\ MutexTyped /\ seen \in Seq(Requests)
  BY TypeParts DEF WorkerTyped
<1>2. CASE UNCHANGED archives
  BY <1>1, <1>2 DEF DocumentTyped, archives
<1>3. CASE Publish
  BY <1>1, <1>3 DEF Publish, DocumentTyped, Contents
<1>4. CASE Published
  BY <1>1, <1>4 DEF Published, SyncArchives, DocumentTyped
<1>5. CASE PowerLoss
  BY <1>1, <1>5 DEF PowerLoss, DocumentTyped
<1>6. CASE Step
  BY <1>1, <1>2, <1>6, StepWrites
<1>7. QED
  BY <1>2, <1>3, <1>4, <1>5, <1>6
     DEF Next, Boot, BootRecover, BootDone, Work, Receive, Lookup, LoadRecover, Load,
         Commit, Committed, Reload, Save, Update, Updated, Refuse,
         ReaderRecover, ReaderDone, Fail, PublishFails, Crash, vars, disks

LEMMA InitTyped == Init => TypeOK /\ Asked
<1> SUFFICES ASSUME Init
             PROVE  TypeOK /\ Asked
  OBVIOUS
<1>1. IsIndex(EmptyIndex) /\ <<>> \in Seq(Requests)
  BY DEF EmptyIndex, IsIndex, Indexes, Entry
<1>2. IsJob(NoJob)
  BY <1>1, JobTyped DEF NoJob
<1>3. IsDisk(Empty)
  BY DEF IsDisk, Empty, Files, Contents
<1>4. DiskTyped /\ DocumentTyped
  BY <1>3 DEF Init, DiskTyped, DocumentTyped, Contents
<1>5. MutexTyped
  BY <1>2, SuffixEnds DEF Init, MutexTyped, Plans
<1>6. WorkerTyped /\ Asked
  BY <1>1 DEF Init, WorkerTyped, Asked, Kinds
<1>7. QED
  BY <1>4, <1>5, <1>6, TypeParts

LEMMA StepTyped == TypeOK /\ Asked /\ [Next]_vars => TypeOK' /\ Asked'
<1> SUFFICES ASSUME TypeOK, Asked, [Next]_vars
             PROVE  TypeOK' /\ Asked'
  OBVIOUS
<1>1. DiskTyped' /\ MutexTyped' /\ WorkerTyped' /\ DocumentTyped' /\ Asked'
  BY StepTypesDisk, StepTypesMutex, StepTypesWorker, StepTypesDocument
<1>2. QED
  BY <1>1 DEF TypeOK, DiskTyped, MutexTyped, WorkerTyped, DocumentTyped, Plans

(* Files, mutex and worker keep their types, and pending file operations   *)
(* always have a holder (store.go:40-43, commit.go:59-65).                 *)
THEOREM StoreTyping == Spec => []TypeOK
<1>1. Init => TypeOK /\ Asked
  BY InitTyped
<1>2. TypeOK /\ Asked /\ [Next]_vars => (TypeOK /\ Asked)'
  BY StepTyped
<1>3. QED
  BY <1>1, <1>2, PTL DEF Spec
-----------------------------------------------------------------------------
(* What one rename does to a directory                                     *)

(* Two indexes of one log have the same requests.                          *)
LEMMA TiedTogether ==
  ASSUME NEW l, NEW m, NEW i, NEW j, Tied(l, i), Tied(m, j), l = m
  PROVE  DOMAIN i = DOMAIN j
BY DEF Tied

(* No log an index is tied to has a request twice.                         *)
LEMMA TiedDistinct ==
  ASSUME NEW l, NEW i, Tied(l, i), NEW k \in DOMAIN l, NEW n \in DOMAIN l, l[k] = l[n]
  PROVE  k = n
BY DEF Tied

LEMMA TiedContains ==
  ASSUME NEW l \in Seq(Requests), NEW i, Tied(l, i), NEW r
  PROVE  r \in DOMAIN i <=> Contains(l, r)
<1>1. DOMAIN l = 1..Len(l)
  BY LenProperties
<1>2. QED
  BY <1>1 DEF Tied, Contains

(* Applying a transaction: the other files do not count.                   *)
LEMMA AppliedFile ==
  ASSUME NEW d, NEW e, IsDisk(d), IsDisk(e), Sound(d), d["txn"] # Absent,
         NEW f \in {"events", "requests", "checkpoint"},
         \A g \in Files \ {f} : e[g] = d[g],
         f = "requests" => e[f] = d["txn"].index
  PROVE  /\ RLog(e) = RLog(d) /\ RIndex(e) = RIndex(d) /\ e["txn"] = d["txn"]
         /\ Sound(e)
<1>1. e["txn"] = d["txn"]
  BY DEF Files
<1>2. RLog(e) = RLog(d) /\ RIndex(e) = RIndex(d)
  BY <1>1, DiskTypes
<1>3. IndexOf(e) = IndexOf(d) \/ IndexOf(e) = RIndex(e)
  <2>1. CASE f = "requests"
    <3>1. IsJob(d["txn"])
      BY DEF IsDisk
    <3>2. d["txn"].index # Absent
      BY <3>1, AbsentAssumption DEF IsJob, IsIndex
    <3>3. QED
      BY <1>2, <2>1, <3>2, DiskTypes DEF IndexOf
  <2>2. CASE f # "requests"
    BY <2>2 DEF IndexOf, Files
  <2>3. QED
    BY <2>1, <2>2
<1>4. QED
  BY <1>1, <1>2, <1>3 DEF Sound

(* Removing the transaction that has been applied.                         *)
LEMMA RemovedTxn ==
  ASSUME NEW d, NEW e, IsDisk(d), IsDisk(e), Sound(d), d["txn"] # Absent,
         e["txn"] = Absent, \A g \in Files \ {"txn"} : e[g] = d[g],
         d["events"] = d["txn"].log, d["requests"] = d["txn"].index,
         d["checkpoint"] = d["txn"].log
  PROVE  /\ RLog(e) = RLog(d) /\ RIndex(e) = RIndex(d)
         /\ IndexOf(e) = IndexOf(d) /\ IndexOf(d) = RIndex(d)
         /\ Sound(e)
<1>1. e["events"] = d["events"] /\ e["requests"] = d["requests"]
      /\ e["checkpoint"] = d["checkpoint"]
  BY DEF Files
<1>2. IsJob(d["txn"])
  BY DEF IsDisk
<1>3. d["txn"].index # Absent /\ d["txn"].log # Absent
  BY <1>2, AbsentAssumption DEF IsJob, IsIndex, Jobs
<1>4. IndexOf(e) = IndexOf(d) /\ IndexOf(d) = d["txn"].index
      /\ LogOf(e) = LogOf(d) /\ LogOf(d) = d["txn"].log
  BY <1>1, <1>3 DEF IndexOf, LogOf
<1>5. RLog(e) = RLog(d) /\ RIndex(e) = RIndex(d) /\ IndexOf(d) = RIndex(d)
  BY <1>4, DiskTypes
<1>6. QED
  BY <1>1, <1>4, <1>5 DEF Sound

(* The transaction of a new request.                                       *)
LEMMA BegunTxn ==
  ASSUME NEW d, NEW e, IsDisk(d), IsDisk(e), Sound(d), d["txn"] = Absent,
         NEW r \in Requests, r \notin DOMAIN IndexOf(d),
         \A g \in Files \ {"txn"} : e[g] = d[g],
         e["txn"] = [log |-> Append(LogOf(d), r),
                     index |-> Enter(IndexOf(d), r,
                       [revision |-> Len(LogOf(d)) + 1, archived |-> FALSE])]
  PROVE  /\ RLog(e) = Append(RLog(d), r) /\ e["txn"] # Absent
         /\ IndexOf(e) = IndexOf(d) /\ IndexOf(d) = RIndex(d)
         /\ DOMAIN RIndex(e) = DOMAIN RIndex(d) \cup {r}
         /\ ~RIndex(e)[r].archived
         /\ \A q \in DOMAIN RIndex(d) : RIndex(e)[q] = RIndex(d)[q]
         /\ Sound(e)
<1> DEFINE l == LogOf(d)
           i == IndexOf(d)
           entry == [revision |-> Len(l) + 1, archived |-> FALSE]
<1>1. l \in Seq(Requests) /\ IsIndex(i) /\ RLog(d) = l /\ RIndex(d) = i
  BY DiskTypes
<1>2. entry \in Entry /\ entry.revision = Len(l) + 1 /\ entry.archived = FALSE
  BY <1>1, LenProperties DEF Entry
<1>3. /\ e["txn"].log = Append(l, r) /\ e["txn"].index = Enter(i, r, entry)
      /\ r \notin DOMAIN i
  OBVIOUS
<1> HIDE DEF l, i, entry
<1>4. Append(l, r) \in Seq(Requests) /\ IsIndex(Enter(i, r, entry))
  BY <1>1, <1>2, AppendProperties, Entered
<1>5. e["txn"] # Absent
  <2>1. IsJob([log |-> Append(l, r), index |-> Enter(i, r, entry)])
    BY <1>4, JobTyped
  <2>2. IsJob(e["txn"])
    BY <2>1 DEF l, i, entry
  <2>3. QED
    BY <2>2, AbsentAssumption DEF IsJob, IsIndex
<1>6. RLog(e) = Append(l, r) /\ RIndex(e) = Enter(i, r, entry)
  BY <1>3, <1>5, DiskTypes
<1>7. /\ DOMAIN RIndex(e) = DOMAIN i \cup {r} /\ RIndex(e)[r] = entry
      /\ \A q \in DOMAIN i : RIndex(e)[q] = i[q]
  <2> DEFINE n == Enter(i, r, entry)
  <2>1. /\ DOMAIN n = DOMAIN i \cup {r} /\ n[r] = entry
        /\ \A q \in DOMAIN i \ {r} : n[q] = i[q]
    BY DEF Enter
  <2> HIDE DEF n
  <2>2. RIndex(e) = n
    BY <1>6 DEF n
  <2>3. QED
    BY <1>3, <2>1, <2>2
<1>8. IndexOf(e) = i
  <2>1. e["requests"] = d["requests"]
    BY DEF Files
  <2>2. QED
    BY <2>1 DEF IndexOf, i
<1>9. Tied(l, i)
  BY <1>1 DEF Sound
<1>10. Tied(RLog(e), RIndex(e))
  <2>1. /\ DOMAIN Append(l, r) = DOMAIN l \cup {Len(l) + 1}
        /\ Append(l, r)[Len(l) + 1] = r
        /\ \A k \in DOMAIN l : Append(l, r)[k] = l[k]
    BY <1>1
  <2>2. \A k \in DOMAIN l : l[k] \in DOMAIN i
    BY <1>9 DEF Tied
  <2>3. DOMAIN RIndex(e) = {Append(l, r)[k] : k \in DOMAIN Append(l, r)}
    BY <1>7, <1>9, <2>1 DEF Tied
  <2>4. \A k \in DOMAIN Append(l, r) : RIndex(e)[Append(l, r)[k]].revision = k
    BY <1>2, <1>7, <1>9, <2>1, <2>2 DEF Tied
  <2>5. QED
    BY <1>6, <2>3, <2>4 DEF Tied
<1>11. Sound(e)
  BY <1>5, <1>7, <1>8, <1>10 DEF Sound
<1>12. QED
  BY <1>1, <1>2, <1>5, <1>6, <1>7, <1>8, <1>11 DEF i, l

(* The completion of a response.                                           *)
LEMMA UpdatedIndex ==
  ASSUME NEW d, NEW e, IsDisk(d), IsDisk(e), Sound(d), d["txn"] = Absent,
         NEW r \in DOMAIN IndexOf(d),
         \A g \in Files \ {"requests"} : e[g] = d[g],
         e["requests"] = [IndexOf(d) EXCEPT ![r].archived = TRUE]
  PROVE  /\ RLog(e) = RLog(d) /\ e["txn"] = Absent
         /\ IndexOf(e) = RIndex(e) /\ IndexOf(d) = RIndex(d)
         /\ DOMAIN RIndex(e) = DOMAIN RIndex(d)
         /\ \A q \in DOMAIN RIndex(d) :
              /\ q # r => RIndex(e)[q].archived = RIndex(d)[q].archived
              /\ RIndex(d)[q].archived => RIndex(e)[q].archived
         /\ Sound(e)
<1> DEFINE i == IndexOf(d)
           j == [i EXCEPT ![r].archived = TRUE]
<1>1. IsIndex(i) /\ RLog(d) = LogOf(d) /\ RIndex(d) = i
  BY DiskTypes
<1>2. e["txn"] = Absent /\ e["events"] = d["events"] /\ e["checkpoint"] = d["checkpoint"]
  BY DEF Files
<1>3. /\ IsIndex(j) /\ DOMAIN j = DOMAIN i
      /\ \A q \in DOMAIN i :
           /\ j[q].revision = i[q].revision
           /\ q # r => j[q].archived = i[q].archived
           /\ i[q].archived => j[q].archived
  BY <1>1, Completed
<1> HIDE DEF j
<1>4. j # Absent
  BY <1>3, AbsentAssumption DEF IsIndex
<1>5. e["requests"] = j
  BY DEF j
<1>6. IndexOf(e) = j /\ LogOf(e) = LogOf(d)
  BY <1>2, <1>4, <1>5 DEF IndexOf, LogOf
<1>7. RIndex(e) = j /\ RLog(e) = LogOf(d)
  BY <1>2, <1>6, DiskTypes
<1>8. Tied(LogOf(d), i)
  BY <1>1 DEF Sound
<1>9. Tied(LogOf(d), j)
  BY <1>3, <1>8 DEF Tied
<1>10. Sound(e)
  BY <1>2, <1>6, <1>7, <1>9 DEF Sound
<1>11. QED
  BY <1>1, <1>2, <1>3, <1>6, <1>7, <1>10
-----------------------------------------------------------------------------
(* What a file operation does                                              *)

LEMMA Shapes ==
  /\ Head(CommitPlan) = "txn" /\ Tail(CommitPlan) = <<"sync">> \o ApplyPlan
  /\ Head(<<"sync">> \o ApplyPlan) = "sync" /\ Tail(<<"sync">> \o ApplyPlan) = ApplyPlan
  /\ Len(<<"sync">> \o ApplyPlan) = 8
  /\ Head(UpdatePlan) = "requests" /\ Tail(UpdatePlan) = <<"sync">>
  /\ Head(<<"sync">>) = "sync" /\ Tail(<<"sync">>) = <<>>
<1>1. Head(CommitPlan) = "txn"
  BY DEF CommitPlan, ApplyPlan
<1>2. Tail(CommitPlan) = <<"sync">> \o ApplyPlan
  BY DEF CommitPlan, ApplyPlan
<1>3. Head(<<"sync">> \o ApplyPlan) = "sync"
  BY DEF ApplyPlan
<1>4. Tail(<<"sync">> \o ApplyPlan) = ApplyPlan
  <2>1. ApplyPlan \in Seq(Steps) /\ <<"sync">> \in Seq(Steps)
    BY DEF ApplyPlan, Steps
  <2> DEFINE t == Tail(<<"sync">> \o ApplyPlan)
  <2>2. t \in Seq(Steps) /\ Len(t) = Len(ApplyPlan)
    BY <2>1
  <2>3. \A k \in 1..Len(t) : t[k] = ApplyPlan[k]
    BY <2>1
  <2>4. QED
    BY <2>1, <2>2, <2>3, SeqEqual
<1>5. Len(<<"sync">> \o ApplyPlan) = 8
  BY DEF ApplyPlan
<1>6. Head(UpdatePlan) = "requests" /\ Tail(UpdatePlan) = <<"sync">>
  BY DEF UpdatePlan
<1>7. Head(<<"sync">>) = "sync" /\ Tail(<<"sync">>) = <<>>
  OBVIOUS
<1>8. QED
  BY <1>1, <1>2, <1>3, <1>4, <1>5, <1>6, <1>7

LEMMA LeftShapes ==
  ASSUME NEW s \in Left
  PROVE  /\ Len(s) \in 1..7 /\ Len(Tail(s)) = Len(s) - 1
         /\ Tail(s) = <<>> \/ Tail(s) \in Left
         /\ Len(s) = 7 => Head(s) = "events"
         /\ Len(s) = 5 => Head(s) = "requests"
         /\ Len(s) = 3 => Head(s) = "checkpoint"
         /\ Len(s) = 1 => Head(s) = "remove"
         /\ Len(s) \in {2, 4, 6} => Head(s) = "sync"
         /\ Tail(s) = <<>> => Len(s) = 1
         /\ Len(s) = 1 => Tail(s) = <<>>
<1>1. CASE s = ApplyPlan
  BY <1>1 DEF ApplyPlan, Left
<1>2. CASE s = <<"sync", "requests", "sync", "checkpoint", "sync", "remove">>
  BY <1>2 DEF Left
<1>3. CASE s = <<"requests", "sync", "checkpoint", "sync", "remove">>
  BY <1>3 DEF Left
<1>4. CASE s = <<"sync", "checkpoint", "sync", "remove">>
  BY <1>4 DEF Left
<1>5. CASE s = <<"checkpoint", "sync", "remove">>
  BY <1>5 DEF Left
<1>6. CASE s = <<"sync", "remove">>
  BY <1>6 DEF Left
<1>7. CASE s = <<"remove">>
  BY <1>7 DEF Left
<1>8. QED
  BY <1>1, <1>2, <1>3, <1>4, <1>5, <1>6, <1>7 DEF Left

(* Which file operation is done when, and what is known of the disk then.  *)
Applies(f) ==
  /\ disk["txn"] = job /\ Rename(f, IF f = "requests" THEN job.index ELSE job.log)
  /\ f = "requests" => \A d \in survivors : RLog(d) = job.log
Removes ==
  /\ disk["txn"] = job /\ Rename("txn", Absent)
  /\ disk["events"] = job.log /\ disk["requests"] = job.index
  /\ disk["checkpoint"] = job.log
  /\ \A d \in survivors : RLog(d) = job.log
DoStep ==
  \/ SyncDir
  \/ Committing /\ Rename("txn", job)
  \/ \E f \in {"events", "requests", "checkpoint"} : Applies(f)
  \/ Removes
  \/ Updating /\ Rename("requests", job.index)

LEMMA StepDoes ==
  ASSUME TypeOK, PlanInv, Step
  PROVE  DoStep
<1>1. MutexTyped
  BY TypeParts
<1>2. /\ plan # <<>>
      /\ \/ Head(plan) = "sync" /\ SyncDir
         \/ Head(plan) = "txn" /\ Rename("txn", job)
         \/ Head(plan) = "events" /\ Rename("events", job.log)
         \/ Head(plan) = "requests" /\ Rename("requests", job.index)
         \/ Head(plan) = "checkpoint" /\ Rename("checkpoint", job.log)
         \/ Head(plan) = "remove" /\ Rename("txn", Absent)
  BY <1>1, StepWrites
<1>3. CASE Committing
  BY <1>2, <1>3, Shapes DEF Committing, DoStep
<1>4. CASE Updating
  BY <1>2, <1>4, Shapes DEF Updating, DoStep
<1>5. CASE Closing
  BY <1>2, <1>5, Shapes DEF Closing, DoStep
<1>6. CASE Applying
  <2>1. CASE plan = <<"sync">> \o ApplyPlan
    BY <1>2, <2>1, Shapes DEF DoStep
  <2>2. CASE plan \in Left
    <3>1. Len(plan) \in 1..7 /\ Applied(Len(plan)) /\ disk["txn"] = job
      BY <1>6, <2>2, LeftShapes DEF Applying
    <3>2. CASE Head(plan) = "events"
      BY <1>2, <3>1, <3>2 DEF DoStep, Applies
    <3>3. CASE Head(plan) = "requests"
      <4>1. Len(plan) = 5
        BY <2>2, <3>1, <3>3, LeftShapes
      <4>2. Applies("requests")
        BY <1>2, <3>1, <3>3, <4>1 DEF Applies, Applied
      <4>3. QED
        BY <4>2 DEF DoStep
    <3>4. CASE Head(plan) = "checkpoint"
      BY <1>2, <3>1, <3>4 DEF DoStep, Applies
    <3>5. CASE Head(plan) = "remove"
      <4>1. Len(plan) = 1
        BY <2>2, <3>1, <3>5, LeftShapes
      <4>2. Removes
        BY <1>2, <3>1, <3>5, <4>1 DEF Removes, Applied
      <4>3. QED
        BY <4>2 DEF DoStep
    <3>6. CASE Head(plan) = "sync"
      BY <1>2, <3>6 DEF DoStep
    <3>7. Head(plan) # "txn"
      BY <2>2, <3>1, LeftShapes
    <3>8. QED
      BY <1>2, <3>2, <3>3, <3>4, <3>5, <3>6, <3>7
  <2>3. QED
    BY <1>6, <2>1, <2>2 DEF Applying
<1>7. QED
  BY <1>2, <1>3, <1>4, <1>5, <1>6 DEF PlanInv

(* A file operation that is not a sync, as far as recovery can tell: the   *)
(* directory stays sound, at most one request enters the log, none leaves  *)
(* the index, and a digest enters it only when its document is safe.       *)
Grows(d, e) ==
  /\ Sound(e)
  /\ \/ RLog(e) = RLog(d)
     \/ /\ d["txn"] = Absent /\ e["txn"] # Absent
        /\ \E r \in Requests : RLog(e) = Append(RLog(d), r)
  /\ DOMAIN RIndex(d) \subseteq DOMAIN RIndex(e)
  /\ \A r \in DOMAIN RIndex(e) : RIndex(e)[r].archived =>
       (r \in DOMAIN RIndex(d) /\ RIndex(d)[r].archived) \/ InDocument(r)
  /\ \A r \in DOMAIN IndexOf(d) : IndexOf(d)[r].archived =>
       r \in DOMAIN IndexOf(e) /\ IndexOf(e)[r].archived
Settles(d, e) ==
  /\ d["txn"] # Absent /\ e["txn"] = Absent => \A s \in survivors : RLog(s) = RLog(d)
  /\ \A s \in survivors : DOMAIN IndexOf(e) \subseteq DOMAIN RIndex(s)

LEMMA RenameGrows ==
  ASSUME TypeOK, IsDisk(disk'), Asked, DiskInv, PhaseInv, DoStep, ~SyncDir
  PROVE  /\ survivors' = survivors \cup {disk'} /\ UNCHANGED archives
         /\ Grows(disk, disk') /\ Settles(disk, disk')
<1>1. /\ disk \in survivors /\ IsDisk(disk) /\ Sound(disk) /\ IsJob(job)
      /\ \A s \in survivors : Covers(s)
  BY DEF TypeOK, DiskInv
<1>2. job # Absent /\ job.index # Absent /\ job.log # Absent
  BY <1>1, AbsentAssumption DEF IsJob, IsIndex, Jobs
<1>3. \A f \in Files : \A c : Rename(f, c) =>
        /\ disk'[f] = c /\ \A g \in Files \ {f} : disk'[g] = disk[g]
        /\ survivors' = survivors \cup {disk'} /\ UNCHANGED archives
  BY <1>1 DEF Rename, IsDisk
<1> DEFINE d == disk
           e == disk'
<1>4. CASE Committing /\ Rename("txn", job)
  <2>1. /\ e["txn"] = job /\ \A g \in Files \ {"txn"} : e[g] = d[g]
        /\ survivors' = survivors \cup {disk'} /\ UNCHANGED archives
    BY <1>3, <1>4 DEF Files
  <2>2. request \in Requests
    BY <1>4 DEF Committing, Asked
  <2>3. /\ RLog(e) = Append(RLog(d), request) /\ e["txn"] # Absent
        /\ IndexOf(e) = IndexOf(d) /\ IndexOf(d) = RIndex(d)
        /\ DOMAIN RIndex(e) = DOMAIN RIndex(d) \cup {request}
        /\ ~RIndex(e)[request].archived
        /\ \A q \in DOMAIN RIndex(d) : RIndex(e)[q] = RIndex(d)[q]
        /\ Sound(e)
    BY <1>1, <1>4, <2>1, <2>2, BegunTxn DEF Committing
  <2>4. Settles(d, e)
    BY <1>1, <1>4, <2>3 DEF Settles, Covers, Committing
  <2>5. Grows(d, e)
    BY <1>4, <2>2, <2>3 DEF Grows, Committing
  <2>6. QED
    BY <2>1, <2>4, <2>5
<1>5. ASSUME NEW f \in {"events", "requests", "checkpoint"}, Applies(f)
      PROVE  /\ survivors' = survivors \cup {disk'} /\ UNCHANGED archives
             /\ Grows(d, e) /\ Settles(d, e)
  <2>1. /\ f = "requests" => e[f] = job.index
        /\ \A g \in Files \ {f} : e[g] = d[g]
        /\ survivors' = survivors \cup {disk'} /\ UNCHANGED archives
    BY <1>3, <1>5 DEF Files, Applies
  <2>2. d["txn"] = job
    BY <1>5 DEF Applies
  <2>3. /\ RLog(e) = RLog(d) /\ RIndex(e) = RIndex(d) /\ e["txn"] = d["txn"]
        /\ Sound(e)
    BY <1>1, <1>2, <2>1, <2>2, AppliedFile
  <2>4. RIndex(d) = job.index /\ RLog(d) = job.log
    BY <1>1, <1>2, <2>2, DiskTypes
  <2>5. CASE f = "requests"
    <3>1. IndexOf(e) = job.index
      BY <1>2, <2>1, <2>5 DEF IndexOf
    <3>2. \A s \in survivors : DOMAIN RIndex(s) = DOMAIN job.index
      <4> TAKE s \in survivors
      <4>1. Tied(RLog(s), RIndex(s)) /\ RLog(s) = RLog(d)
        BY <1>5, <2>4, <2>5 DEF Applies, DiskInv, Sound
      <4>2. Tied(RLog(d), RIndex(d))
        BY <1>1 DEF Sound
      <4>3. QED
        BY <2>4, <4>1, <4>2, TiedTogether
    <3>3. \A r \in DOMAIN IndexOf(d) : IndexOf(d)[r].archived =>
            r \in DOMAIN IndexOf(e) /\ IndexOf(e)[r].archived
      BY <1>1, <2>4, <3>1 DEF Sound
    <3>4. QED
      BY <2>1, <2>2, <2>3, <3>1, <3>2, <3>3 DEF Grows, Settles
  <2>6. CASE f # "requests"
    <3>1. IndexOf(e) = IndexOf(d)
      BY <2>1, <2>6 DEF IndexOf, Files
    <3>2. QED
      BY <1>1, <2>1, <2>3, <3>1 DEF Grows, Settles, Covers
  <2>7. QED
    BY <2>5, <2>6
<1>6. CASE Removes
  <2>1. /\ e["txn"] = Absent /\ \A g \in Files \ {"txn"} : e[g] = d[g]
        /\ survivors' = survivors \cup {disk'} /\ UNCHANGED archives
    BY <1>3, <1>6 DEF Files, Removes
  <2>2. /\ RLog(e) = RLog(d) /\ RIndex(e) = RIndex(d)
        /\ IndexOf(e) = IndexOf(d) /\ Sound(e)
    BY <1>1, <1>2, <1>6, <2>1, RemovedTxn DEF Removes
  <2>3. RLog(d) = job.log
    BY <1>1, <1>6 DEF Removes
  <2>4. QED
    BY <1>1, <1>6, <2>1, <2>2, <2>3 DEF Grows, Settles, Covers, Removes
<1>7. CASE Updating /\ Rename("requests", job.index)
  <2>1. /\ e["requests"] = job.index /\ \A g \in Files \ {"requests"} : e[g] = d[g]
        /\ survivors' = survivors \cup {disk'} /\ UNCHANGED archives
    BY <1>3, <1>7 DEF Files
  <2>2. d["txn"] = Absent /\ InDocument(request)
    BY <1>7 DEF PhaseInv, Updating
  <2>3. /\ RLog(e) = RLog(d) /\ e["txn"] = Absent
        /\ IndexOf(e) = RIndex(e) /\ IndexOf(d) = RIndex(d)
        /\ DOMAIN RIndex(e) = DOMAIN RIndex(d)
        /\ \A q \in DOMAIN RIndex(d) :
             /\ q # request => RIndex(e)[q].archived = RIndex(d)[q].archived
             /\ RIndex(d)[q].archived => RIndex(e)[q].archived
        /\ Sound(e)
    BY <1>1, <1>7, <2>1, <2>2, UpdatedIndex DEF Updating
  <2>4. Settles(d, e)
    BY <1>1, <2>2, <2>3 DEF Settles, Covers
  <2>5. Grows(d, e)
    BY <2>2, <2>3 DEF Grows
  <2>6. QED
    BY <2>1, <2>4, <2>5
<1>8. QED
  BY <1>4, <1>5, <1>6, <1>7 DEF DoStep
-----------------------------------------------------------------------------
(* The invariant is kept                                                   *)

LEMMA DisksKept ==
  ASSUME StoreInv, [Next]_vars
  PROVE  DiskInv' /\ \A r : Recorded(r) => Recorded(r)'
<1>1. TypeOK /\ Asked /\ DiskInv /\ PhaseInv /\ PlanInv
  BY DEF StoreInv
<1>2. DiskTyped' /\ DiskTyped
  BY <1>1, StepTypesDisk, TypeParts
<1>3. ASSUME SyncDir
      PROVE  DiskInv' /\ \A r : Recorded(r) => Recorded(r)'
  BY <1>1, <1>2, <1>3 DEF SyncDir, DiskInv, Behind, Covers, Recorded, DiskTyped
<1>4. ASSUME Step, ~SyncDir
      PROVE  DiskInv' /\ \A r : Recorded(r) => Recorded(r)'
  <2>1. IsDisk(disk')
    BY <1>2 DEF DiskTyped
  <2>2. /\ survivors' = survivors \cup {disk'}
        /\ Grows(disk, disk') /\ Settles(disk, disk')
    BY <1>1, <1>4, <2>1, StepDoes, RenameGrows
  <2>3. \A r : Recorded(r) => Recorded(r)'
    BY <1>2, <2>2 DEF Recorded, Grows, DiskTyped
  <2>4. Sound(disk') /\ DOMAIN IndexOf(disk') \subseteq DOMAIN RIndex(disk')
    BY <2>2 DEF Grows, Sound
  <2>5. ASSUME NEW d \in survivors
        PROVE  /\ Sound(d) /\ DOMAIN IndexOf(disk') \subseteq DOMAIN RIndex(d)
               /\ \/ RLog(d) = RLog(disk')
                  \/ /\ disk'["txn"] # Absent
                     /\ \E r \in Requests : RLog(disk') = Append(RLog(d), r)
    BY <1>1, <2>2, <2>5 DEF DiskInv, Behind, Grows, Settles
  <2>6. QED
    BY <2>2, <2>3, <2>4, <2>5 DEF DiskInv, Behind, Covers
<1>5. CASE PowerLoss
  <2>1. disk' \in survivors /\ survivors' = {disk'}
    BY <1>5 DEF PowerLoss
  <2>2. Sound(disk')
    BY <1>1, <2>1 DEF DiskInv
  <2>3. QED
    BY <2>1, <2>2 DEF DiskInv, Behind, Covers, Recorded, Sound
<1>6. CASE UNCHANGED <<disk, survivors>>
  BY <1>1, <1>6 DEF DiskInv, Behind, Covers, Recorded
<1>7. QED
  BY <1>3, <1>4, <1>5, <1>6, DisksChange

(* While no transaction is pending, no power loss takes anything back.     *)
LEMMA AtRest ==
  ASSUME StoreInv, disk["txn"] = Absent, NEW d \in survivors
  PROVE  /\ RLog(d) = LogOf(disk) /\ LogOf(disk) \in Seq(Requests)
         /\ \A r : r \in DOMAIN RIndex(d) <=> Contains(LogOf(disk), r)
<1>1. IsDisk(disk) /\ IsDisk(d) /\ Sound(d) /\ Behind(d)
  BY DEF StoreInv, TypeOK, DiskInv
<1>2. RLog(d) = LogOf(disk) /\ LogOf(disk) \in Seq(Requests)
  BY <1>1, DiskTypes DEF Behind
<1>3. Tied(LogOf(disk), RIndex(d))
  BY <1>1, <1>2 DEF Sound
<1>4. QED
  BY <1>2, <1>3, TiedContains

(* The archive is replaced by one that has every request of the case.      *)
LEMMA DigestsKept ==
  ASSUME StoreInv, [Next]_vars
  PROVE  DigestInv'
<1>1. TypeOK /\ Asked /\ DiskInv /\ DigestInv /\ PhaseInv /\ PlanInv
  BY DEF StoreInv
<1>2. MutexTyped /\ DiskTyped /\ DiskTyped'
  BY <1>1, StepTypesDisk, TypeParts
<1>3. CASE Step
  <2>1. UNCHANGED archives
    BY <1>2, <1>3, StepWrites
  <2>2. CASE SyncDir
    BY <1>1, <1>2, <2>1, <2>2 DEF SyncDir, DigestInv, InDocument, archives, DiskTyped
  <2>3. CASE ~SyncDir
    <3>1. IsDisk(disk')
      BY <1>2 DEF DiskTyped
    <3>2. survivors' = survivors \cup {disk'} /\ Grows(disk, disk')
      BY <1>1, <1>3, <2>3, <3>1, StepDoes, RenameGrows
    <3>3. \A r \in DOMAIN RIndex(disk') : RIndex(disk')[r].archived => InDocument(r)
      BY <1>1, <1>2, <3>2 DEF Grows, DigestInv, DiskTyped
    <3>4. QED
      BY <1>1, <2>1, <3>2, <3>3 DEF DigestInv, InDocument, archives
  <2>4. QED
    BY <2>2, <2>3
<1>4. CASE Publish
  <2>1. disk["txn"] = Absent /\ seen = LogOf(disk)
    BY <1>1, <1>4 DEF PhaseInv, Publish
  <2>2. \A d \in survivors : \A r \in DOMAIN RIndex(d) : seen # Absent /\ Contains(seen, r)
    BY <2>1, AtRest, AbsentAssumption
  <2>3. documents' = documents \cup {seen} /\ UNCHANGED survivors
    BY <1>4 DEF Publish
  <2>4. QED
    BY <1>1, <2>2, <2>3 DEF DigestInv, InDocument
<1>5. CASE Published
  BY <1>1, <1>5 DEF Published, SyncArchives, DigestInv, InDocument, TypeOK
<1>6. CASE PowerLoss
  BY <1>1, <1>6 DEF PowerLoss, DigestInv, InDocument
<1>7. CASE UNCHANGED <<survivors, documents>>
  BY <1>1, <1>7 DEF DigestInv, InDocument
<1>8. QED
  BY <1>3, <1>4, <1>5, <1>6, <1>7
     DEF Next, Boot, BootRecover, BootDone, Work, Receive, Lookup, LoadRecover, Load,
         Commit, Committed, Reload, Save, Update, Updated, Refuse,
         ReaderRecover, ReaderDone, Fail, PublishFails, Crash, vars, disks, archives

(* Nobody is told of a request that is not in the case for good.           *)
LEMMA IndexedIsRecorded ==
  ASSUME StoreInv, NEW r \in DOMAIN IndexOf(disk)
  PROVE  Recorded(r)
BY DEF StoreInv, DiskInv, Covers, Recorded

LEMMA Acknowledged ==
  ASSUME StoreInv, [Next]_vars, acked' # acked
  PROVE  /\ acked' = acked \cup {<<request, kind>>} /\ request \in Requests
         /\ Recorded(request) /\ UNCHANGED disks
<1>1. Asked /\ PhaseInv /\ MutexTyped
  BY TypeParts DEF StoreInv
<1>2. CASE Lookup
  BY <1>1, <1>2, IndexedIsRecorded DEF Lookup, Answer, Asked
<1>3. CASE Reload
  BY <1>1, <1>3 DEF Reload, Answer, Asked, PhaseInv
<1>4. CASE Updated
  BY <1>1, <1>4 DEF Updated, Answer, Asked, PhaseInv
<1>5. ~Step
  BY <1>1, StepWrites
<1>6. QED
  BY <1>2, <1>3, <1>4, <1>5
     DEF Next, Boot, BootRecover, BootDone, Work, Receive, LoadRecover, Load,
         Commit, Committed, Save, Publish, Published, Update, Refuse,
         ReaderRecover, ReaderDone, Fail, PublishFails, Crash, PowerLoss, Down, vars

LEMMA AcksKept ==
  ASSUME StoreInv, [Next]_vars
  PROVE  AckInv'
<1>1. AckInv /\ \A r : Recorded(r) => Recorded(r)'
  BY DisksKept DEF StoreInv
<1>2. CASE acked' = acked
  BY <1>1, <1>2 DEF AckInv
<1>3. CASE acked' # acked
  <2>1. acked' = acked \cup {<<request, kind>>} /\ Recorded(request)
    BY <1>3, Acknowledged
  <2>2. QED
    BY <1>1, <2>1 DEF AckInv
<1>4. QED
  BY <1>2, <1>3

(* While the worker counts on what it read, no file operation is pending.  *)
LEMMA NothingPending ==
  ASSUME StoreInv, phase \in {"decided", "publish", "published", "update"}
  PROVE  plan = <<>> /\ disk["txn"] = Absent
<1>1. disk["txn"] = Absent /\ IsJob(job)
  BY DEF StoreInv, PhaseInv, TypeOK
<1>2. disk["txn"] # job
  BY <1>1, AbsentAssumption DEF IsJob, IsIndex
<1>3. QED
  BY <1>1, <1>2 DEF StoreInv, PlanInv, Committing, Applying, Updating, Closing

LEMMA StepKeepsPhase ==
  ASSUME StoreInv, Step, [Next]_vars
  PROVE  PhaseInv'
<1>1. TypeOK /\ Asked /\ DiskInv /\ PhaseInv /\ PlanInv /\ MutexTyped /\ IsDisk(disk)
  BY TypeParts DEF StoreInv, TypeOK
<1>2. /\ plan # <<>> /\ plan' = Tail(plan)
      /\ UNCHANGED <<document, documents, holder, job, phase, request, kind, seen>>
  BY <1>1, StepWrites DEF archives, worker
<1>3. phase \notin {"decided", "publish", "published", "update"}
  BY <1>2, NothingPending
<1>4. IsJob(job) /\ job # Absent /\ job.index # Absent
  BY <1>1, AbsentAssumption DEF MutexTyped, IsJob, IsIndex
<1>5. ASSUME phase = "updating"
      PROVE  disk'["txn"] = Absent
  <2>1. disk["txn"] = Absent
    BY <1>1, <1>5 DEF PhaseInv
  <2>2. ~Committing /\ ~Removes /\ \A f \in {"events", "requests", "checkpoint"} : ~Applies(f)
    BY <1>4, <1>5, <2>1 DEF Committing, Removes, Applies
  <2>3. SyncDir \/ Rename("requests", job.index)
    BY <1>1, <2>2, StepDoes DEF DoStep
  <2>4. QED
    BY <1>1, <2>1, <2>3 DEF SyncDir, Rename, IsDisk, Files
<1>6. ASSUME phase = "committing", plan' = <<>>
      PROVE  disk'["txn"] = Absent /\ request \in DOMAIN IndexOf(disk')
  <2>1. plan # CommitPlan /\ plan # <<"sync">> \o ApplyPlan
    <3>1. <<"sync">> \o ApplyPlan # <<>> /\ ApplyPlan # <<>>
      BY DEF ApplyPlan
    <3>2. QED
      BY <1>2, <1>6, <3>1, Shapes
  <2>2. /\ Applying /\ Head(plan) = "remove" /\ Len(plan) = 1
    <3>1. Applying /\ plan \in Left
      BY <1>1, <1>2, <1>6, <2>1 DEF PlanInv, Committing, Applying, Updating, Closing
    <3>2. Len(plan) = 1
      BY <1>2, <1>6, <3>1, LeftShapes
    <3>3. QED
      BY <3>1, <3>2, LeftShapes
  <2>3. Rename("txn", Absent)
    BY <1>1, <2>2, StepWrites
  <2>4. disk'["txn"] = Absent /\ disk'["requests"] = disk["requests"]
    BY <1>1, <2>3 DEF Rename, IsDisk, Files
  <2>5. disk["requests"] = job.index /\ request \in DOMAIN job.index
    BY <1>6, <2>2 DEF Applying, Applied
  <2>6. QED
    BY <1>4, <2>4, <2>5 DEF IndexOf
<1>7. Recorded(request) => Recorded(request)'
  BY <1>2, DisksKept DEF Recorded
<1>8. phase \in {"update", "updating"} => InDocument(request)'
  BY <1>1, <1>2 DEF PhaseInv, InDocument
<1>9. QED
  BY <1>1, <1>2, <1>3, <1>5, <1>6, <1>7, <1>8 DEF PhaseInv

LEMMA PhaseKept ==
  ASSUME StoreInv, [Next]_vars
  PROVE  PhaseInv'
<1>1. TypeOK /\ Asked /\ DiskInv /\ PhaseInv /\ PlanInv /\ MutexTyped
  BY TypeParts DEF StoreInv
<1>2. \A r : Recorded(r) => Recorded(r)'
  BY DisksKept
<1>3. CASE Step
  BY <1>3, StepKeepsPhase
<1>4. CASE Idle
  BY <1>4 DEF Idle, PhaseInv
(* Steps of others while the worker does not hold the mutex.               *)
<1>5. ASSUME UNCHANGED <<disks, worker>>,
             UNCHANGED <<holder, plan>> \/ phase \notin {"committing", "updating"}
      PROVE  PhaseInv'
  BY <1>1, <1>5 DEF disks, archives, worker, PhaseInv, InDocument, Recorded
<1>6. ASSUME UNCHANGED disks, phase' \in {"lookup", "load"}
      PROVE  PhaseInv'
  BY <1>6 DEF PhaseInv
<1>7. ASSUME UNCHANGED disks, Goto("reload") \/ Goto("save"), Recorded(request)
      PROVE  PhaseInv'
  BY <1>2, <1>7 DEF Goto, PhaseInv
<1>8. CASE Lookup
  <2>1. request \in DOMAIN IndexOf(disk) => Recorded(request)
    BY IndexedIsRecorded
  <2>2. CASE Answer(kind)
    BY <1>4, <2>2 DEF Answer
  <2>3. CASE Goto("load")
    BY <1>6, <1>8, <2>3 DEF Lookup, Goto
  <2>4. CASE Goto("save") /\ request \in DOMAIN IndexOf(disk)
    BY <1>7, <1>8, <2>1, <2>4 DEF Lookup
  <2>5. QED
    BY <1>8, <2>2, <2>3, <2>4 DEF Lookup
<1>9. CASE Load
  BY <1>1, <1>9 DEF Load, Loading, Release, disks, PhaseInv
<1>10. CASE Commit
  <2>1. CASE AlreadyIn(IndexOf(disk))
    BY <1>7, <1>10, <2>1, IndexedIsRecorded DEF Commit, AlreadyIn
  <2>2. CASE ~AlreadyIn(IndexOf(disk))
    <3>1. phase' = "committing" /\ holder' = "worker" /\ plan' = CommitPlan
      BY <1>10, <2>2 DEF Commit, Take, Goto
    <3>2. CommitPlan # <<>>
      BY PlanTypes DEF Plans
    <3>3. QED
      BY <3>1, <3>2 DEF PhaseInv
  <2>3. QED
    BY <2>1, <2>2
<1>11. CASE Committed
  <2>1. Recorded(request)
    BY <1>1, <1>11, IndexedIsRecorded DEF Committed, PhaseInv
  <2>2. QED
    BY <1>7, <1>11, <2>1 DEF Committed
<1>12. CASE Reload
  <2>1. Recorded(request)
    BY <1>1, <1>12 DEF Reload, PhaseInv
  <2>2. QED
    BY <1>4, <1>7, <1>12, <2>1 DEF Reload, Answer
<1>13. CASE Save
  <2>1. Recorded(request)
    BY <1>1, <1>13 DEF Save, PhaseInv
  <2>2. phase' = "publish" /\ seen' = LogOf(disk) /\ disk["txn"] = Absent
        /\ UNCHANGED <<disks, request>>
    BY <1>13 DEF Save, Loading
  <2>3. QED
    BY <1>2, <2>1, <2>2 DEF PhaseInv, disks
<1>14. CASE Publish
  <2>1. /\ Recorded(request) /\ disk["txn"] = Absent /\ seen = LogOf(disk)
    BY <1>1, <1>14 DEF Publish, PhaseInv
  <2>2. phase' = "published" /\ document' = seen
        /\ UNCHANGED <<disk, survivors, request, seen>>
    BY <1>14 DEF Publish, Goto
  <2>3. QED
    BY <1>2, <2>1, <2>2 DEF PhaseInv
<1>15. CASE Published
  <2>1. /\ Recorded(request) /\ disk["txn"] = Absent /\ seen = LogOf(disk)
        /\ document = seen
    BY <1>1, <1>15 DEF Published, PhaseInv
  <2>2. phase' = "update" /\ documents' = {document} /\ UNCHANGED <<disk, survivors, request>>
    BY <1>15 DEF Published, Goto, SyncArchives
  <2>3. seen # Absent /\ Contains(seen, request)
    <3>1. disk \in survivors
      BY <1>1 DEF TypeOK
    <3>2. QED
      BY <2>1, <3>1, AtRest, AbsentAssumption DEF Recorded
  <2>4. InDocument(request)'
    BY <2>1, <2>2, <2>3 DEF InDocument
  <2>5. QED
    BY <1>2, <2>1, <2>2, <2>4 DEF PhaseInv
<1>16. CASE Update
  <2>1. /\ Recorded(request) /\ disk["txn"] = Absent /\ InDocument(request)
    BY <1>1, <1>16 DEF Update, PhaseInv
  <2>2. phase' = "updating" /\ holder' = "worker" /\ UNCHANGED <<disks, request>>
    BY <1>16 DEF Update, Goto, Take
  <2>3. InDocument(request)'
    BY <2>1, <2>2 DEF InDocument, disks, archives
  <2>4. QED
    BY <1>2, <2>1, <2>2, <2>3 DEF PhaseInv, disks
<1>17. CASE Updated \/ Refuse \/ PublishFails \/ Crash \/ PowerLoss
  BY <1>4, <1>17 DEF Updated, Answer, Refuse, PublishFails, Crash, PowerLoss, Down
<1>18. CASE Fail
  <2>1. CASE holder = "worker"
    BY <1>4, <1>18, <2>1 DEF Fail
  <2>2. CASE holder # "worker"
    BY <1>1, <1>5, <1>18, <2>2 DEF Fail, PhaseInv
  <2>3. QED
    BY <2>1, <2>2
<1>19. ASSUME NEW r \in Requests, NEW k \in Kinds, Receive(r, k)
       PROVE  PhaseInv'
  BY <1>6, <1>19 DEF Receive
<1>20. CASE BootRecover \/ BootDone \/ ReaderRecover \/ ReaderDone \/ LoadRecover
  <2>1. phase \notin {"committing", "updating"}
    BY <1>1, <1>20 DEF PhaseInv, BootRecover, BootDone, ReaderRecover, ReaderDone,
                       LoadRecover, Recover, Free
  <2>2. QED
    BY <1>5, <1>20, <2>1 DEF BootRecover, BootDone, ReaderRecover, ReaderDone, LoadRecover
<1>21. CASE UNCHANGED vars
  BY <1>5, <1>21 DEF vars, mutex
<1>22. QED
  BY <1>3, <1>8, <1>9, <1>10, <1>11, <1>12, <1>13, <1>14, <1>15, <1>16, <1>17, <1>18,
     <1>19, <1>20, <1>21
     DEF Next, Boot, Work

(* Each file operation leaves what the next one builds on.                 *)
LEMMA StepKeepsPlan ==
  ASSUME StoreInv, Step, [Next]_vars
  PROVE  PlanInv'
<1>1. TypeOK /\ Asked /\ DiskInv /\ PhaseInv /\ PlanInv /\ MutexTyped /\ IsDisk(disk)
      /\ disk \in survivors
  BY TypeParts DEF StoreInv, TypeOK
<1>2. /\ plan # <<>> /\ plan' = Tail(plan) /\ UNCHANGED <<job, phase, request>>
      /\ \/ Head(plan) = "sync" /\ SyncDir
         \/ Head(plan) = "txn" /\ Rename("txn", job)
         \/ Head(plan) = "events" /\ Rename("events", job.log)
         \/ Head(plan) = "requests" /\ Rename("requests", job.index)
         \/ Head(plan) = "checkpoint" /\ Rename("checkpoint", job.log)
         \/ Head(plan) = "remove" /\ Rename("txn", Absent)
  BY <1>1, StepWrites DEF worker
<1>3. IsJob(job) /\ job # Absent
  BY <1>1, AbsentAssumption DEF MutexTyped, IsJob, IsIndex
<1>4. CASE Closing
  BY <1>2, <1>4, Shapes DEF Closing, PlanInv
<1>5. CASE Updating
  BY <1>2, <1>5, Shapes DEF Updating, Closing, PlanInv
<1>6. CASE Committing
  <2>1. plan' = <<"sync">> \o ApplyPlan /\ Len(plan') = 8 /\ disk'["txn"] = job
    BY <1>1, <1>2, <1>6, Shapes DEF Committing, Rename, IsDisk, Files
  <2>2. request \in DOMAIN job.index
    BY <1>6 DEF Committing, Enter
  <2>3. Applied(Len(plan))'
    BY <2>1 DEF Applied
  <2>4. Applying'
    BY <1>2, <2>1, <2>2, <2>3 DEF Applying
  <2>5. QED
    BY <2>4 DEF PlanInv
<1>7. CASE Applying /\ plan = <<"sync">> \o ApplyPlan
  <2>1. plan' = ApplyPlan /\ disk' = disk
    BY <1>2, <1>7, Shapes DEF SyncDir
  <2>2. ApplyPlan \in Left /\ Len(ApplyPlan) = 7
    BY DEF Left, ApplyPlan
  <2>3. Applied(Len(plan))'
    BY <2>1, <2>2 DEF Applied
  <2>4. Applying'
    BY <1>2, <1>7, <2>1, <2>2, <2>3 DEF Applying
  <2>5. QED
    BY <2>4 DEF PlanInv
<1>8. CASE Applying /\ plan \in Left
  <2> DEFINE n == Len(plan)
  <2>1. /\ n \in 1..7 /\ Applied(n) /\ disk["txn"] = job
        /\ phase = "committing" => request \in DOMAIN job.index
    BY <1>8, LeftShapes DEF Applying
  <2>2. CASE plan' = <<>>
    BY <2>2 DEF PlanInv
  <2>3. CASE plan' # <<>>
    <3>1. plan' \in Left /\ Len(plan') = n - 1 /\ n # 1
      BY <1>2, <1>8, <2>3, LeftShapes
    <3>2. \/ n = 7 /\ Rename("events", job.log)
          \/ n = 5 /\ Rename("requests", job.index)
          \/ n = 3 /\ Rename("checkpoint", job.log)
          \/ n \in {2, 4, 6} /\ SyncDir
      <4>1. /\ n = 7 => Head(plan) = "events"
            /\ n = 5 => Head(plan) = "requests"
            /\ n = 3 => Head(plan) = "checkpoint"
            /\ n \in {2, 4, 6} => Head(plan) = "sync"
        BY <1>8, LeftShapes
      <4> HIDE DEF n
      <4>2. n \in {2, 3, 4, 5, 6, 7}
        BY <2>1, <3>1
      <4>3. QED
        BY <1>2, <4>1, <4>2
    <3>3. /\ disk'["txn"] = job
          /\ n <= 6 => disk'["events"] = disk["events"]
          /\ n <= 4 => disk'["requests"] = disk["requests"]
          /\ n <= 2 => disk'["checkpoint"] = disk["checkpoint"]
          /\ n = 7 => disk'["events"] = job.log
          /\ n = 5 => disk'["requests"] = job.index
          /\ n = 3 => disk'["checkpoint"] = job.log
      <4> HIDE DEF n
      <4>1. CASE n = 7 /\ Rename("events", job.log)
        BY <1>1, <2>1, <4>1 DEF Rename, IsDisk, Files
      <4>2. CASE n = 5 /\ Rename("requests", job.index)
        BY <1>1, <2>1, <4>2 DEF Rename, IsDisk, Files
      <4>3. CASE n = 3 /\ Rename("checkpoint", job.log)
        BY <1>1, <2>1, <4>3 DEF Rename, IsDisk, Files
      <4>4. CASE n \in {2, 4, 6} /\ SyncDir
        BY <1>1, <2>1, <4>4 DEF SyncDir
      <4>5. QED
        BY <3>2, <4>1, <4>2, <4>3, <4>4
    <3>4. IsDisk(disk')
      BY StepTypesDisk, <1>1 DEF DiskTyped
    <3>5. RLog(disk') = job.log
      BY <1>3, <3>3, <3>4, DiskTypes
    <3>6. n <= 6 => \A d \in survivors' : RLog(d) = job.log
      <4> HIDE DEF n
      <4>1. CASE n \in {3, 5} /\ survivors' = survivors \cup {disk'}
        BY <2>1, <3>5, <4>1 DEF Applied
      <4>2. CASE n \in {2, 4, 6} /\ SyncDir
        BY <3>5, <4>2 DEF SyncDir
      <4>3. QED
        BY <3>2, <4>1, <4>2 DEF Rename
    <3>7. Applied(Len(plan))'
      BY <1>2, <2>1, <3>1, <3>3, <3>6 DEF Applied
    <3>8. Applying'
      BY <1>2, <2>1, <3>1, <3>3, <3>7 DEF Applying
    <3>9. QED
      BY <3>8 DEF PlanInv
  <2>4. QED
    BY <2>2, <2>3
<1>9. QED
  BY <1>1, <1>2, <1>4, <1>5, <1>6, <1>7, <1>8 DEF PlanInv, Applying

LEMMA PlanKept ==
  ASSUME StoreInv, [Next]_vars
  PROVE  PlanInv'
<1>1. TypeOK /\ Asked /\ DiskInv /\ PhaseInv /\ PlanInv /\ MutexTyped
  BY TypeParts DEF StoreInv
<1>2. CASE Step
  BY <1>2, StepKeepsPlan
<1>3. CASE Release
  BY <1>3 DEF Release, PlanInv
<1>4. Free => plan = <<>>
  BY <1>1 DEF MutexTyped, Free
<1>5. CASE UNCHANGED mutex /\ plan = <<>>
  BY <1>5 DEF mutex, PlanInv
<1>6. ASSUME NEW who \in {"worker", "reader", "boot"}, Recover(who), UNCHANGED <<disks, worker>>
      PROVE  PlanInv'
  <2>1. plan' = ApplyPlan /\ job' = disk["txn"] /\ disk' = disk
    BY <1>6 DEF Recover, Take, disks
  <2>2. ApplyPlan \in Left /\ Len(ApplyPlan) = 7
    BY DEF Left, ApplyPlan
  <2>3. phase' # "committing"
    BY <1>1, <1>6 DEF PhaseInv, Recover, Free, worker
  <2>4. Applied(Len(plan))'
    BY <2>1, <2>2 DEF Applied
  <2>5. Applying'
    BY <2>1, <2>2, <2>3, <2>4 DEF Applying
  <2>6. QED
    BY <2>5 DEF PlanInv
<1>7. CASE Commit
  <2>1. CASE AlreadyIn(IndexOf(disk))
    BY <1>4, <1>5, <1>7, <2>1 DEF Commit
  <2>2. CASE ~AlreadyIn(IndexOf(disk))
    <3>1. disk["txn"] = Absent
      BY <1>1, <1>7 DEF PhaseInv, Commit
    <3>2. Committing'
      BY <1>7, <2>2, <3>1 DEF Commit, AlreadyIn, Take, Goto, disks, Committing
    <3>3. QED
      BY <3>2 DEF PlanInv
  <2>3. QED
    BY <2>1, <2>2
<1>8. CASE Update
  <2>1. Updating'
    BY <1>8 DEF Update, Take, Goto, disks, Updating
  <2>2. QED
    BY <2>1 DEF PlanInv
<1>9. CASE Publish \/ Published \/ PublishFails
  <2>1. plan = <<>>
    BY <1>9, NothingPending DEF Publish, Published, PublishFails
  <2>2. QED
    BY <1>5, <1>9, <2>1 DEF Publish, Published, PublishFails
<1>10. ASSUME NEW r \in Requests, NEW k \in Kinds, Receive(r, k)
       PROVE  PlanInv'
  <2>1. ~Committing /\ ~Updating /\ ~Closing
    BY <1>10 DEF Receive, Committing, Updating, Closing
  <2>2. UNCHANGED <<disk, survivors, plan, job>> /\ phase' = "lookup"
    BY <1>10 DEF Receive, disks, mutex
  <2>3. QED
    BY <1>1, <2>1, <2>2 DEF PlanInv, Applying, Applied
<1>11. CASE Lookup
  BY <1>4, <1>5, <1>11 DEF Lookup
<1>12. CASE UNCHANGED vars
  <2>1. UNCHANGED <<disk, survivors, plan, job, phase, request>>
    BY <1>12 DEF vars, disks, mutex, worker
  <2>2. QED
    BY <1>1, <2>1 DEF PlanInv, Committing, Applying, Applied, Updating, Closing
<1>13. QED
  BY <1>2, <1>3, <1>6, <1>7, <1>8, <1>9, <1>10, <1>11, <1>12
     DEF Next, Boot, BootRecover, BootDone, Work, LoadRecover, Load, Committed, Reload,
         Save, Updated, Refuse, ReaderRecover, ReaderDone, Fail, Crash, PowerLoss, Down

(* The first case has no files.                                            *)
LEMMA InitStoreInv == Init => StoreInv
<1> SUFFICES ASSUME Init
             PROVE  StoreInv
  OBVIOUS
<1>1. TypeOK /\ Asked
  BY InitTyped
<1>2. survivors = {disk} /\ disk["txn"] = Absent /\ IsDisk(disk)
      /\ disk["checkpoint"] = disk["events"]
      /\ LogOf(disk) = <<>> /\ IndexOf(disk) = EmptyIndex
  BY <1>1 DEF Init, Empty, Files, LogOf, IndexOf, TypeOK
<1>3. RLog(disk) = <<>> /\ RIndex(disk) = EmptyIndex
  BY <1>2, DiskTypes
<1>4. DOMAIN EmptyIndex = {}
  BY DEF EmptyIndex
<1>5. Sound(disk) /\ Behind(disk) /\ Covers(disk)
  BY <1>2, <1>3, <1>4 DEF Sound, Behind, Covers, Tied
<1>6. DiskInv /\ DigestInv
  BY <1>2, <1>3, <1>4, <1>5 DEF DiskInv, DigestInv
<1>7. AckInv /\ PhaseInv /\ PlanInv
  BY DEF Init, AckInv, PhaseInv, PlanInv
<1>8. QED
  BY <1>1, <1>6, <1>7 DEF StoreInv

(* The invariant of the files, the mutex and the worker.                   *)
THEOREM StoreInvariant == Spec => []StoreInv
<1>1. StoreInv /\ [Next]_vars => StoreInv'
  <2> SUFFICES ASSUME StoreInv, [Next]_vars
               PROVE  StoreInv'
    OBVIOUS
  <2>1. TypeOK' /\ Asked'
    BY StepTyped DEF StoreInv
  <2>2. DiskInv' /\ DigestInv' /\ AckInv' /\ PhaseInv' /\ PlanInv'
    BY DisksKept, DigestsKept, AcksKept, PhaseKept, PlanKept
  <2>3. QED
    BY <2>1, <2>2 DEF StoreInv
<1>2. QED
  BY <1>1, InitStoreInv, PTL DEF Spec
-----------------------------------------------------------------------------
(* What follows from it                                                    *)

(* Whatever moment the process dies or the power fails at, the case that   *)
(* recovery rebuilds loads (commit.go:19-57, events.go:79-92).             *)
THEOREM LoadableAfterCrash == Spec => []CrashLeavesLoadableCase
<1>1. StoreInv => CrashLeavesLoadableCase
  <2> SUFFICES ASSUME StoreInv, NEW d \in survivors
               PROVE  Consistent(Recovered(d))
    BY DEF CrashLeavesLoadableCase
  <2>1. IsDisk(d) /\ Sound(d)
    BY DEF StoreInv, TypeOK, DiskInv
  <2> DEFINE r == Recovered(d)
  <2>2. r["checkpoint"] = r["events"]
    BY <2>1, DiskTypes DEF Sound, Recovered
  <2>3. r["events"] = Absent \/ r["events"] \in Seq(Requests)
    BY <2>1 DEF Recovered, IsDisk, IsJob, Jobs, Contents
  <2>4. CASE r["events"] \in Seq(Requests)
    <3>1. IsPrefix(r["events"], r["events"])
      BY <2>4, LenProperties DEF IsPrefix
    <3>2. r["events"] # Absent
      BY <2>4, AbsentAssumption
    <3>3. QED
      BY <2>2, <3>1, <3>2 DEF Consistent
  <2>5. CASE r["events"] = Absent
    BY <2>2, <2>5 DEF Consistent
  <2>6. QED
    BY <2>3, <2>4, <2>5
<1>2. QED
  BY <1>1, StoreInvariant, PTL

(* A request a client knows to have succeeded stays in the case, and in    *)
(* its index, through any crash or power loss (commit.go:114-129).         *)
THEOREM AcknowledgedSurvives == Spec => []AckedSurvive
<1>1. StoreInv => AckedSurvive
  <2> SUFFICES ASSUME StoreInv, NEW d \in survivors, NEW a \in acked
               PROVE  Contains(RLog(d), a[1]) /\ a[1] \in DOMAIN RIndex(d)
    BY DEF AckedSurvive, RLog, RIndex
  <2>1. a[1] \in DOMAIN RIndex(d)
    BY DEF StoreInv, AckInv, Recorded
  <2>2. RLog(d) \in Seq(Requests) /\ Tied(RLog(d), RIndex(d))
    BY DiskTypes DEF StoreInv, TypeOK, DiskInv, Sound
  <2>3. QED
    BY <2>1, <2>2, TiedContains
<1>2. QED
  BY <1>1, StoreInvariant, PTL

(* Every request's event is in the case once, and the index tells its      *)
(* revision (commit.go:77-101).                                            *)
THEOREM AppendedOnce == Spec => []ExactlyOnce
<1>1. StoreInv => ExactlyOnce
  BY DEF StoreInv, DiskInv, Sound, Tied, ExactlyOnce, RLog, RIndex
<1>2. QED
  BY <1>1, StoreInvariant, PTL

(* What a command is judged against no power loss takes back               *)
(* (service.go:100-118, commit.go:81-95).                                  *)
THEOREM DurableDecisions == Spec => []DecisionsRestOnDurableLog
<1>1. StoreInv => DecisionsRestOnDurableLog
  <2> SUFFICES ASSUME StoreInv, phase = "decided", NEW d \in survivors
               PROVE  IsPrefix(seen, RLog(d))
    BY DEF DecisionsRestOnDurableLog, RLog
  <2>1. disk["txn"] = Absent /\ seen = LogOf(disk)
    BY DEF StoreInv, PhaseInv
  <2>2. RLog(d) = seen /\ seen \in Seq(Requests)
    BY <2>1, AtRest
  <2>3. QED
    BY <2>2, LenProperties DEF IsPrefix
<1>2. QED
  BY <1>1, StoreInvariant, PTL

(* A response that carries the archive digest has its document, with the   *)
(* event of the request in it, after any crash or power loss               *)
(* (service.go:53,157-165, archive/service.go:71-81,225-234).              *)
THEOREM DigestHasDocument == Spec => []ArchivedHasDocument
<1>1. StoreInv => ArchivedHasDocument
  BY DEF StoreInv, DigestInv, InDocument, ArchivedHasDocument, RIndex
<1>2. QED
  BY <1>1, StoreInvariant, PTL

(* No crash, recovery of an older transaction or failed retry takes the    *)
(* archive digest out of a response again (idempotency.go:43-70,           *)
(* commit.go:39-56).                                                       *)
THEOREM DigestStays == Spec => ArchiveDigestKept
<1> DEFINE Kept ==
      \/ \A r \in DOMAIN IndexOf(disk) : IndexOf(disk)[r].archived =>
           r \in DOMAIN IndexOf(disk') /\ IndexOf(disk')[r].archived
      \/ PowerLoss
<1>1. StoreInv /\ [Next]_vars => Kept
  <2> SUFFICES ASSUME StoreInv, [Next]_vars
               PROVE  Kept
    OBVIOUS
  <2>1. CASE Step
    <3>1. CASE SyncDir
      BY <3>1 DEF SyncDir
    <3>2. CASE ~SyncDir
      <4>1. DiskTyped'
        BY StepTypesDisk DEF StoreInv
      <4>2. IsDisk(disk')
        BY <4>1 DEF DiskTyped
      <4>3. Grows(disk, disk')
        BY <2>1, <3>2, <4>2, StepDoes, RenameGrows DEF StoreInv
      <4>4. QED
        BY <4>3 DEF Grows
    <3>3. QED
      BY <3>1, <3>2
  <2>2. CASE UNCHANGED <<disk, survivors>>
    BY <2>2
  <2>3. QED
    BY <2>1, <2>2, DisksChange
<1>2. QED
  BY <1>1, StoreInvariant, PTL DEF Spec, ArchiveDigestKept
-----------------------------------------------------------------------------
(* The files implement an append-only log                                  *)

LEMMA SameBeforeAppend ==
  ASSUME NEW l \in Seq(Requests), NEW m \in Seq(Requests), NEW x, NEW y,
         Append(l, x) = Append(m, y)
  PROVE  l = m
OBVIOUS

(* The log that is sure to survive is the one every directory has, or, of  *)
(* the two that may survive, the shorter.                                  *)
SafeLogInv ==
  /\ \E d \in survivors : SafeLog = RLog(d)
  /\ \A d \in survivors : RLog(d) = SafeLog \/ RLog(d) = RLog(disk)
  /\ \/ SafeLog = RLog(disk)
     \/ \E r \in Requests : RLog(disk) = Append(SafeLog, r)
  /\ SafeLog \in Seq(Requests)

LEMMA SafeLogIs == StoreInv => SafeLogInv
<1> SUFFICES ASSUME StoreInv
             PROVE  SafeLogInv
  OBVIOUS
<1> DEFINE logs == {RLog(d) : d \in survivors}
           Least(l) == \A m \in logs : Len(l) <= Len(m)
<1>1. disk \in survivors /\ RLog(disk) \in Seq(Requests)
      /\ \A d \in survivors : RLog(d) \in Seq(Requests) /\ Behind(d)
  BY DiskTypes DEF StoreInv, TypeOK, DiskInv
<1>2. \A l \in logs : Len(l) \in Nat /\ l \in Seq(Requests)
  BY <1>1, LenProperties
<1>3. \A d \in survivors : RLog(d) # RLog(disk) =>
        \E r \in Requests : RLog(disk) = Append(RLog(d), r)
  BY <1>1 DEF Behind
<1>4. SafeLog = CHOOSE l \in logs : Least(l)
  BY DEF SafeLog, RLog
<1>5. CASE \A d \in survivors : RLog(d) = RLog(disk)
  <2>1. logs = {RLog(disk)}
    BY <1>1, <1>5
  <2>2. Least(RLog(disk)) /\ RLog(disk) \in logs
    BY <1>2, <2>1
  <2>3. SafeLog = RLog(disk)
    BY <1>4, <2>1, <2>2
  <2>4. QED
    BY <1>1, <1>5, <2>3 DEF SafeLogInv
<1>6. CASE \E d \in survivors : RLog(d) # RLog(disk)
  <2>1. PICK d \in survivors : RLog(d) # RLog(disk)
    BY <1>6
  <2>2. PICK r \in Requests : RLog(disk) = Append(RLog(d), r)
    BY <1>3, <2>1
  <2>3. Len(RLog(disk)) = Len(RLog(d)) + 1 /\ Len(RLog(d)) \in Nat
    BY <1>1, <2>2
  <2>4. \A e \in survivors : RLog(e) = RLog(d) \/ RLog(e) = RLog(disk)
    BY <1>1, <1>3, <2>2, SameBeforeAppend
  <2>5. RLog(d) \in logs /\ \A l \in logs : l = RLog(d) \/ l = RLog(disk)
    BY <2>4
  <2>6. Least(RLog(d))
    BY <2>3, <2>5
  <2>7. \A l \in logs : Least(l) => l = RLog(d)
    BY <2>3, <2>5
  <2>8. SafeLog = RLog(d)
    BY <1>4, <2>5, <2>6, <2>7
  <2>9. QED
    BY <1>1, <2>2, <2>4, <2>8 DEF SafeLogInv
<1>7. QED
  BY <1>5, <1>6

(* What a log grows by is new in it.                                       *)
LEMMA NewInLog ==
  ASSUME NEW l \in Seq(Requests), NEW r \in Requests, NEW i, Tied(Append(l, r), i)
  PROVE  ~Contains(l, r)
<1> SUFFICES ASSUME NEW k \in 1..Len(l), l[k] = r
             PROVE  FALSE
  BY DEF Contains
<1>1. /\ Append(l, r)[k] = r /\ Append(l, r)[Len(l) + 1] = r
      /\ k \in DOMAIN Append(l, r) /\ Len(l) + 1 \in DOMAIN Append(l, r)
  OBVIOUS
<1>2. k = Len(l) + 1
  BY <1>1, TiedDistinct
<1>3. QED
  BY <1>2, LenProperties

LEMMA PromiseStep ==
  ASSUME StoreInv, StoreInv', SafeLogInv, SafeLogInv', [Next]_vars
  PROVE  \/ UNCHANGED <<SafeLog, acked>>
         \/ /\ UNCHANGED acked
            /\ \E r \in Requests : ~Contains(SafeLog, r) /\ SafeLog' = Append(SafeLog, r)
         \/ /\ UNCHANGED SafeLog /\ request \in Requests
            /\ Contains(SafeLog, request) /\ acked' = acked \cup {<<request, kind>>}
<1>1. /\ TypeOK /\ Asked /\ DiskInv /\ PhaseInv /\ PlanInv /\ MutexTyped
      /\ IsDisk(disk) /\ disk \in survivors
      /\ \A d \in survivors : RLog(d) \in Seq(Requests) /\ Tied(RLog(d), RIndex(d))
  BY TypeParts, DiskTypes DEF StoreInv, TypeOK, DiskInv, Sound
(* Whatever directory a step commits to, its log has grown by one at most. *)
<1>2. ASSUME NEW d \in survivors, survivors' = {d}, UNCHANGED acked
      PROVE  \/ UNCHANGED <<SafeLog, acked>>
             \/ /\ UNCHANGED acked
                /\ \E r \in Requests : ~Contains(SafeLog, r) /\ SafeLog' = Append(SafeLog, r)
  <2>1. SafeLog' = RLog(d)
    BY <1>2 DEF SafeLogInv
  <2>2. CASE RLog(d) = SafeLog
    BY <1>2, <2>1, <2>2
  <2>3. CASE RLog(d) # SafeLog
    <3>1. RLog(d) = RLog(disk) /\ SafeLog \in Seq(Requests)
      BY <2>3 DEF SafeLogInv
    <3>2. PICK r \in Requests : RLog(disk) = Append(SafeLog, r)
      BY <2>3, <3>1 DEF SafeLogInv
    <3>3. ~Contains(SafeLog, r)
      BY <1>1, <3>1, <3>2, NewInLog
    <3>4. QED
      BY <1>2, <2>1, <3>1, <3>2, <3>3
  <2>4. QED
    BY <2>2, <2>3
<1>3. CASE Step
  <2>1. UNCHANGED acked
    BY <1>1, <1>3, StepWrites
  <2>2. CASE SyncDir
    BY <1>1, <1>2, <2>1, <2>2 DEF SyncDir
  <2>3. CASE ~SyncDir
    <3>1. IsDisk(disk')
      BY DEF StoreInv, TypeOK
    <3>2. survivors' = survivors \cup {disk'} /\ Grows(disk, disk')
      BY <1>1, <1>3, <2>3, <3>1, StepDoes, RenameGrows
    <3>3. CASE RLog(disk') = RLog(disk)
      <4>1. {RLog(d) : d \in survivors'} = {RLog(d) : d \in survivors}
        BY <1>1, <3>2, <3>3
      <4>2. SafeLog' = SafeLog
        BY <4>1 DEF SafeLog, RLog
      <4>3. QED
        BY <2>1, <4>2
    <3>4. CASE RLog(disk') # RLog(disk)
      <4>1. disk["txn"] = Absent /\ \E r \in Requests : RLog(disk') = Append(RLog(disk), r)
        BY <3>2, <3>4 DEF Grows
      <4>2. \A d \in survivors : RLog(d) = RLog(disk)
        BY <1>1, <4>1 DEF DiskInv, Behind
      <4>3. SafeLog = RLog(disk)
        BY <4>2 DEF SafeLogInv
      <4>4. RLog(disk) = SafeLog'
        BY <1>1, <3>2, <3>4 DEF SafeLogInv
      <4>5. QED
        BY <2>1, <4>3, <4>4
    <3>5. QED
      BY <3>3, <3>4
  <2>4. QED
    BY <2>2, <2>3
<1>4. CASE PowerLoss
  BY <1>2, <1>4 DEF PowerLoss, Down
<1>5. CASE UNCHANGED <<disk, survivors>>
  <2>1. UNCHANGED SafeLog
    BY <1>5 DEF SafeLog
  <2>2. CASE UNCHANGED acked
    BY <2>1, <2>2
  <2>3. CASE acked' # acked
    <3>1. /\ acked' = acked \cup {<<request, kind>>} /\ request \in Requests
          /\ Recorded(request)
      BY <2>3, Acknowledged
    <3>2. PICK d \in survivors : SafeLog = RLog(d)
      BY DEF SafeLogInv
    <3>3. Contains(SafeLog, request)
      BY <1>1, <3>1, <3>2, TiedContains DEF Recorded
    <3>4. QED
      BY <2>1, <3>1, <3>3
  <2>4. QED
    BY <2>2, <2>3
<1>6. QED
  BY <1>3, <1>4, <1>5, DisksChange

(* The files implement CommitLog: each request enters the log that is sure *)
(* to survive at most once, none that a client was told of ever leaves it  *)
(* (README.md:9, commit.go:61-129).                                        *)
THEOREM FilesImplementCommitLog == Spec => CommitLogSpec
<1>1. Init => Promise!Init
  <2> SUFFICES ASSUME Init
               PROVE  SafeLog = <<>> /\ {a[1] : a \in acked} = {}
    BY DEF Promise!Init
  <2>1. SafeLogInv
    BY InitStoreInv, SafeLogIs
  <2>2. survivors = {Empty} /\ acked = {}
    BY DEF Init
  <2>3. RLog(Empty) = <<>>
    BY DEF RLog, Recovered, LogOf, Empty, Files
  <2>4. QED
    BY <2>1, <2>2, <2>3 DEF SafeLogInv
<1>2. StoreInv /\ StoreInv' /\ SafeLogInv /\ SafeLogInv' /\ [Next]_vars =>
        [Promise!Next]_(Promise!vars)
  <2> SUFFICES ASSUME StoreInv, StoreInv', SafeLogInv, SafeLogInv', [Next]_vars
               PROVE  [Promise!Next]_(Promise!vars)
    OBVIOUS
  <2>1. \A l, r : Promise!Contains(l, r) <=> Contains(l, r)
    BY DEF Promise!Contains, Contains
  <2>2. CASE UNCHANGED <<SafeLog, acked>>
    BY <2>2 DEF Promise!vars
  <2>3. ASSUME NEW r \in Requests, ~Contains(SafeLog, r), SafeLog' = Append(SafeLog, r),
               UNCHANGED acked
        PROVE  Promise!Next
    BY <2>1, <2>3 DEF Promise!Next, Promise!Append1
  <2>4. ASSUME UNCHANGED SafeLog, request \in Requests, Contains(SafeLog, request),
               acked' = acked \cup {<<request, kind>>}
        PROVE  Promise!Next
    <3>1. {a[1] : a \in acked'} = {a[1] : a \in acked} \cup {request}
      <4> DEFINE new == <<request, kind>>
      <4>1. acked' = acked \cup {new} /\ new[1] = request
        BY <2>4
      <4> HIDE DEF new
      <4>2. QED
        BY <4>1
    <3>2. Promise!Ack(request)
      BY <2>1, <2>4, <3>1 DEF Promise!Ack
    <3>3. QED
      BY <2>4, <3>2 DEF Promise!Next, Promise!Ack
  <2>5. QED
    BY <2>2, <2>3, <2>4, PromiseStep
<1>3. QED
  BY <1>1, <1>2, StoreInvariant, SafeLogIs, PTL DEF Spec, CommitLogSpec, Promise!Spec
=============================================================================
