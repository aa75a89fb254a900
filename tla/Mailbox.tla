------------------------------ MODULE Mailbox ------------------------------
(***************************************************************************)
(* The mailboxes of package application and the life of the process that   *)
(* holds them (cmd/server/main.go).  A call is one HTTP request that       *)
(* submits a task to the mailbox of its case.  Its client may leave at any *)
(* moment, which ends the context of the call; one goroutine per case      *)
(* takes the tasks in turn.  What a task does to the case is one step,     *)
(* CarryOut: the point at which the case took the command in, or, for a    *)
(* precheck or a repeated request, was read.                               *)
(***************************************************************************)
EXTENDS Naturals, Sequences, FiniteSets, SequencesExt

CONSTANTS
  Calls,
  Cases,
  CaseOf,     \* the case a call is for
  Capacity,   \* how many tasks a mailbox holds; 32 in the code
  Hung,       \* the cases whose storage may keep a task for ever
  NoCall

ASSUME MailboxAssumption ==
  /\ CaseOf \in [Calls -> Cases] /\ Hung \subseteq Cases
  /\ Capacity \in Nat \ {0} /\ NoCall \notin Calls

VARIABLES
  server,   \* "up", "closing", "down"
  caller,   \* where the goroutine of a call is in submit
  left,     \* the calls whose context is done
  loops,    \* the calls that started the goroutine of a mailbox
  jobs,     \* the tasks in the mailbox of a case
  hand,     \* the task a loop is running
  done,     \* the channel, of capacity one, a task is answered through
  answer,   \* what submit returned
  effects,  \* of each case, the calls carried out, in order
  earlier   \* the calls that were over for their clients when a call was made

vars == <<server, caller, left, loops, jobs, hand, done, answer, effects, earlier>>
history == <<effects, earlier>>

InFlight == {c \in Calls : caller[c] \in {"sending", "waiting"}}
Over     == left \cup {c \in Calls : answer[c] # "none"}
Performed(c) == Contains(effects[CaseOf[c]], c)
LoopsOf(k) == {l \in loops : CaseOf[l] = k}

Init ==
  /\ server = "up" /\ left = {} /\ loops = {}
  /\ caller = [c \in Calls |-> "away"]
  /\ jobs = [k \in Cases |-> <<>>]
  /\ hand = [l \in Calls |-> NoCall]
  /\ done = [c \in Calls |-> "none"] /\ answer = [c \in Calls |-> "none"]
  /\ effects = [k \in Cases |-> <<>>] /\ earlier = [c \in Calls |-> {}]
-----------------------------------------------------------------------------
(* The caller                                                              *)

(* LoadOrStore lets one of the callers of a new case start its loop.       *)
Get_EveryCallerStarts(c) == loops' = loops \cup {c}
Get(c) == loops' = IF LoopsOf(CaseOf[c]) = {} THEN loops \cup {c} ELSE loops

Submit(c) ==
  /\ server = "up" /\ caller[c] = "away"
  /\ caller' = [caller EXCEPT ![c] = "sending"]
  /\ Get(c)
  /\ earlier' = [earlier EXCEPT ![c] = {d \in Over : CaseOf[d] = CaseOf[c]}]
  /\ UNCHANGED <<server, left, jobs, hand, done, answer, effects>>

HasRoom_OffByOne(k) == Len(jobs[k]) <= Capacity
HasRoom(k) == Len(jobs[k]) < Capacity

Enqueue(c) ==
  /\ server # "down" /\ caller[c] = "sending"
  /\ HasRoom(CaseOf[c])
  /\ jobs' = [jobs EXCEPT ![CaseOf[c]] = Append(@, c)]
  /\ caller' = [caller EXCEPT ![c] = "waiting"]
  /\ UNCHANGED <<server, left, loops, hand, done, answer, history>>

(* The client closes its connection.                                       *)
Leave(c) ==
  /\ server # "down" /\ c \in InFlight /\ c \notin left
  /\ left' = left \cup {c}
  /\ UNCHANGED <<server, caller, loops, jobs, hand, done, answer, history>>

Return(c, a) ==
  /\ caller' = [caller EXCEPT ![c] = "returned"]
  /\ answer' = [answer EXCEPT ![c] = a]

(* Either select of submit; when the other branch is ready too, either may *)
(* be taken.                                                               *)
GiveUp_OnlySending(c) ==
  /\ server # "down" /\ c \in left /\ caller[c] = "sending"
  /\ Return(c, "cancelled")
  /\ UNCHANGED <<server, left, loops, jobs, hand, done, history>>
GiveUp(c) ==
  /\ server # "down" /\ c \in left /\ c \in InFlight
  /\ Return(c, "cancelled")
  /\ UNCHANGED <<server, left, loops, jobs, hand, done, history>>

Receive(c) ==
  /\ server # "down" /\ caller[c] = "waiting" /\ done[c] # "none"
  /\ Return(c, done[c])
  /\ UNCHANGED <<server, left, loops, jobs, hand, done, history>>
-----------------------------------------------------------------------------
(* The loop of a mailbox                                                   *)

(* A task whose context is done when its turn comes is not run.            *)
Dropped_Never(c) == FALSE
Dropped(c) == c \in left

Take(l) ==
  LET k == CaseOf[l] IN
  /\ server # "down" /\ l \in loops /\ hand[l] = NoCall /\ jobs[k] # <<>>
  /\ jobs' = [jobs EXCEPT ![k] = Tail(@)]
  /\ IF Dropped(Head(jobs[k]))
     THEN done' = [done EXCEPT ![Head(jobs[k])] = "cancelled"] /\ UNCHANGED hand
     ELSE hand' = [hand EXCEPT ![l] = Head(jobs[k])] /\ UNCHANGED done
  /\ UNCHANGED <<server, caller, left, loops, answer, history>>

CarryOut(l) ==
  /\ server # "down" /\ hand[l] # NoCall /\ ~Performed(hand[l])
  /\ effects' = [effects EXCEPT ![CaseOf[l]] = Append(@, hand[l])]
  /\ UNCHANGED <<server, caller, left, loops, jobs, hand, done, answer, earlier>>

(* A task may fail without an effect, and also after it: a write of the    *)
(* commit has failed that a recovery will complete.                        *)
Outcomes(c) == IF Performed(c) THEN {"ok", "error"} ELSE {"error"}

Finish_CallerMustWait(l) ==
  LET c == hand[l] IN
  /\ server # "down" /\ c # NoCall /\ caller[c] = "waiting"
  /\ \E o \in Outcomes(c) : done' = [done EXCEPT ![c] = o]
  /\ hand' = [hand EXCEPT ![l] = NoCall]
  /\ UNCHANGED <<server, caller, left, loops, jobs, answer, history>>
Finish(l) ==
  LET c == hand[l] IN
  /\ server # "down" /\ c # NoCall
  /\ \E o \in Outcomes(c) : done' = [done EXCEPT ![c] = o]
  /\ hand' = [hand EXCEPT ![l] = NoCall]
  /\ UNCHANGED <<server, caller, left, loops, jobs, answer, history>>
-----------------------------------------------------------------------------
(* The process                                                             *)

calling == <<caller, left, loops, jobs, hand, done, answer, history>>

(* A signal: no more connections, those at work are waited for.            *)
Shutdown == server = "up" /\ server' = "closing" /\ UNCHANGED calling

(* Mailboxes, loops and what they hold end with the process; its callers   *)
(* get no answer.                                                          *)
Stop ==
  /\ server' = "down" /\ loops' = {}
  /\ jobs' = [k \in Cases |-> <<>>] /\ hand' = [l \in Calls |-> NoCall]
  /\ done' = [c \in Calls |-> "none"]
  /\ UNCHANGED <<caller, left, answer, history>>

(* Shutdown returns when no handler is at work; a loop may still be.       *)
Exit_AwaitsTasks ==
  /\ server = "closing" /\ InFlight = {} /\ \A l \in loops : hand[l] = NoCall
  /\ Stop
Exit == server = "closing" /\ InFlight = {} /\ Stop

(* Ten seconds have passed.                                                *)
Timeout == server = "closing" /\ Stop

ServeFails == server = "up" /\ Stop
-----------------------------------------------------------------------------
Next ==
  \/ \E c \in Calls :
       Submit(c) \/ Enqueue(c) \/ Leave(c) \/ GiveUp(c) \/ Receive(c)
         \/ Take(c) \/ CarryOut(c) \/ Finish(c)
  \/ Shutdown \/ Exit \/ Timeout \/ ServeFails

Spec == Init /\ [][Next]_vars

(* Loops run, except that a hung case may keep a task; a caller whose      *)
(* answer or whose ended context is there returns.  A sender that waits    *)
(* for a place gets it in its turn (a Go channel serves its blocked        *)
(* senders first come, first served).  Shutdown returns when it can.  That *)
(* its deadline passes is not assumed: ShutdownDrains says what ends       *)
(* without it.                                                             *)
FairSpec ==
  /\ Spec
  /\ \A c \in Calls :
       /\ WF_vars(Take(c) \/ (CaseOf[c] \notin Hung /\ Finish(c)))
       /\ SF_vars(Enqueue(c))
       /\ WF_vars(Receive(c) \/ GiveUp(c))
  /\ WF_vars(Exit)
-----------------------------------------------------------------------------
Answers == {"ok", "error", "cancelled"}

(* Callers, loops, queues and channels stay within their types and bounds, *)
(* and a process that is down holds nothing (mailbox.go:8-18).             *)
TypeOK ==
  /\ server \in {"up", "closing", "down"}
  /\ caller \in [Calls -> {"away", "sending", "waiting", "returned"}]
  /\ left \subseteq Calls /\ loops \subseteq Calls
  /\ jobs \in [Cases -> Seq(Calls)]
  /\ \A k \in Cases : Len(jobs[k]) <= Capacity
  /\ hand \in [Calls -> Calls \cup {NoCall}]
  /\ done \in [Calls -> Answers \cup {"none"}]
  /\ answer \in [Calls -> Answers \cup {"none"}]
  /\ effects \in [Cases -> Seq(Calls)] /\ earlier \in [Calls -> SUBSET Calls]
  /\ server = "down" => loops = {} /\ \A k \in Cases : jobs[k] = <<>>

(* However many callers find a case without a mailbox at once, its tasks   *)
(* run one at a time: between the load a command is decided on and its     *)
(* commit no other command of the case comes in (mailbox.go:26-33,47-57).  *)
OneAtATime ==
  \A l, m \in loops :
    hand[l] # NoCall /\ hand[m] # NoCall /\ CaseOf[l] = CaseOf[m] => l = m

Contract == INSTANCE CallContract WITH
  asked <- {c \in Calls : caller[c] # "away"}

(* Callers get what CallContract promises: whoever gives a call up and     *)
(* makes another one does not have the first come in after the second      *)
(* (mailbox.go:35-57).                                                     *)
CallContractSpec == Contract!Spec

(* A call returns if the storage of its case works, however many callers   *)
(* before it left their tasks behind in a full mailbox and whatever hangs  *)
(* in another case; unless the process goes down (mailbox.go:34-57).       *)
CallsReturn ==
  \A c \in Calls :
    c \in InFlight /\ CaseOf[c] \notin Hung ~> c \notin InFlight \/ server = "down"

(* A process told to stop answers the calls at work and stops.  The one    *)
(* thing that leaves it to the deadline is a call whose task hangs and     *)
(* whose client stays; a task that hangs for a client who left does not    *)
(* (main.go:90-97, mailbox.go:34-57).                                      *)
HeldUp ==
  /\ InFlight # {} /\ InFlight \cap left = {}
  /\ \A c \in InFlight : CaseOf[c] \in Hung
ShutdownDrains == server = "closing" ~> server = "down" \/ []HeldUp
=============================================================================
