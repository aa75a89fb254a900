--------------------------- MODULE MailboxProofs ---------------------------
(***************************************************************************)
(* Mailbox, for every set of calls and cases and every capacity: its       *)
(* types, one task at a time, and that it implements CallContract.         *)
(***************************************************************************)
EXTENDS Mailbox, SequenceTheorems, TLAPS

Queued(c) == Contains(jobs[CaseOf[c]], c)
Held(c)   == \E l \in Calls : hand[l] = c

(* A case has one loop, which runs tasks of its case only; a task is once  *)
(* in the queue of its case, then in the hand of its loop, and carried out *)
(* there.                                                                  *)
PlaceInv ==
  /\ \A l, m \in loops : CaseOf[l] = CaseOf[m] => l = m
  /\ \A l \in Calls :
       hand[l] # NoCall => l \in loops /\ CaseOf[hand[l]] = CaseOf[l]
  /\ \A k \in Cases :
       IsInjective(jobs[k]) /\ \A c \in Calls : Contains(jobs[k], c) => CaseOf[c] = k
  /\ \A c \in Calls : Queued(c) => ~Held(c) /\ ~Performed(c)

(* Where a call is, and what it was answered, go together: a task still    *)
(* queued or running has no result, and its caller was told, if anything,  *)
(* that it gave up.                                                        *)
CallInv ==
  \A c \in Calls :
    /\ Queued(c) \/ Held(c) =>
         done[c] = "none" /\ answer[c] \in {"none", "cancelled"}
    /\ caller[c] \in {"away", "sending"} =>
         ~Queued(c) /\ ~Held(c) /\ ~Performed(c) /\ done[c] = "none"
    /\ caller[c] = "returned" <=> answer[c] # "none"
    /\ caller[c] = "away" => c \notin left

(* A result says what happened.                                            *)
ResultInv ==
  \A c \in Calls :
    /\ "ok" \in {done[c], answer[c]} => Performed(c)
    /\ "cancelled" \in {done[c], answer[c]} => c \in left

(* A task whose turn came before it was over is finished before the loop   *)
(* takes one that was submitted when it was over; one whose turn came      *)
(* after is dropped.                                                       *)
OrderInv ==
  \A c, d \in Calls :
    c \in earlier[d] =>
      /\ CaseOf[c] = CaseOf[d] /\ c # d /\ c \in Over
      /\ Held(c) => ~Performed(d)

MailboxInv == TypeOK /\ PlaceInv /\ CallInv /\ ResultInv /\ OrderInv
-----------------------------------------------------------------------------
(* Append adds one element, behind the others.                             *)
LEMMA AppendedElements ==
  ASSUME NEW S, NEW s \in Seq(S), NEW x \in S
  PROVE  /\ Append(s, x) \in Seq(S) /\ Len(Append(s, x)) = Len(s) + 1
         /\ \A e : Contains(Append(s, x), e) <=> Contains(s, e) \/ e = x
         /\ IsInjective(s) /\ ~Contains(s, x) => IsInjective(Append(s, x))
<1>1. /\ Append(s, x) \in Seq(S) /\ Len(Append(s, x)) = Len(s) + 1
      /\ \A i \in 1..Len(s) : Append(s, x)[i] = s[i]
      /\ Append(s, x)[Len(s) + 1] = x
      /\ Len(s) \in Nat
  BY AppendProperties, LenProperties
<1>2. \A e : Contains(Append(s, x), e) <=> Contains(s, e) \/ e = x
  BY <1>1 DEF Contains
<1>3. ASSUME IsInjective(s), ~Contains(s, x)
      PROVE  IsInjective(Append(s, x))
  BY <1>1, <1>3, LenProperties DEF IsInjective, Contains
<1>4. QED
  BY <1>1, <1>2, <1>3

(* Taking the head leaves the other elements, and no second head.          *)
LEMMA TakenElements ==
  ASSUME NEW S, NEW s \in Seq(S), s # <<>>
  PROVE  /\ Head(s) \in S /\ Contains(s, Head(s))
         /\ Tail(s) \in Seq(S) /\ Len(Tail(s)) <= Len(s)
         /\ \A e : Contains(Tail(s), e) => Contains(s, e)
         /\ IsInjective(s) => IsInjective(Tail(s)) /\ ~Contains(Tail(s), Head(s))
<1>1. /\ Head(s) \in S /\ Tail(s) \in Seq(S)
      /\ Len(s) \in Nat \ {0} /\ Len(Tail(s)) = Len(s) - 1
      /\ \A i \in 1..Len(Tail(s)) : Tail(s)[i] = s[i + 1]
      /\ DOMAIN s = 1..Len(s) /\ DOMAIN Tail(s) = 1..Len(Tail(s))
  BY HeadTailProperties, LenProperties, EmptySeq
<1>2. Head(s) = s[1]
  BY HeadTailProperties
<1>3. Contains(s, Head(s))
  BY <1>1, <1>2 DEF Contains
<1>4. \A e : Contains(Tail(s), e) => Contains(s, e)
  BY <1>1 DEF Contains
<1>5. ASSUME IsInjective(s)
      PROVE  IsInjective(Tail(s)) /\ ~Contains(Tail(s), Head(s))
  BY <1>1, <1>2, <1>5 DEF IsInjective, Contains
<1>6. QED
  BY <1>1, <1>3, <1>4, <1>5

(* Nothing is in the empty sequence.                                       *)
LEMMA EmptyElements ==
  /\ Len(<<>>) = 0 /\ IsInjective(<<>>) /\ \A e : ~Contains(<<>>, e)
  /\ \A S : <<>> \in Seq(S)
  BY EmptySeq DEF IsInjective, Contains
-----------------------------------------------------------------------------
(* Callers, loops, queues and channels keep their types and bounds         *)
(* (mailbox.go:8-18).                                                      *)
THEOREM Typing == Spec => []TypeOK
<1> USE MailboxAssumption DEF Answers
<1>1. Init => TypeOK
  BY EmptyElements DEF Init, TypeOK
<1>2. TypeOK /\ [Next]_vars => TypeOK'
  <2> SUFFICES ASSUME TypeOK, [Next]_vars
               PROVE  TypeOK'
    OBVIOUS
  <2>1. ASSUME NEW c \in Calls, Submit(c)
        PROVE  TypeOK'
    BY <2>1 DEF TypeOK, Submit, Get, Over
  <2>2. ASSUME NEW c \in Calls, Enqueue(c)
        PROVE  TypeOK'
    <3>1. /\ Append(jobs[CaseOf[c]], c) \in Seq(Calls)
          /\ Len(Append(jobs[CaseOf[c]], c)) <= Capacity
      BY <2>2, AppendedElements, LenProperties DEF TypeOK, Enqueue, HasRoom
    <3>2. QED
      BY <2>2, <3>1 DEF TypeOK, Enqueue, history
  <2>3. ASSUME NEW c \in Calls, Leave(c)
        PROVE  TypeOK'
    BY <2>3 DEF TypeOK, Leave, history
  <2>4. ASSUME NEW c \in Calls, GiveUp(c) \/ Receive(c)
        PROVE  TypeOK'
    <3>1. PICK a \in Answers : Return(c, a)
      BY <2>4 DEF GiveUp, Receive, TypeOK
    <3>2. UNCHANGED <<server, left, loops, jobs, hand, done, history>>
      BY <2>4 DEF GiveUp, Receive
    <3>3. QED
      BY <2>4, <3>1, <3>2 DEF TypeOK, GiveUp, Receive, Return, history
  <2>5. ASSUME NEW l \in Calls, Take(l)
        PROVE  TypeOK'
    <3> DEFINE k == CaseOf[l]
    <3>1. /\ Head(jobs[k]) \in Calls /\ Tail(jobs[k]) \in Seq(Calls)
          /\ Len(Tail(jobs[k])) <= Capacity
      BY <2>5, TakenElements, LenProperties DEF TypeOK, Take
    <3>2. jobs' \in [Cases -> Seq(Calls)] /\ \A q \in Cases : Len(jobs'[q]) <= Capacity
      BY <2>5, <3>1 DEF TypeOK, Take
    <3>3. /\ hand' \in [Calls -> Calls \cup {NoCall}]
          /\ done' \in [Calls -> Answers \cup {"none"}]
      <4> DEFINE t == Head(jobs[k])
      <4>1. \/ done' = [done EXCEPT ![t] = "cancelled"] /\ UNCHANGED hand
            \/ hand' = [hand EXCEPT ![l] = t] /\ UNCHANGED done
        BY <2>5 DEF Take
      <4> HIDE DEF t
      <4>2. t \in Calls
        BY <3>1 DEF t
      <4>3. CASE done' = [done EXCEPT ![t] = "cancelled"] /\ UNCHANGED hand
        BY <4>2, <4>3 DEF TypeOK
      <4>4. CASE hand' = [hand EXCEPT ![l] = t] /\ UNCHANGED done
        BY <4>2, <4>4 DEF TypeOK
      <4>5. QED
        BY <4>1, <4>3, <4>4
    <3>4. QED
      BY <2>5, <3>2, <3>3 DEF TypeOK, Take, history
  <2>6. ASSUME NEW l \in Calls, CarryOut(l)
        PROVE  TypeOK'
    <3>1. Append(effects[CaseOf[l]], hand[l]) \in Seq(Calls)
      BY <2>6, AppendedElements DEF TypeOK, CarryOut
    <3>2. QED
      BY <2>6, <3>1 DEF TypeOK, CarryOut
  <2>7. ASSUME NEW l \in Calls, Finish(l)
        PROVE  TypeOK'
    BY <2>7 DEF TypeOK, Finish, Outcomes, history
  <2>8. CASE Shutdown
    BY <2>8 DEF TypeOK, Shutdown, calling, history
  <2>9. CASE Stop
    BY <2>9, EmptyElements DEF TypeOK, Stop, history
  <2>10. CASE UNCHANGED vars
    BY <2>10 DEF TypeOK, vars
  <2>11. QED
    BY <2>1, <2>2, <2>3, <2>4, <2>5, <2>6, <2>7, <2>8, <2>9, <2>10
       DEF Next, Exit, Timeout, ServeFails
<1>3. QED
  BY <1>1, <1>2, PTL DEF Spec
-----------------------------------------------------------------------------
(* What a step does to where the tasks are                                 *)

LEMMA WorkUntouched ==
  ASSUME UNCHANGED <<jobs, hand, effects>>
  PROVE  \A c : /\ Queued(c)' <=> Queued(c)
                /\ Held(c)' <=> Held(c)
                /\ Performed(c)' <=> Performed(c)
  BY DEF Queued, Held, Performed

LEMMA EnqueueWork ==
  ASSUME MailboxInv, NEW c \in Calls, Enqueue(c)
  PROVE  /\ \A d \in Calls : /\ Queued(d)' <=> Queued(d) \/ d = c
                             /\ Held(d)' <=> Held(d)
                             /\ Performed(d)' <=> Performed(d)
         /\ ~Queued(c) /\ ~Held(c) /\ ~Performed(c)
         /\ \A k \in Cases :
              /\ IsInjective(jobs'[k])
              /\ \A d \in Calls : Contains(jobs'[k], d) => CaseOf[d] = k
<1> USE MailboxAssumption DEF MailboxInv
<1> DEFINE q == CaseOf[c]
<1>1. ~Queued(c) /\ ~Held(c) /\ ~Performed(c)
  BY DEF CallInv, Enqueue
<1>2. q \in Cases /\ jobs[q] \in Seq(Calls) /\ jobs \in [Cases -> Seq(Calls)]
  BY DEF TypeOK
<1>3. jobs' = [jobs EXCEPT ![q] = Append(jobs[q], c)]
  BY DEF Enqueue
<1>4. /\ \A d : Contains(Append(jobs[q], c), d) <=> Contains(jobs[q], d) \/ d = c
      /\ IsInjective(Append(jobs[q], c))
  BY <1>1, <1>2, AppendedElements DEF PlaceInv, Queued
<1>5. \A k \in Cases : /\ IsInjective(jobs'[k])
                       /\ \A d \in Calls : Contains(jobs'[k], d) => CaseOf[d] = k
  BY <1>2, <1>3, <1>4 DEF PlaceInv
<1>6. \A d \in Calls : Queued(d)' <=> Queued(d) \/ d = c
  BY <1>2, <1>3, <1>4 DEF Queued
<1>7. \A d \in Calls : (Held(d)' <=> Held(d)) /\ (Performed(d)' <=> Performed(d))
  BY DEF Enqueue, Held, Performed, history
<1>8. QED
  BY <1>1, <1>5, <1>6, <1>7

(* The head of the queue leaves it, for the hand of the loop or for good.  *)
LEMMA TakeWork ==
  ASSUME MailboxInv, NEW l \in Calls, Take(l)
  PROVE  \E t \in Calls :
           /\ Queued(t) /\ CaseOf[t] = CaseOf[l]
           /\ \A d \in Calls : /\ Queued(d)' => Queued(d) /\ d # t
                               /\ Held(d)' => Held(d) \/ (d = t /\ t \notin left)
                               /\ Performed(d)' <=> Performed(d)
           /\ hand[l] = NoCall
           /\ \/ t \notin left /\ hand' = [hand EXCEPT ![l] = t] /\ UNCHANGED done
              \/ /\ t \in left /\ done' = [done EXCEPT ![t] = "cancelled"]
                 /\ UNCHANGED hand
           /\ \A k \in Cases :
                /\ IsInjective(jobs'[k])
                /\ \A d \in Calls : Contains(jobs'[k], d) => CaseOf[d] = k
<1> USE MailboxAssumption DEF MailboxInv
<1> DEFINE q == CaseOf[l]
           t == Head(jobs[q])
<1>1. /\ q \in Cases /\ jobs[q] \in Seq(Calls) /\ jobs \in [Cases -> Seq(Calls)]
      /\ hand \in [Calls -> Calls \cup {NoCall}] /\ jobs[q] # <<>>
  BY DEF TypeOK, Take
<1>2. jobs' = [jobs EXCEPT ![q] = Tail(jobs[q])] /\ hand[l] = NoCall
  BY DEF Take
<1>3. \/ t \notin left /\ hand' = [hand EXCEPT ![l] = t] /\ UNCHANGED done
      \/ t \in left /\ done' = [done EXCEPT ![t] = "cancelled"] /\ UNCHANGED hand
  BY DEF Take, Dropped
<1> HIDE DEF t
<1>4. /\ t \in Calls /\ Contains(jobs[q], t)
      /\ \A d : Contains(Tail(jobs[q]), d) => Contains(jobs[q], d)
      /\ IsInjective(Tail(jobs[q])) /\ ~Contains(Tail(jobs[q]), t)
  BY <1>1, TakenElements DEF PlaceInv, t
<1>5. CaseOf[t] = q
  BY <1>1, <1>4 DEF PlaceInv
<1>6. \A k \in Cases : /\ IsInjective(jobs'[k])
                       /\ \A d \in Calls : Contains(jobs'[k], d) => CaseOf[d] = k
  BY <1>1, <1>2, <1>4 DEF PlaceInv
<1>7. \A d \in Calls : Queued(d)' => Queued(d) /\ d # t
  BY <1>1, <1>2, <1>4, <1>5 DEF Queued
<1>8. \A d \in Calls : Held(d)' => Held(d) \/ (d = t /\ t \notin left)
  BY <1>1, <1>3 DEF Held
<1>9. \A d \in Calls : Performed(d)' <=> Performed(d)
  BY DEF Take, Performed, history
<1>10. Queued(t)
  BY <1>4, <1>5 DEF Queued
<1>11. QED
  BY <1>2, <1>3, <1>4, <1>5, <1>6, <1>7, <1>8, <1>9, <1>10

(* The task in hand takes effect, in its own case.                         *)
LEMMA CarryOutWork ==
  ASSUME MailboxInv, NEW l \in Calls, CarryOut(l)
  PROVE  /\ hand[l] \in Calls /\ CaseOf[hand[l]] = CaseOf[l] /\ l \in loops
         /\ \A d \in Calls : /\ Queued(d)' <=> Queued(d)
                             /\ Held(d)' <=> Held(d)
                             /\ Performed(d)' <=> Performed(d) \/ d = hand[l]
<1> USE MailboxAssumption DEF MailboxInv
<1> DEFINE c == hand[l]
           q == CaseOf[l]
<1>1. c \in Calls /\ CaseOf[c] = q /\ l \in loops /\ q \in Cases
  BY DEF CarryOut, TypeOK, PlaceInv
<1>2. effects \in [Cases -> Seq(Calls)] /\ effects' = [effects EXCEPT ![q] = Append(effects[q], c)]
  BY DEF TypeOK, CarryOut
<1>3. \A d : Contains(Append(effects[q], c), d) <=> Contains(effects[q], d) \/ d = c
  BY <1>1, <1>2, AppendedElements
<1>4. \A d \in Calls : Performed(d)' <=> Performed(d) \/ d = c
  BY <1>1, <1>2, <1>3 DEF Performed
<1>5. \A d \in Calls : (Queued(d)' <=> Queued(d)) /\ (Held(d)' <=> Held(d))
  BY DEF CarryOut, Queued, Held
<1>6. QED
  BY <1>1, <1>4, <1>5

(* The hand of a loop is empty again.                                      *)
LEMMA FinishWork ==
  ASSUME MailboxInv, NEW l \in Calls, Finish(l)
  PROVE  /\ hand[l] \in Calls /\ Held(hand[l])
         /\ hand' = [hand EXCEPT ![l] = NoCall]
         /\ \E o \in Answers : /\ done' = [done EXCEPT ![hand[l]] = o]
                               /\ o # "cancelled" /\ (o = "ok" => Performed(hand[l]))
         /\ \A d \in Calls : /\ Queued(d)' <=> Queued(d)
                             /\ Held(d)' => Held(d) /\ d # hand[l]
                             /\ Performed(d)' <=> Performed(d)
<1> USE MailboxAssumption DEF MailboxInv
<1>1. hand[l] \in Calls /\ hand \in [Calls -> Calls \cup {NoCall}]
  BY DEF Finish, TypeOK
<1>2. hand' = [hand EXCEPT ![l] = NoCall]
  BY DEF Finish
<1>3. \E o \in Answers : /\ done' = [done EXCEPT ![hand[l]] = o]
                         /\ o # "cancelled" /\ (o = "ok" => Performed(hand[l]))
  BY DEF Finish, Outcomes, Answers
<1>4. \A d \in Calls : Held(d)' => Held(d) /\ d # hand[l]
  <2> SUFFICES ASSUME NEW d \in Calls, NEW m \in Calls, hand'[m] = d
               PROVE  Held(d) /\ d # hand[l]
    BY DEF Held
  <2>1. m # l /\ hand[m] = d
    BY <1>1, <1>2
  <2>2. hand[m] = hand[l] => m = l
    BY <1>1, <2>1 DEF PlaceInv
  <2>3. QED
    BY <2>1, <2>2 DEF Held
<1>5. \A d \in Calls : (Queued(d)' <=> Queued(d)) /\ (Performed(d)' <=> Performed(d))
  BY DEF Finish, Queued, Performed, history
<1>6. Held(hand[l])
  BY DEF Held
<1>7. QED
  BY <1>1, <1>2, <1>3, <1>4, <1>5, <1>6

(* Nothing is left of the tasks, but what they did.                        *)
LEMMA StopWork ==
  ASSUME MailboxInv, Stop
  PROVE  \A d \in Calls : ~Queued(d)' /\ ~Held(d)' /\ (Performed(d)' <=> Performed(d))
<1> USE MailboxAssumption DEF MailboxInv
<1>1. \A d \in Calls : ~Queued(d)'
  BY EmptyElements DEF Stop, Queued
<1>2. \A d \in Calls : ~Held(d)'
  BY DEF Stop, Held
<1>3. QED
  BY <1>1, <1>2 DEF Stop, Performed, history
-----------------------------------------------------------------------------
(* The invariant                                                           *)

(* Only the caller's side moves: its steps and those of a client.          *)
LEMMA CallerKeeps ==
  ASSUME MailboxInv, NEW c \in Calls,
         Submit(c) \/ Leave(c) \/ GiveUp(c) \/ Receive(c)
  PROVE  PlaceInv' /\ CallInv' /\ ResultInv' /\ OrderInv'
<1> USE MailboxAssumption DEF MailboxInv
<1>1. UNCHANGED <<jobs, hand, done, effects>>
  BY DEF Submit, Leave, GiveUp, Receive, history
<1>2. \A d \in Calls : /\ Queued(d)' <=> Queued(d)
                       /\ Held(d)' <=> Held(d)
                       /\ Performed(d)' <=> Performed(d)
  BY <1>1, WorkUntouched
<1>3. PlaceInv'
  <2>1. loops' = loops \/ (loops' = loops \cup {c} /\ LoopsOf(CaseOf[c]) = {})
    BY DEF Submit, Get, Leave, GiveUp, Receive
  <2>2. \A l, m \in loops' : CaseOf[l] = CaseOf[m] => l = m
    BY <2>1 DEF PlaceInv, LoopsOf
  <2>3. QED
    BY <1>1, <1>2, <2>1, <2>2 DEF PlaceInv
<1>4. CASE Submit(c)
  <2>1. /\ caller[c] = "away" /\ caller' = [caller EXCEPT ![c] = "sending"]
        /\ earlier' = [earlier EXCEPT ![c] = {d \in Over : CaseOf[d] = CaseOf[c]}]
        /\ UNCHANGED <<left, answer>> /\ Over' = Over
    BY <1>4 DEF Submit, Over
  <2>2. CallInv'
    BY <1>1, <1>2, <2>1 DEF CallInv, TypeOK
  <2>3. ResultInv'
    BY <1>1, <1>2, <2>1 DEF ResultInv
  <2>4. c \notin Over /\ ~Performed(c) /\ Over \subseteq Calls
    BY <2>1 DEF CallInv, Over, TypeOK
  <2>5. OrderInv'
    BY <1>2, <2>1, <2>4 DEF OrderInv, TypeOK
  <2>6. QED
    BY <1>3, <2>2, <2>3, <2>5
<1>5. CASE Leave(c)
  <2>1. /\ caller[c] # "away" /\ left' = left \cup {c} /\ Over \subseteq Over'
        /\ UNCHANGED <<caller, answer, earlier>>
    BY <1>5 DEF Leave, InFlight, Over, history
  <2>2. CallInv' /\ ResultInv' /\ OrderInv'
    BY <1>1, <1>2, <2>1 DEF CallInv, ResultInv, OrderInv, TypeOK
  <2>3. QED
    BY <1>3, <2>2
<1>6. ASSUME NEW a \in Answers, Return(c, a), UNCHANGED <<left, earlier>>,
             caller[c] # "away",
             Queued(c) \/ Held(c) => a = "cancelled",
             a = "ok" => Performed(c), a = "cancelled" => c \in left
      PROVE  CallInv' /\ ResultInv' /\ OrderInv'
  <2>1. /\ caller' = [caller EXCEPT ![c] = "returned"]
        /\ answer' = [answer EXCEPT ![c] = a]
        /\ caller \in [Calls -> {"away", "sending", "waiting", "returned"}]
        /\ answer \in [Calls -> Answers \cup {"none"}]
    BY <1>6 DEF Return, TypeOK
  <2>2. CallInv'
    BY <1>1, <1>2, <1>6, <2>1 DEF CallInv, Answers
  <2>3. ResultInv'
    BY <1>1, <1>2, <1>6, <2>1 DEF ResultInv
  <2>4. Over \subseteq Over'
    BY <1>6, <2>1 DEF Over, Answers
  <2>5. OrderInv'
    BY <1>2, <1>6, <2>4 DEF OrderInv, TypeOK
  <2>6. QED
    BY <2>2, <2>3, <2>5
<1>7. CASE GiveUp(c)
  <2>1. /\ Return(c, "cancelled") /\ c \in left /\ caller[c] # "away"
        /\ UNCHANGED <<left, earlier>>
    BY <1>7 DEF GiveUp, InFlight, history
  <2>2. QED
    BY <1>3, <1>6, <2>1 DEF Answers
<1>8. CASE Receive(c)
  <2>1. /\ Return(c, done[c]) /\ done[c] # "none" /\ caller[c] # "away"
        /\ UNCHANGED <<left, earlier>>
    BY <1>8 DEF Receive, history
  <2>2. done[c] \in Answers /\ ~Queued(c) /\ ~Held(c)
    BY <2>1 DEF CallInv, TypeOK
  <2>3. /\ done[c] = "ok" => Performed(c)
        /\ done[c] = "cancelled" => c \in left
    BY DEF ResultInv
  <2>4. QED
    BY <1>3, <1>6, <2>1, <2>2, <2>3
<1>9. QED
  BY <1>4, <1>5, <1>7, <1>8

LEMMA EnqueueKeeps ==
  ASSUME MailboxInv, NEW c \in Calls, Enqueue(c)
  PROVE  PlaceInv' /\ CallInv' /\ ResultInv' /\ OrderInv'
<1> USE MailboxAssumption DEF MailboxInv
<1>1. /\ caller[c] = "sending" /\ caller' = [caller EXCEPT ![c] = "waiting"]
      /\ UNCHANGED <<left, loops, hand, done, answer, effects, earlier>> /\ Over' = Over
      /\ caller \in [Calls -> {"away", "sending", "waiting", "returned"}]
  BY DEF Enqueue, history, Over, TypeOK
<1>2. PlaceInv'
  BY <1>1, EnqueueWork DEF PlaceInv
<1>3. CallInv'
  BY <1>1, EnqueueWork DEF CallInv
<1>4. ResultInv' /\ OrderInv'
  BY <1>1, EnqueueWork DEF ResultInv, OrderInv
<1>5. QED
  BY <1>2, <1>3, <1>4

LEMMA TakeKeeps ==
  ASSUME MailboxInv, NEW l \in Calls, Take(l)
  PROVE  PlaceInv' /\ CallInv' /\ ResultInv' /\ OrderInv'
<1> USE MailboxAssumption DEF MailboxInv
<1>1. PICK t \in Calls :
        /\ Queued(t) /\ CaseOf[t] = CaseOf[l]
        /\ \A d \in Calls : /\ Queued(d)' => Queued(d) /\ d # t
                            /\ Held(d)' => Held(d) \/ (d = t /\ t \notin left)
                            /\ Performed(d)' <=> Performed(d)
        /\ hand[l] = NoCall
        /\ \/ t \notin left /\ hand' = [hand EXCEPT ![l] = t] /\ UNCHANGED done
           \/ /\ t \in left /\ done' = [done EXCEPT ![t] = "cancelled"]
              /\ UNCHANGED hand
        /\ \A k \in Cases :
             /\ IsInjective(jobs'[k])
             /\ \A d \in Calls : Contains(jobs'[k], d) => CaseOf[d] = k
  BY TakeWork
<1>2. /\ l \in loops /\ UNCHANGED <<caller, left, loops, answer, earlier>> /\ Over' = Over
      /\ hand \in [Calls -> Calls \cup {NoCall}] /\ done \in [Calls -> Answers \cup {"none"}]
  BY DEF Take, history, Over, TypeOK
<1>3. ~Held(t) /\ ~Performed(t)
  BY <1>1 DEF PlaceInv
<1>4. PlaceInv'
  <2>1. \A m \in Calls : hand'[m] # NoCall => m \in loops' /\ CaseOf[hand'[m]] = CaseOf[m]
    BY <1>1, <1>2 DEF PlaceInv
  <2>2. \A d \in Calls : Queued(d)' => ~Held(d)' /\ ~Performed(d)'
    BY <1>1 DEF PlaceInv
  <2>3. QED
    BY <1>1, <1>2, <2>1, <2>2 DEF PlaceInv
<1>5. \A d \in Calls : d # t => done'[d] = done[d]
  BY <1>1, <1>2
<1>6. CallInv'
  <2>1. Held(t)' => t \notin left /\ done' = done
    BY <1>1, <1>3
  <2>2. QED
    BY <1>1, <1>2, <1>5, <2>1 DEF CallInv
<1>7. ResultInv'
  <2>1. done'[t] = done[t] \/ (done'[t] = "cancelled" /\ t \in left)
    BY <1>1, <1>2
  <2>2. QED
    BY <1>1, <1>2, <1>5, <2>1 DEF ResultInv
<1>8. OrderInv'
  <2>1. t \notin left => t \notin Over
    BY <1>1 DEF CallInv, ResultInv, Over
  <2>2. QED
    BY <1>1, <1>2, <2>1 DEF OrderInv
<1>9. QED
  BY <1>4, <1>6, <1>7, <1>8

LEMMA CarryOutKeeps ==
  ASSUME MailboxInv, NEW l \in Calls, CarryOut(l)
  PROVE  PlaceInv' /\ CallInv' /\ ResultInv' /\ OrderInv'
<1> USE MailboxAssumption DEF MailboxInv
<1>1. /\ UNCHANGED <<caller, left, loops, jobs, hand, done, answer, earlier>> /\ Over' = Over
      /\ Held(hand[l])
  BY DEF CarryOut, Over, Held
<1>2. PlaceInv'
  BY <1>1, CarryOutWork DEF PlaceInv
<1>3. CallInv' /\ ResultInv'
  BY <1>1, CarryOutWork DEF CallInv, ResultInv
<1>4. OrderInv'
  <2>1. ASSUME NEW c \in Calls, c \in earlier[hand[l]], Held(c)
        PROVE  FALSE
    <3>1. CaseOf[c] = CaseOf[l] /\ c # hand[l]
      BY <2>1, CarryOutWork DEF OrderInv
    <3>2. PICK m \in Calls : hand[m] = c
      BY <2>1 DEF Held
    <3>3. m \in loops /\ CaseOf[m] = CaseOf[l]
      BY <3>1, <3>2 DEF PlaceInv
    <3>4. m = l
      BY <3>3, CarryOutWork DEF PlaceInv
    <3>5. QED
      BY <3>1, <3>2, <3>4
  <2>2. QED
    BY <1>1, <2>1, CarryOutWork DEF OrderInv
<1>5. QED
  BY <1>2, <1>3, <1>4

LEMMA FinishKeeps ==
  ASSUME MailboxInv, NEW l \in Calls, Finish(l)
  PROVE  PlaceInv' /\ CallInv' /\ ResultInv' /\ OrderInv'
<1> USE MailboxAssumption DEF MailboxInv
<1>1. PICK o \in Answers : /\ done' = [done EXCEPT ![hand[l]] = o]
                           /\ o # "cancelled" /\ (o = "ok" => Performed(hand[l]))
  BY FinishWork
<1>2. /\ UNCHANGED <<caller, left, loops, jobs, answer, earlier>> /\ Over' = Over
      /\ hand \in [Calls -> Calls \cup {NoCall}] /\ done \in [Calls -> Answers \cup {"none"}]
  BY DEF Finish, history, Over, TypeOK
<1>3. PlaceInv'
  <2>1. \A m \in Calls : hand'[m] # NoCall => hand'[m] = hand[m]
    BY <1>2, FinishWork
  <2>2. QED
    BY <1>2, <2>1, FinishWork DEF PlaceInv
<1>4. ~Queued(hand[l])
  BY FinishWork DEF PlaceInv
<1>5. /\ \A d \in Calls : d # hand[l] => done'[d] = done[d]
      /\ done'[hand[l]] = o
  BY <1>1, <1>2, FinishWork
<1>6. CallInv' /\ ResultInv'
  BY <1>1, <1>2, <1>4, <1>5, FinishWork DEF CallInv, ResultInv
<1>7. OrderInv'
  BY <1>2, FinishWork DEF OrderInv
<1>8. QED
  BY <1>3, <1>6, <1>7

LEMMA StopKeeps ==
  ASSUME MailboxInv, Stop
  PROVE  PlaceInv' /\ CallInv' /\ ResultInv' /\ OrderInv'
<1> USE MailboxAssumption DEF MailboxInv
<1>1. /\ loops' = {} /\ hand' = [l \in Calls |-> NoCall]
      /\ jobs' = [k \in Cases |-> <<>>] /\ done' = [c \in Calls |-> "none"]
      /\ UNCHANGED <<caller, left, answer, earlier>> /\ Over' = Over
  BY DEF Stop, history, Over
<1>2. PlaceInv'
  BY <1>1, StopWork, EmptyElements DEF PlaceInv
<1>3. CallInv' /\ ResultInv' /\ OrderInv'
  BY <1>1, StopWork DEF CallInv, ResultInv, OrderInv
<1>4. QED
  BY <1>2, <1>3

THEOREM MailboxInvariant == Spec => []MailboxInv
<1> USE MailboxAssumption
<1>1. Init => PlaceInv /\ CallInv /\ ResultInv /\ OrderInv
  <2> SUFFICES ASSUME Init
               PROVE  PlaceInv /\ CallInv /\ ResultInv /\ OrderInv
    OBVIOUS
  <2>1. \A c \in Calls : ~Queued(c) /\ ~Held(c) /\ ~Performed(c)
    BY EmptyElements DEF Init, Queued, Held, Performed
  <2>2. PlaceInv
    BY <2>1, EmptyElements DEF Init, PlaceInv
  <2>3. CallInv /\ ResultInv /\ OrderInv
    BY <2>1 DEF Init, CallInv, ResultInv, OrderInv
  <2>4. QED
    BY <2>2, <2>3
<1>2. MailboxInv /\ [Next]_vars => PlaceInv' /\ CallInv' /\ ResultInv' /\ OrderInv'
  <2> SUFFICES ASSUME MailboxInv, [Next]_vars
               PROVE  PlaceInv' /\ CallInv' /\ ResultInv' /\ OrderInv'
    OBVIOUS
  <2>1. CASE Shutdown \/ UNCHANGED vars
    <3>1. UNCHANGED <<caller, left, loops, jobs, hand, done, answer, effects, earlier>>
      BY <2>1 DEF Shutdown, calling, history, vars
    <3>2. QED
      BY <3>1 DEF MailboxInv, PlaceInv, CallInv, ResultInv, OrderInv,
                  Queued, Held, Performed, Over
  <2>2. CASE \E c \in Calls : Submit(c) \/ Leave(c) \/ GiveUp(c) \/ Receive(c)
    BY <2>2, CallerKeeps
  <2>3. CASE \E c \in Calls : Enqueue(c) \/ Take(c) \/ CarryOut(c) \/ Finish(c)
    BY <2>3, EnqueueKeeps, TakeKeeps, CarryOutKeeps, FinishKeeps
  <2>4. CASE Exit \/ Timeout \/ ServeFails
    BY <2>4, StopKeeps DEF Exit, Timeout, ServeFails
  <2>5. QED
    BY <2>1, <2>2, <2>3, <2>4 DEF Next
<1>3. QED
  BY <1>1, <1>2, Typing, PTL DEF Spec, MailboxInv
-----------------------------------------------------------------------------
(* However many callers find a case without a mailbox at once, one loop    *)
(* runs its tasks, one at a time (mailbox.go:26-33,47-57).                 *)
THEOREM OneTaskAtATime == Spec => []OneAtATime
<1>1. MailboxInv => OneAtATime
  BY DEF MailboxInv, PlaceInv, OneAtATime
<1>2. QED
  BY <1>1, MailboxInvariant, PTL

(* A step of the mailboxes is a step of the contract, or none: what a loop *)
(* carries out was asked for, was not answered, was not carried out        *)
(* before, and was not over when a call that was carried out already was   *)
(* made; what submit returns is true (mailbox.go:35-57).                   *)
LEMMA ContractStep ==
  ASSUME MailboxInv, [Next]_vars
  PROVE  [Contract!Next]_(Contract!vars)
<1> USE MailboxAssumption DEF MailboxInv
<1> DEFINE asked == {c \in Calls : caller[c] # "away"}
<1>0. \A c : Contract!Done(c) <=> Performed(c)
  BY DEF Performed, Contains, Contract!Done, Contract!Contains
<1>1. ASSUME NEW c \in Calls, Submit(c)
      PROVE  Contract!Ask(c)
  BY <1>1 DEF Submit, Contract!Ask, Contract!Over, Over, TypeOK
<1>2. ASSUME NEW c \in Calls, Leave(c)
      PROVE  Contract!Leave(c)
  BY <1>2 DEF Leave, InFlight, history, Contract!Leave
<1>3. ASSUME NEW c \in Calls, Enqueue(c)
      PROVE  UNCHANGED Contract!vars
  <2>1. asked' = asked
    BY <1>3 DEF Enqueue, TypeOK
  <2>2. QED
    BY <1>3, <2>1 DEF Enqueue, history, Contract!vars
<1>4. ASSUME NEW c \in Calls, NEW a \in Answers, Return(c, a), caller[c] \in {"sending", "waiting"},
             UNCHANGED <<left, effects, earlier>>,
             a = "ok" => Performed(c), a = "cancelled" => c \in left
      PROVE  Contract!Tell(c, a)
  <2>1. asked' = asked /\ c \in asked
    BY <1>4 DEF Return, TypeOK
  <2>2. answer[c] = "none"
    BY <1>4 DEF CallInv
  <2>3. QED
    BY <1>0, <1>4, <2>1, <2>2 DEF Return, Contract!Tell
<1>5. ASSUME NEW c \in Calls, GiveUp(c)
      PROVE  Contract!Tell(c, "cancelled")
  BY <1>4, <1>5 DEF GiveUp, InFlight, history, Answers
<1>6. ASSUME NEW c \in Calls, Receive(c)
      PROVE  \E a \in Answers : Contract!Tell(c, a)
  <2>1. done[c] \in Answers
    BY <1>6 DEF Receive, TypeOK
  <2>2. Contract!Tell(c, done[c])
    BY <1>4, <1>6, <2>1 DEF Receive, history, ResultInv
  <2>3. QED
    BY <2>1, <2>2
<1>7. ASSUME NEW l \in Calls, CarryOut(l)
      PROVE  Contract!Perform(hand[l])
  <2> DEFINE c == hand[l]
  <2>1. /\ c \in Calls /\ CaseOf[c] = CaseOf[l] /\ Held(c) /\ ~Performed(c)
        /\ effects' = [effects EXCEPT ![CaseOf[l]] = Append(@, c)]
        /\ UNCHANGED <<caller, left, answer, earlier>>
    BY <1>7, CarryOutWork DEF CarryOut, Held
  <2>2. c \in asked /\ answer[c] \in {"none", "cancelled"}
    BY <2>1 DEF CallInv
  <2>3. \A d \in Calls : Performed(d) => c \notin earlier[d]
    BY <2>1 DEF OrderInv
  <2>4. QED
    BY <1>0, <2>1, <2>2, <2>3 DEF Contract!Perform
<1>8. ASSUME NEW l \in Calls, Take(l) \/ Finish(l)
      PROVE  UNCHANGED Contract!vars
  BY <1>8 DEF Take, Finish, history, Contract!vars
<1>9. CASE Shutdown \/ Exit \/ Timeout \/ ServeFails \/ UNCHANGED vars
  BY <1>9 DEF Shutdown, Exit, Timeout, ServeFails, Stop, calling, history, vars, Contract!vars
<1>10. QED
  BY <1>1, <1>2, <1>3, <1>5, <1>6, <1>7, <1>8, <1>9, CarryOutWork
     DEF Next, Contract!Next, Answers

(* Mailbox implements CallContract: whoever gives a call up and makes      *)
(* another one does not have the first come in after the second.           *)
THEOREM MailboxImplementsContract == Spec => CallContractSpec
<1>1. Init => Contract!Init
  BY DEF Init, Contract!Init
<1>2. QED
  BY <1>1, MailboxInvariant, ContractStep, PTL DEF Spec, CallContractSpec, Contract!Spec
=============================================================================
