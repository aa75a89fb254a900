---------------------------- MODULE AuditProofs ----------------------------
(***************************************************************************)
(* Theorems about AuditQuery, for logs of every length and every filter:   *)
(* pages tile the matching events, the last page is complete, the changes  *)
(* of status make an unbroken path.                                        *)
(***************************************************************************)
EXTENDS AuditQuery, SequenceTheorems, WellFoundedInduction, TLAPS

(* Induction over the natural numbers, for a set of them.                  *)
LEMMA Least ==
  \A T \in SUBSET Nat : T # {} => \E x \in T : \A y \in T : x <= y
<1> SUFFICES ASSUME NEW T \in SUBSET Nat, T # {}
             PROVE  \E x \in T : \A y \in T : x <= y
  OBVIOUS
<1> DEFINE R == {p \in Nat \X Nat : p[1] < p[2]}
<1>1. IsWellFoundedOn(R, Nat)
  BY NatLessThanWellFounded DEF OpToRel
<1> HIDE DEF R
<1>2. \E x \in T : \A y \in T : ~(<<y, x>> \in R)
  BY <1>1, WFMin
<1>3. \A x, y \in T : <<y, x>> \notin R => x <= y
  BY DEF R
<1>4. QED
  BY <1>2, <1>3

LEMMA Induction ==
  ASSUME NEW T, 0 \in T, \A n \in Nat : n \in T => n + 1 \in T
  PROVE  \A n \in Nat : n \in T
<1> DEFINE U == {n \in Nat : n \notin T}
<1>1. SUFFICES ASSUME U # {} PROVE FALSE
  OBVIOUS
<1>2. PICK x \in U : \A y \in U : x <= y
  BY <1>1, Least
<1>3. x \in Nat /\ x # 0
  BY <1>2
<1>4. x - 1 \in Nat /\ x - 1 \notin U
  BY <1>2, <1>3
<1>5. x \in T
  BY <1>3, <1>4
<1>6. QED
  BY <1>2, <1>5
-----------------------------------------------------------------------------
(* The function the loop of InOrder computes (audit.go:96-117).            *)
Loop(f, S, n) ==
  f = [m \in 0 .. n |->
        IF m = 0 THEN <<>>
        ELSE IF m \in S THEN Append(f[m - 1], m) ELSE f[m - 1]]

LEMMA LoopValues ==
  ASSUME NEW f, NEW S, NEW n \in Nat, Loop(f, S, n)
  PROVE  /\ f[0] = <<>>
         /\ \A m \in 1 .. n :
              f[m] = IF m \in S THEN Append(f[m - 1], m) ELSE f[m - 1]
<1>1. \A m \in 0 .. n :
        f[m] = IF m = 0 THEN <<>>
               ELSE IF m \in S THEN Append(f[m - 1], m) ELSE f[m - 1]
  BY DEF Loop
<1>2. 0 \in 0 .. n /\ \A m \in 1 .. n : m \in 0 .. n /\ m # 0
  OBVIOUS
<1>3. QED
  BY <1>1, <1>2

LEMMA LoopEnds ==
  ASSUME NEW S
  PROVE  \A n \in Nat : \E f : Loop(f, S, n)
<1> DEFINE T == {n \in Nat : \E f : Loop(f, S, n)}
<1>1. 0 \in T
  <2> DEFINE f == [m \in 0 .. 0 |-> <<>>]
  <2>1. Loop(f, S, 0)
    BY DEF Loop
  <2>2. QED
    BY <2>1
<1>2. ASSUME NEW n \in Nat, n \in T
      PROVE  n + 1 \in T
  <2>1. PICK g : Loop(g, S, n)
    BY <1>2
  <2> DEFINE last == IF n + 1 \in S THEN Append(g[n], n + 1) ELSE g[n]
             f    == [m \in 0 .. n + 1 |-> IF m = n + 1 THEN last ELSE g[m]]
  <2>2. \A m \in 0 .. n :
          g[m] = IF m = 0 THEN <<>>
                 ELSE IF m \in S THEN Append(g[m - 1], m) ELSE g[m - 1]
    BY <2>1 DEF Loop
  <2>3. \A m \in 0 .. n + 1 :
          f[m] = IF m = 0 THEN <<>>
                 ELSE IF m \in S THEN Append(f[m - 1], m) ELSE f[m - 1]
    BY <2>2
  <2>4. f = [m \in 0 .. n + 1 |-> f[m]]
    OBVIOUS
  <2> HIDE DEF f
  <2>5. Loop(f, S, n + 1)
    BY <2>3, <2>4 DEF Loop
  <2>6. QED
    BY <2>5
<1> HIDE DEF T
<1>3. \A n \in Nat : n \in T
  BY <1>1, <1>2, Induction
<1>4. QED
  BY <1>3 DEF T

LEMMA InOrderIsLoop ==
  ASSUME NEW S, NEW n \in Nat
  PROVE  \E f : Loop(f, S, n) /\ InOrder(S, n) = f[n]
<1> DEFINE h == CHOOSE f : Loop(f, S, n)
<1>1. Loop(h, S, n)
  BY LoopEnds
<1>2. InOrder(S, n) = h[n]
  BY DEF InOrder, Loop
<1>3. QED
  BY <1>1, <1>2

(* The loop on more numbers begins with the same ones.                     *)
LEMMA LoopsAgree ==
  ASSUME NEW S, NEW T, NEW f, NEW g, NEW n \in Nat, NEW k \in Nat, n <= k,
         Loop(f, S, n), Loop(g, T, k), \A i \in 1 .. n : i \in S <=> i \in T
  PROVE  f[n] = g[n]
<1> DEFINE U == {m \in Nat : m <= n => f[m] = g[m]}
<1>1. 0 \in U
  BY LoopValues
<1>2. ASSUME NEW m \in Nat, m \in U
      PROVE  m + 1 \in U
  <2> SUFFICES ASSUME m + 1 <= n PROVE f[m + 1] = g[m + 1]
    OBVIOUS
  <2>1. /\ f[m + 1] = IF m + 1 \in S THEN Append(f[m], m + 1) ELSE f[m]
        /\ g[m + 1] = IF m + 1 \in T THEN Append(g[m], m + 1) ELSE g[m]
    <3>1. m + 1 \in 1 .. n /\ m + 1 \in 1 .. k /\ (m + 1) - 1 = m
      OBVIOUS
    <3>2. QED
      BY <3>1, LoopValues
  <2>2. f[m] = g[m] /\ (m + 1 \in S <=> m + 1 \in T)
    BY <1>2
  <2>3. QED
    BY <2>1, <2>2
<1> HIDE DEF U
<1>3. n \in U
  BY <1>1, <1>2, Induction
<1>4. QED
  BY <1>3 DEF U

(* One iteration of the loop.                                              *)
LEMMA InOrderStep ==
  ASSUME NEW S, NEW T, NEW n \in Nat, \A i \in 1 .. n : i \in S <=> i \in T
  PROVE  /\ InOrder(S, 0) = <<>>
         /\ InOrder(T, n + 1) = IF n + 1 \in T
                                THEN Append(InOrder(S, n), n + 1)
                                ELSE InOrder(S, n)
<1>1. PICK z : Loop(z, S, 0) /\ InOrder(S, 0) = z[0]
  BY InOrderIsLoop
<1>2. PICK f : Loop(f, S, n) /\ InOrder(S, n) = f[n]
  BY InOrderIsLoop
<1>3. PICK g : Loop(g, T, n + 1) /\ InOrder(T, n + 1) = g[n + 1]
  BY InOrderIsLoop
<1>4. g[n] = f[n]
  <2>1. n <= n + 1 /\ n + 1 \in Nat
    OBVIOUS
  <2>2. QED
    BY <1>2, <1>3, <2>1, LoopsAgree
<1>5. g[n + 1] = IF n + 1 \in T THEN Append(g[n], n + 1) ELSE g[n]
  <2>1. n + 1 \in Nat /\ n + 1 \in 1 .. n + 1 /\ (n + 1) - 1 = n
    OBVIOUS
  <2>2. QED
    BY <1>3, <2>1, LoopValues
<1>6. z[0] = <<>>
  BY <1>1, LoopValues
<1>7. QED
  BY <1>1, <1>2, <1>3, <1>4, <1>5, <1>6

(* What the loop gathers: all numbers of S up to n and no others, in       *)
(* increasing order.                                                       *)
Gathers(s, S, n) ==
  /\ s \in Seq(Nat)
  /\ \A k \in DOMAIN s : s[k] \in S /\ s[k] \in 1 .. n
  /\ \A j, k \in DOMAIN s : j < k => s[j] < s[k]
  /\ \A i \in 1 .. n : i \in S => \E k \in DOMAIN s : s[k] = i

LEMMA GathersMore ==
  ASSUME NEW s, NEW S, NEW n \in Nat, Gathers(s, S, n), n + 1 \in S
  PROVE  Gathers(Append(s, n + 1), S, n + 1)
<1> DEFINE r == Append(s, n + 1)
<1>1. /\ s \in Seq(Nat) /\ DOMAIN s = 1 .. Len(s) /\ Len(s) \in Nat
      /\ \A k \in DOMAIN s : s[k] \in S /\ s[k] \in 1 .. n
      /\ \A j, k \in DOMAIN s : j < k => s[j] < s[k]
      /\ \A i \in 1 .. n : i \in S => \E k \in DOMAIN s : s[k] = i
  BY LenProperties DEF Gathers
<1>2. /\ r \in Seq(Nat) /\ Len(r) = Len(s) + 1 /\ DOMAIN r = 1 .. Len(s) + 1
      /\ \A k \in 1 .. Len(s) : r[k] = s[k]
      /\ r[Len(s) + 1] = n + 1
  BY <1>1, AppendProperties, LenProperties
<1> HIDE DEF r
<1>3. \A k \in DOMAIN r : k \in DOMAIN s \/ k = Len(s) + 1
  BY <1>1, <1>2
<1>4. \A k \in DOMAIN r : r[k] \in S /\ r[k] \in 1 .. n + 1
  BY <1>1, <1>2, <1>3
<1>5. \A j, k \in DOMAIN r : j < k => r[j] < r[k]
  <2> SUFFICES ASSUME NEW j \in DOMAIN r, NEW k \in DOMAIN r, j < k
               PROVE  r[j] < r[k]
    OBVIOUS
  <2>1. j \in DOMAIN s /\ r[j] = s[j]
    BY <1>1, <1>2
  <2>2. CASE k \in DOMAIN s
    BY <1>1, <1>2, <2>1, <2>2
  <2>3. CASE k = Len(s) + 1
    BY <1>1, <1>2, <2>1, <2>3
  <2>4. QED
    BY <1>3, <2>2, <2>3
<1>6. \A i \in 1 .. n + 1 : i \in S => \E k \in DOMAIN r : r[k] = i
  <2> SUFFICES ASSUME NEW i \in 1 .. n + 1, i \in S
               PROVE  \E k \in DOMAIN r : r[k] = i
    OBVIOUS
  <2>1. CASE i = n + 1
    BY <1>1, <1>2, <2>1
  <2>2. CASE i \in 1 .. n
    <3>1. PICK k \in DOMAIN s : s[k] = i
      BY <1>1, <2>2
    <3>2. k \in DOMAIN r /\ r[k] = i
      BY <1>1, <1>2, <3>1
    <3>3. QED
      BY <3>2
  <2>3. QED
    BY <2>1, <2>2
<1>7. QED
  BY <1>2, <1>4, <1>5, <1>6 DEF Gathers, r

LEMMA InOrderGathers ==
  ASSUME NEW S
  PROVE  \A n \in Nat : Gathers(InOrder(S, n), S, n)
<1> DEFINE T == {n \in Nat : Gathers(InOrder(S, n), S, n)}
<1>1. 0 \in T
  <2>1. InOrder(S, 0) = <<>>
    BY InOrderStep
  <2>2. Gathers(<<>>, S, 0)
    BY DEF Gathers
  <2>3. QED
    BY <2>1, <2>2
<1>2. ASSUME NEW n \in Nat, n \in T
      PROVE  n + 1 \in T
  <2>1. InOrder(S, n + 1) = IF n + 1 \in S THEN Append(InOrder(S, n), n + 1)
                            ELSE InOrder(S, n)
    BY InOrderStep
  <2>2. Gathers(InOrder(S, n), S, n)
    BY <1>2
  <2>3. CASE n + 1 \in S
    <3>1. \A s : Gathers(s, S, n) => Gathers(Append(s, n + 1), S, n + 1)
      BY <2>3, GathersMore
    <3>2. Gathers(Append(InOrder(S, n), n + 1), S, n + 1)
      BY <2>2, <3>1
    <3>3. InOrder(S, n + 1) = Append(InOrder(S, n), n + 1)
      BY <2>1, <2>3
    <3>4. Gathers(InOrder(S, n + 1), S, n + 1)
      BY ONLY <3>2, <3>3
    <3>5. QED
      BY <3>4
  <2>4. CASE n + 1 \notin S
    <3>1. Gathers(InOrder(S, n), S, n + 1)
      BY <2>2, <2>4 DEF Gathers
    <3>2. QED
      BY <2>1, <2>4, <3>1
  <2>5. QED
    BY <2>3, <2>4
<1> HIDE DEF T
<1>3. \A n \in Nat : n \in T
  BY <1>1, <1>2, Induction
<1>4. QED
  BY <1>3 DEF T
-----------------------------------------------------------------------------
(* The log holds events of known types with the statuses Apply gives them  *)
(* (aggregate.go:65-191).                                                  *)
Event == [actor: Actors, type: Types, status: Statuses]
LogInv == log \in Seq(Event)

(* What a command appends is such an event, and leaves the others alone.   *)
LEMMA RecordAppends ==
  ASSUME LogInv, NEW a \in Actors, NEW e \in Types, Record(a, e)
  PROVE  /\ LogInv' /\ Len(log) \in Nat /\ Len(log') = Len(log) + 1
         /\ \A i \in 1 .. Len(log) : log'[i] = log[i]
<1> DEFINE x == [actor |-> a, type |-> e,
                 status |-> Apply(StatusAt(Len(log)), e)]
<1>1. log \in Seq(Event) /\ log' = Append(log, x)
  BY DEF LogInv, Record
<1>2. Apply(StatusAt(Len(log)), e) \in Statuses
  <2>1. e \in EventTypes
    BY QueryAssumption
  <2>2. statusAfter(e) \in Statuses
    BY <2>1 DEF EventTypes, statusAfter, Statuses
  <2>3. QED
    BY <2>2 DEF Apply, Statuses
<1>3. x \in Event
  BY <1>2 DEF Event
<1> HIDE DEF x
<1>4. QED
  BY <1>1, <1>3, AppendProperties, LenProperties DEF LogInv

(* Where no event between changes the status, it stays.                    *)
LEMMA Steady ==
  ASSUME LogInv, NEW a \in Nat, NEW b \in Nat, a <= b,
         \A i \in a + 1 .. b : ~IsChange(i)
  PROVE  StatusAt(a) = StatusAt(b)
<1> DEFINE T == {d \in Nat : a + d <= b => StatusAt(a + d) = StatusAt(a)}
<1>1. 0 \in T
  BY DEF StatusAt
<1>2. ASSUME NEW d \in Nat, d \in T
      PROVE  d + 1 \in T
  <2> SUFFICES ASSUME a + (d + 1) <= b
               PROVE  StatusAt(a + (d + 1)) = StatusAt(a)
    OBVIOUS
  <2>1. ~IsChange(a + (d + 1))
    <3>1. a + (d + 1) \in a + 1 .. b
      OBVIOUS
    <3>2. QED
      BY <3>1
  <2>2. (a + (d + 1)) - 1 = a + d
    OBVIOUS
  <2>3. StatusAt(a + d) = StatusAt(a + (d + 1))
    BY <2>1, <2>2 DEF IsChange
  <2>4. StatusAt(a + d) = StatusAt(a)
    BY <1>2
  <2>5. QED
    BY <2>3, <2>4
<1> HIDE DEF T
<1>3. \A d \in Nat : d \in T
  BY <1>1, <1>2, Induction
<1>4. b - a \in Nat /\ a + (b - a) = b
  OBVIOUS
<1>5. QED
  BY <1>3, <1>4 DEF T

(* The path of a trajectory from the beginning to the status last reached. *)
Unbroken(t, last) ==
  /\ t # <<>> /\ t[1].from = "none"
  /\ \A k \in 1 .. Len(t) - 1 : t[k].to = t[k + 1].from
  /\ t[Len(t)].to = last

(* The changes of all events make such a path (audit.go:83-95).            *)
LEMMA TrajectoryIsPath ==
  ASSUME LogInv, log # <<>>, NEW f
  PROVE  Unbroken(Trajectory(f), StatusAt(Len(log)))
<1> DEFINE n == Len(log)
           S == {i \in Revisions : IsChange(i)}
           c == InOrder(S, n)
           m == Len(c)
           t == Trajectory(f)
<1>1. n \in Nat /\ n >= 1 /\ Revisions = 1 .. n
  BY EmptySeq DEF LogInv, Revisions
<1>2. Gathers(c, S, n)
  BY <1>1, InOrderGathers
<1>3. t = [k \in DOMAIN c |-> Change(c[k])]
  BY DEF Trajectory, Path
<1>4. S = {i \in 1 .. n : IsChange(i)}
  BY <1>1
<1> HIDE DEF c, m, t, n
<1>5. /\ m \in Nat /\ DOMAIN c = 1 .. m
      /\ \A k \in 1 .. m : c[k] \in 1 .. n
      /\ \A j, k \in 1 .. m : j < k => c[j] < c[k]
      /\ \A i \in 1 .. n : IsChange(i) => \E k \in 1 .. m : c[k] = i
  <2>1. c \in Seq(Nat)
    BY <1>2 DEF Gathers
  <2>2. m \in Nat /\ DOMAIN c = 1 .. m
    BY <2>1, LenProperties DEF m
  <2>3. QED
    BY <1>2, <1>4, <2>2 DEF Gathers
<1>6. Len(t) = m /\ DOMAIN t = 1 .. m
  <2> DEFINE X == {Change(i) : i \in 1 .. n}
  <2>1. t \in [1 .. m -> X]
    BY <1>3, <1>5
  <2> HIDE DEF X
  <2>2. t \in Seq(X)
    BY <1>5, <2>1, SeqDef
  <2>3. DOMAIN t = 1 .. Len(t) /\ DOMAIN t = 1 .. m /\ Len(t) \in Nat
    BY <2>1, <2>2, LenProperties
  <2>4. \A a, b \in Nat : 1 .. a = 1 .. b => a = b
    <3>1. \A a, b \in Nat : a < b => b \in 1 .. b /\ b \notin 1 .. a
      OBVIOUS
    <3>2. QED
      BY <3>1
  <2>5. QED
    BY <1>5, <2>3, <2>4
<1>7. \A k \in 1 .. m :
        t[k].from = StatusAt(c[k] - 1) /\ t[k].to = StatusAt(c[k])
  BY <1>3, <1>5 DEF Change
<1>8. IsChange(1)
  <2>1. log[1] \in Event
    BY <1>1, ElementOfSeq DEF LogInv, n
  <2>2. log[1].status # "none"
    BY <2>1 DEF Event, Statuses
  <2>3. QED
    BY <2>2 DEF IsChange, StatusAt
<1>9. m >= 1 /\ c[1] = 1
  <2>1. PICK k \in 1 .. m : c[k] = 1
    BY <1>1, <1>5, <1>8
  <2>2. 1 \in 1 .. m /\ c[1] \in 1 .. n
    BY <1>5, <2>1
  <2>3. k = 1 \/ c[1] < c[k]
    BY <1>5, <2>1, <2>2
  <2>4. QED
    BY <1>5, <2>1, <2>2, <2>3
<1>10. t[1].from = "none"
  <2>1. t[1].from = StatusAt(c[1] - 1)
    BY <1>5, <1>7, <1>9
  <2>2. c[1] - 1 = 0
    BY <1>9
  <2>3. QED
    BY <2>1, <2>2 DEF StatusAt
<1>11. ASSUME NEW k \in 1 .. m - 1
       PROVE  t[k].to = t[k + 1].from
  <2>1. k \in 1 .. m /\ k + 1 \in 1 .. m
    BY <1>5
  <2>2. c[k] \in 1 .. n /\ c[k + 1] \in 1 .. n /\ c[k] < c[k + 1]
    BY <1>5, <2>1
  <2>3. ASSUME NEW i \in c[k] + 1 .. c[k + 1] - 1, IsChange(i)
        PROVE  FALSE
    <3>1. i \in 1 .. n
      BY <1>1, <2>2
    <3>2. PICK j \in 1 .. m : c[j] = i
      BY <1>5, <2>3, <3>1
    <3>3. j <= k => c[j] <= c[k]
      BY <1>5, <2>1, <2>2
    <3>4. j >= k + 1 => c[j] >= c[k + 1]
      BY <1>5, <2>1, <2>2
    <3>5. QED
      BY <2>1, <2>2, <3>2, <3>3, <3>4
  <2>4. StatusAt(c[k]) = StatusAt(c[k + 1] - 1)
    <3>1. c[k] \in Nat /\ c[k + 1] - 1 \in Nat /\ c[k] <= c[k + 1] - 1
      BY <1>1, <2>2
    <3>2. QED
      BY <2>3, <3>1, Steady
  <2>5. QED
    BY <1>7, <2>1, <2>4
<1>12. t[Len(t)].to = StatusAt(n)
  <2>1. m \in 1 .. m /\ c[m] \in 1 .. n
    BY <1>5, <1>9
  <2>2. ASSUME NEW j \in 1 .. m
        PROVE  c[j] <= c[m]
    <3>1. CASE j < m
      BY <1>1, <1>5, <2>1, <3>1
    <3>2. CASE j = m
      BY <1>1, <1>5, <2>1, <3>2
    <3>3. QED
      BY <1>5, <3>1, <3>2
  <2>3. ASSUME NEW i \in c[m] + 1 .. n, IsChange(i)
        PROVE  FALSE
    <3>1. i \in 1 .. n
      BY <1>1, <2>1
    <3>2. PICK j \in 1 .. m : c[j] = i
      BY <1>5, <2>3, <3>1
    <3>3. QED
      BY <1>1, <2>1, <2>2, <3>2
  <2>4. StatusAt(c[m]) = StatusAt(n)
    <3>1. c[m] \in Nat /\ c[m] <= n
      BY <1>1, <2>1
    <3>2. QED
      BY <1>1, <2>3, <3>1, Steady
  <2>5. QED
    BY <1>6, <1>7, <2>1, <2>4
<1>13. t # <<>>
  BY <1>5, <1>6, <1>9
<1>14. QED
  BY <1>5, <1>6, <1>9, <1>10, <1>11, <1>12, <1>13 DEF Unbroken, t, n
-----------------------------------------------------------------------------
(* What one more event adds to the events that match: itself, at the end,  *)
(* or nothing (audit.go:96-117).                                           *)
LEMMA MatchedGathers ==
  ASSUME LogInv, NEW f
  PROVE  /\ Matched(f) \in Seq(Nat)
         /\ \A k \in DOMAIN Matched(f) : Matched(f)[k] \in 1 .. Len(log)
         /\ \A j, k \in DOMAIN Matched(f) : j < k => Matched(f)[j] < Matched(f)[k]
<1>1. Len(log) \in Nat
  BY LenProperties DEF LogInv
<1> DEFINE S == {i \in Revisions : Passes(f, i)}
<1> HIDE DEF S
<1>2. Gathers(InOrder(S, Len(log)), S, Len(log))
  BY <1>1, InOrderGathers
<1>3. Matched(f) = InOrder(S, Len(log))
  BY DEF Matched, S
<1>4. QED
  BY <1>2, <1>3 DEF Gathers

LEMMA MatchedGrows ==
  ASSUME LogInv, NEW a \in Actors, NEW e \in Types, Record(a, e), NEW f
  PROVE  Matched(f)' \in {Matched(f), Append(Matched(f), Len(log) + 1)}
<1> DEFINE S == {i \in Revisions : Passes(f, i)}
           T == {i \in Revisions' : Passes(f, i)'}
           n == Len(log)
<1>1. n \in Nat /\ Len(log') = n + 1 /\ \A i \in 1 .. n : log'[i] = log[i]
  BY RecordAppends
<1>2. \A i \in 1 .. n : i \in S <=> i \in T
  BY <1>1 DEF Revisions, Passes
<1> HIDE DEF S, T
<1>3. InOrder(T, n + 1) \in {InOrder(S, n), Append(InOrder(S, n), n + 1)}
  BY <1>1, <1>2, InOrderStep
<1>4. Matched(f) = InOrder(S, n) /\ Matched(f)' = InOrder(T, n + 1)
  BY <1>1 DEF Matched, S, T
<1>5. QED
  BY <1>3, <1>4
-----------------------------------------------------------------------------
(* The pages so far are a run of the matching events; an open session has  *)
(* its cursor on the last one shown; the answer tells an unbroken path.    *)
TilesInv(matched) ==
  /\ shown = SubSeq(matched, offset + 1, offset + Len(shown))
  /\ shown # <<>> => offset + Len(shown) <= Len(matched)
  /\ session = "open" =>
       shown # <<>> /\ cursor = matched[offset + Len(shown)]

AnswerInv ==
  /\ answer.revision \in 0 .. Len(log)
  /\ answer.revision > 0 =>
       Unbroken(answer.trajectory, StatusAt(answer.revision))

AuditInv ==
  /\ LogInv /\ AnswerInv
  /\ session \in {"idle", "open", "ended", "failed"}
  /\ offset \in Nat /\ shown \in Seq(Nat)
  /\ session = "idle" => shown = <<>>
  /\ session # "idle" => TilesInv(Matched(filter))

(* A page continues where the last one ended, and leaves a cursor unless   *)
(* it is the last (audit.go:132-144).                                      *)
LEMMA PageContinues ==
  ASSUME LogInv, log # <<>>, NEW f, NEW o \in Nat, NEW l \in Limits,
         NEW M \in Seq(Nat), shown \in Seq(Nat), o + Len(shown) <= Len(M),
         shown = SubSeq(M, o + 1, o + Len(shown)),
         Page(M, f, o + Len(shown), l)
  PROVE  /\ shown' \in Seq(Nat) /\ o + Len(shown') <= Len(M)
         /\ shown' = SubSeq(M, o + 1, o + Len(shown'))
         /\ session' \in {"open", "ended"}
         /\ session' = "open" => shown' # <<>> /\ cursor' = M[o + Len(shown')]
         /\ session' = "ended" => o + Len(shown') = Len(M)
         /\ answer'.total = Len(M) /\ answer'.revision = Len(log)
         /\ Unbroken(answer'.trajectory, StatusAt(Len(log)))
<1> DEFINE start == o + Len(shown)
           end   == End(M, start, l)
           new   == SubSeq(M, o + 1, end)
<1>1. start \in Nat /\ Len(M) \in Nat /\ l \in Nat /\ l >= 1
  BY LenProperties, QueryAssumption
<1>2. end \in start .. Len(M) /\ (end = start => end = Len(M))
  BY <1>1 DEF End
<1> HIDE DEF start, end
<1>3. shown' = shown \o SubSeq(M, start + 1, end) /\ shown = SubSeq(M, o + 1, start)
  BY DEF Page, start, end
<1>4. shown' = new
  <2>1. /\ o + 1 \in 1 .. Len(M) + 1 /\ start \in (o + 1) - 1 .. Len(M)
        /\ end \in start .. Len(M)
    <3>1. Len(shown) \in Nat
      BY LenProperties
    <3>2. QED
      BY <1>1, <1>2, <3>1 DEF start
  <2>2. QED
    BY <1>3, <2>1, ConcatAdjacentSubSeq
<1>5. new \in Seq(Nat) /\ Len(new) = end - o
  <2>1. o <= start /\ end \in Nat
    <3>1. Len(shown) \in Nat
      BY LenProperties
    <3>2. QED
      BY <1>1, <1>2, <3>1 DEF start
  <2>2. \A i \in o + 1 .. end : M[i] \in Nat
    BY <1>1, <1>2, <2>1, ElementOfSeq
  <2>3. /\ SubSeq(M, o + 1, end) \in Seq(Nat)
        /\ Len(SubSeq(M, o + 1, end)) =
             IF o + 1 <= end THEN end - (o + 1) + 1 ELSE 0
    BY <2>1, <2>2, SubSeqProperties
  <2> HIDE DEF new
  <2>4. new \in Seq(Nat) /\ Len(new) = IF o + 1 <= end THEN end - (o + 1) + 1 ELSE 0
    BY <2>3 DEF new
  <2>5. o <= end /\ end - (o + 1) + 1 = end - o
    BY <1>1, <1>2, <2>1
  <2>6. (IF o + 1 <= end THEN end - (o + 1) + 1 ELSE 0) = end - o
    BY <2>1, <2>5
  <2>7. QED
    BY <2>4, <2>6
<1> HIDE DEF new
<1>6. /\ o + Len(shown') = end /\ shown' \in Seq(Nat)
      /\ shown' = SubSeq(M, o + 1, end)
  BY <1>1, <1>2, <1>4, <1>5 DEF new
<1>7. /\ session' = IF end < Len(M) /\ end > start THEN "open" ELSE "ended"
      /\ cursor' = IF end < Len(M) /\ end > start THEN M[end] ELSE 0
      /\ answer' = [total |-> Len(M), revision |-> Len(log),
                    trajectory |-> Trajectory(f)]
  BY DEF Page, GoesOn, Bookmark, start, end
<1>8. end > start => shown' # <<>>
  <2>1. o <= start
    BY <1>1, LenProperties DEF start
  <2>2. end > start => Len(shown') # 0
    BY <1>1, <1>2, <1>6, <2>1
  <2>3. QED
    BY <2>2
<1>9. /\ answer'.total = Len(M) /\ answer'.revision = Len(log)
      /\ Unbroken(answer'.trajectory, StatusAt(Len(log)))
  BY <1>7, TrajectoryIsPath
<1>10. /\ session' \in {"open", "ended"}
       /\ session' = "open" => shown' # <<>> /\ cursor' = M[end]
       /\ session' = "ended" => end = Len(M)
  BY <1>1, <1>2, <1>7, <1>8
<1>11. /\ o + Len(shown') <= Len(M) /\ shown' = SubSeq(M, o + 1, o + Len(shown'))
       /\ session' = "open" => shown' # <<>> /\ cursor' = M[o + Len(shown')]
       /\ session' = "ended" => o + Len(shown') = Len(M)
  <2>1. o + Len(shown') = end /\ end <= Len(M)
    BY <1>1, <1>2, <1>6
  <2>2. QED
    BY ONLY <1>6, <1>10, <2>1
<1>12. QED
  BY ONLY <1>6, <1>9, <1>10, <1>11

(* The first page begins at the offset (audit.go:119, 140).                *)
LEMMA AskKeeps ==
  ASSUME AuditInv, NEW f \in Filters, NEW o \in Offsets, NEW l \in Limits,
         Ask(f, o, l)
  PROVE  /\ AuditInv'
         /\ session' = "ended" =>
              shown' = SubSeq(Matched(f), o + 1, answer'.total)
<1> DEFINE M == Matched(f)
<1>1. /\ LogInv /\ log # <<>> /\ UNCHANGED log /\ filter' = f /\ offset' = o
      /\ shown = <<>> /\ o \in Nat /\ session = "idle" /\ AnswerInv
  BY QueryAssumption DEF AuditInv, Ask
<1>2. M \in Seq(Nat) /\ Len(M) \in Nat /\ l \in Nat /\ l >= 1
  BY <1>1, MatchedGathers, LenProperties, QueryAssumption
<1>3. Matched(filter)' = M
  BY <1>1 DEF Matched, Revisions, Passes
<1>4. IF Sliceable(M, o, l) THEN Page(M, f, o, l) ELSE Fails
  BY DEF Ask
<1>5. Sliceable(M, o, l) => o <= Len(M)
  BY <1>1, <1>2 DEF Sliceable, End
<1> HIDE DEF M
<1>6. CASE Page(M, f, o, l) /\ o <= Len(M)
  <2>1. Len(shown) = 0 /\ o + Len(shown) = o
    BY <1>1
  <2>2. shown = SubSeq(M, o + 1, o + Len(shown)) /\ shown \in Seq(Nat)
    BY <1>1, <2>1, SubSeqEmpty
  <2>3. /\ shown' \in Seq(Nat) /\ o + Len(shown') <= Len(M)
        /\ shown' = SubSeq(M, o + 1, o + Len(shown'))
        /\ session' \in {"open", "ended"}
        /\ session' = "open" => shown' # <<>> /\ cursor' = M[o + Len(shown')]
        /\ session' = "ended" => o + Len(shown') = Len(M)
        /\ answer'.total = Len(M) /\ answer'.revision = Len(log)
        /\ Unbroken(answer'.trajectory, StatusAt(Len(log)))
    BY <1>1, <1>2, <1>6, <2>1, <2>2, PageContinues
  <2>4. TilesInv(Matched(filter))'
    BY <1>1, <1>3, <2>3 DEF TilesInv
  <2>5. AnswerInv'
    BY <1>1, <2>3, LenProperties DEF AnswerInv, StatusAt, LogInv
  <2>6. QED
    BY <1>1, <2>3, <2>4, <2>5 DEF AuditInv, LogInv, M
<1>7. CASE Fails
  <2>1. session' = "failed" /\ shown' = <<>> /\ UNCHANGED answer
    BY <1>1, <1>7 DEF Fails
  <2>2. TilesInv(Matched(filter))'
    <3>1. Len(shown') = 0 /\ o + 0 = o /\ o < o + 1
      BY <1>1, <2>1
    <3>2. SubSeq(M, o + 1, o) = <<>>
      BY <1>1, <3>1, SubSeqEmpty
    <3>3. QED
      BY <1>1, <1>3, <2>1, <3>1, <3>2 DEF TilesInv
  <2>3. AnswerInv'
    BY <1>1, <2>1 DEF AnswerInv, StatusAt
  <2>4. QED
    BY <1>1, <2>1, <2>2, <2>3 DEF AuditInv, LogInv
<1>8. QED
  BY <1>4, <1>5, <1>6, <1>7

(* A further page begins behind the cursor: the last event shown           *)
(* (audit.go:120-131).                                                     *)
LEMMA MoreKeeps ==
  ASSUME AuditInv, NEW l \in Limits, More(l)
  PROVE  /\ AuditInv'
         /\ session' = "ended" =>
              shown' = SubSeq(Matched(filter), offset + 1, answer'.total)
<1> DEFINE M == Matched(filter)
           start == offset + Len(shown)
<1>1. /\ LogInv /\ UNCHANGED <<log, filter, offset>> /\ session = "open"
      /\ offset \in Nat /\ shown \in Seq(Nat) /\ AnswerInv /\ TilesInv(M)
  BY DEF AuditInv, More
<1>2. /\ M \in Seq(Nat) /\ Len(M) \in Nat /\ l \in Nat
      /\ DOMAIN M = 1 .. Len(M)
      /\ \A k \in DOMAIN M : M[k] \in 1 .. Len(log)
      /\ \A j, k \in DOMAIN M : j < k => M[j] < M[k]
  BY <1>1, MatchedGathers, LenProperties, QueryAssumption
<1>3. Matched(filter)' = M
  BY <1>1 DEF Matched, Revisions, Passes
<1>4. IF cursor \in ToSet(M) THEN Page(M, filter, Behind(M), l) ELSE Fails
  BY DEF More
<1> HIDE DEF M
<1>5. /\ shown = SubSeq(M, offset + 1, start) /\ start <= Len(M)
      /\ shown # <<>> /\ cursor = M[start]
  BY <1>1 DEF TilesInv
<1>6. start \in DOMAIN M
  <2>1. Len(shown) \in Nat /\ Len(shown) >= 1
    BY <1>1, <1>5, EmptySeq
  <2>2. start \in Nat /\ start >= 1
    BY <1>1, <2>1
  <2>3. QED
    BY <1>2, <1>5, <2>2
<1> HIDE DEF start
<1>7. Behind(M) = start
  <2>1. \A k \in DOMAIN M : M[k] = cursor => k = start
    <3> SUFFICES ASSUME NEW k \in DOMAIN M, M[k] = M[start], k # start
                 PROVE  FALSE
      BY <1>5
    <3>1. k < start \/ start < k
      BY <1>2, <1>6
    <3>2. M[k] \in Int /\ M[start] \in Int
      BY <1>2, <1>6
    <3>3. M[k] < M[start] \/ M[start] < M[k]
      BY <1>2, <1>6, <3>1
    <3>4. QED
      BY <3>2, <3>3
  <2>2. QED
    BY <1>5, <1>6, <2>1 DEF Behind
<1>8. Page(M, filter, start, l)
  <2>1. cursor \in ToSet(M)
    BY <1>5, <1>6 DEF ToSet
  <2>2. QED
    BY <1>4, <1>7, <2>1
<1>9. log # <<>>
  <2>1. M[start] \in 1 .. Len(log)
    BY <1>2, <1>6
  <2>2. QED
    BY <2>1
<1>10. /\ shown' \in Seq(Nat) /\ offset + Len(shown') <= Len(M)
       /\ shown' = SubSeq(M, offset + 1, offset + Len(shown'))
       /\ session' \in {"open", "ended"}
       /\ session' = "open" =>
            shown' # <<>> /\ cursor' = M[offset + Len(shown')]
       /\ session' = "ended" => offset + Len(shown') = Len(M)
       /\ answer'.total = Len(M) /\ answer'.revision = Len(log)
       /\ Unbroken(answer'.trajectory, StatusAt(Len(log)))
  <2>1. \A f, o : o \in Nat /\ o = offset /\ f = filter =>
          /\ shown' \in Seq(Nat) /\ o + Len(shown') <= Len(M)
          /\ shown' = SubSeq(M, o + 1, o + Len(shown'))
          /\ session' \in {"open", "ended"}
          /\ session' = "open" => shown' # <<>> /\ cursor' = M[o + Len(shown')]
          /\ session' = "ended" => o + Len(shown') = Len(M)
          /\ answer'.total = Len(M) /\ answer'.revision = Len(log)
          /\ Unbroken(answer'.trajectory, StatusAt(Len(log)))
    BY <1>1, <1>2, <1>5, <1>8, <1>9, PageContinues DEF start
  <2>2. QED
    BY <1>1, <2>1
<1>11. TilesInv(Matched(filter))'
  BY <1>1, <1>3, <1>10 DEF TilesInv
<1>12. AnswerInv'
  BY <1>1, <1>10, LenProperties DEF AnswerInv, StatusAt, LogInv
<1>13. QED
  BY <1>1, <1>10, <1>11, <1>12 DEF AuditInv, LogInv, M

(* A further event does not touch what was shown of the earlier ones       *)
(* (audit.go:96-144).                                                      *)
LEMMA RecordKeeps ==
  ASSUME AuditInv, NEW a \in Actors, NEW e \in Types, Record(a, e)
  PROVE  AuditInv' /\ session' = session
<1>1. /\ LogInv /\ AnswerInv /\ offset \in Nat /\ shown \in Seq(Nat)
      /\ UNCHANGED <<session, filter, offset, shown, cursor, answer>>
  BY DEF AuditInv, Record, client
<1>2. /\ LogInv' /\ Len(log) \in Nat /\ Len(log') = Len(log) + 1
      /\ \A i \in 1 .. Len(log) : log'[i] = log[i]
  BY <1>1, RecordAppends
<1>3. AnswerInv'
  <2>1. answer.revision \in 0 .. Len(log) /\ answer.revision \in 0 .. Len(log')
    BY <1>1, <1>2 DEF AnswerInv
  <2>2. answer.revision > 0 =>
          StatusAt(answer.revision)' = StatusAt(answer.revision)
    BY <1>1, <1>2, <2>1 DEF StatusAt
  <2>3. QED
    BY <1>1, <2>1, <2>2 DEF AnswerInv
<1>4. ASSUME session # "idle"
      PROVE  TilesInv(Matched(filter))'
  <2>1. PICK f : f = filter
    OBVIOUS
  <2> DEFINE M == Matched(f)
             N == Matched(f)'
             n == Len(shown)
  <2>2. TilesInv(M)
    BY <1>4, <2>1 DEF AuditInv, Matched
  <2>3. /\ M \in Seq(Nat) /\ Len(M) \in Nat /\ n \in Nat
        /\ N \in {M, Append(M, Len(log) + 1)}
    BY <1>1, MatchedGathers, MatchedGrows, LenProperties
  <2>4. N = Matched(filter)'
    BY <1>1, <2>1 DEF Matched, Revisions, Passes
  <2> HIDE DEF M, N, n
  <2>5. /\ N \in Seq(Nat) /\ Len(N) \in Nat /\ Len(M) <= Len(N)
        /\ \A i \in 1 .. Len(M) : N[i] = M[i]
    <3>1. CASE N = M
      BY <2>3, <3>1
    <3>2. CASE N = Append(M, Len(log) + 1)
      BY <1>2, <2>3, <3>2, AppendProperties
    <3>3. QED
      BY <2>3, <3>1, <3>2
  <2>6. shown = SubSeq(N, offset + 1, offset + n)
    <3>1. CASE n = 0
      <4>1. shown = <<>>
        BY <1>1, <3>1, EmptySeq DEF n
      <4>2. offset + n = offset /\ offset < offset + 1
        BY <1>1, <3>1
      <4>3. QED
        BY <1>1, <4>1, <4>2, SubSeqEmpty
    <3>2. CASE n # 0
      <4>1. shown = SubSeq(M, offset + 1, offset + n) /\ offset + n <= Len(M)
        BY <2>2, <3>2 DEF TilesInv, n
      <4>2. /\ offset + 1 \in 1 .. Len(M) /\ offset + n \in 1 .. Len(M)
            /\ offset + 1 \in Int /\ offset + n \in Int
        BY <1>1, <2>3, <3>2, <4>1
      <4>3. \A i \in offset + 1 .. offset + n :
              i \in 1 .. Len(M) /\ N[i] = M[i] /\ M[i] \in Nat
        BY <2>3, <2>5, <4>2, ElementOfSeq
      <4>4. SubSeq(N, offset + 1, offset + n) = SubSeq(M, offset + 1, offset + n)
        <5> DEFINE s == SubSeq(M, offset + 1, offset + n)
                   t == SubSeq(N, offset + 1, offset + n)
        <5>1. /\ s \in Seq(Nat)
              /\ Len(s) = IF offset + 1 <= offset + n
                          THEN (offset + n) - (offset + 1) + 1 ELSE 0
              /\ \A i \in 1 .. (offset + n) - (offset + 1) + 1 :
                   s[i] = M[(offset + 1) + i - 1]
          BY <4>2, <4>3, SubSeqProperties
        <5>2. /\ t \in Seq(Nat)
              /\ Len(t) = IF offset + 1 <= offset + n
                          THEN (offset + n) - (offset + 1) + 1 ELSE 0
              /\ \A i \in 1 .. (offset + n) - (offset + 1) + 1 :
                   t[i] = N[(offset + 1) + i - 1]
          BY <4>2, <4>3, SubSeqProperties
        <5> HIDE DEF s, t
        <5>3. Len(s) = n /\ Len(t) = n /\ (offset + n) - (offset + 1) + 1 = n
          <6>1. offset + 1 <= offset + n /\ (offset + n) - (offset + 1) + 1 = n
            BY <1>1, <2>3, <3>2
          <6>2. QED
            BY <5>1, <5>2, <6>1
        <5>4. \A i \in 1 .. n : s[i] = t[i]
          <6> SUFFICES ASSUME NEW i \in 1 .. n PROVE s[i] = t[i]
            OBVIOUS
          <6>1. (offset + 1) + i - 1 \in offset + 1 .. offset + n
            BY <1>1, <2>3
          <6>2. QED
            BY <4>3, <5>1, <5>2, <5>3, <6>1
        <5>5. s = t
          BY <5>1, <5>2, <5>3, <5>4, SeqEqual
        <5>6. QED
          BY <5>5 DEF s, t
      <4>5. QED
        BY <4>1, <4>4
    <3>3. QED
      BY <3>1, <3>2
  <2>7. shown # <<>> => offset + n <= Len(N)
    BY <1>1, <2>2, <2>3, <2>5 DEF TilesInv, n
  <2>8. session = "open" => shown # <<>> /\ cursor = N[offset + n]
    <3> SUFFICES ASSUME session = "open"
                 PROVE  shown # <<>> /\ cursor = N[offset + n]
      OBVIOUS
    <3>1. shown # <<>> /\ cursor = M[offset + n] /\ offset + n <= Len(M)
      BY <2>2 DEF TilesInv, n
    <3>2. n >= 1
      BY <1>1, <3>1, EmptySeq DEF n
    <3>3. offset + n \in 1 .. Len(M)
      BY <1>1, <2>3, <3>1, <3>2
    <3>4. QED
      BY <2>5, <3>1, <3>3
  <2>9. QED
    BY <1>1, <2>4, <2>6, <2>7, <2>8 DEF TilesInv, n
<1>5. QED
  BY <1>1, <1>2, <1>3, <1>4 DEF AuditInv

(* The steps of the model are these (audit.go:72-145).                     *)
LEMMA AuditStep == AuditInv /\ [Next]_vars => AuditInv'
<1> SUFFICES ASSUME AuditInv, [Next]_vars PROVE AuditInv'
  OBVIOUS
<1>1. CASE UNCHANGED vars
  BY <1>1 DEF vars, client, AuditInv, LogInv, AnswerInv, TilesInv, Matched,
     Revisions, Passes, StatusAt
<1>2. QED
  BY <1>1, RecordKeeps, AskKeeps, MoreKeeps DEF Next

(* What the client has seen is always a run of what matches, its cursor    *)
(* the last of it, its trajectory a path.                                  *)
THEOREM AuditInvariant == Spec => []AuditInv
<1>1. Init => AuditInv
  BY DEF Init, AuditInv, LogInv, AnswerInv
<1>2. QED
  BY <1>1, AuditStep, PTL DEF Spec

(* The pages together are the matching events in order, none twice and     *)
(* none left out, however many were appended meanwhile (audit.go:118-143). *)
THEOREM PagesTileMatches == Spec => []PagesTile
<1>1. AuditInv => PagesTile
  BY DEF AuditInv, TilesInv, PagesTile
<1>2. QED
  BY <1>1, AuditInvariant, PTL

(* The trajectory is an unbroken path, whatever the filter                 *)
(* (audit.go:83-95).                                                       *)
THEOREM TrajectoriesUnbroken == Spec => []TrajectoryUnbroken
<1>1. AuditInv => TrajectoryUnbroken
  BY DEF AuditInv, AnswerInv, Unbroken, TrajectoryUnbroken
<1>2. QED
  BY <1>1, AuditInvariant, PTL

(* A page without a cursor ends with the last event that matches           *)
(* (audit.go:136-143).                                                     *)
THEOREM LastPagesComplete == Spec => LastPageComplete
<1> DEFINE A == session' = "ended" /\ session # "ended" =>
                  shown' = SubSeq(Matched(filter)', offset' + 1, answer'.total)
<1>1. AuditInv /\ [Next]_vars => [A]_vars
  <2> SUFFICES ASSUME AuditInv, Next, session' = "ended", session # "ended"
               PROVE  shown' = SubSeq(Matched(filter)', offset' + 1, answer'.total)
    OBVIOUS
  <2>1. ASSUME NEW f \in Filters, NEW o \in Offsets, NEW l \in Limits, Ask(f, o, l)
        PROVE  shown' = SubSeq(Matched(filter)', offset' + 1, answer'.total)
    <3>1. Matched(filter)' = Matched(f) /\ offset' = o
      BY <2>1 DEF Ask, Matched, Revisions, Passes
    <3>2. QED
      BY <2>1, <3>1, AskKeeps
  <2>2. ASSUME NEW l \in Limits, More(l)
        PROVE  shown' = SubSeq(Matched(filter)', offset' + 1, answer'.total)
    <3>1. Matched(filter)' = Matched(filter) /\ offset' = offset
      BY <2>2 DEF More, Matched, Revisions, Passes
    <3>2. QED
      BY <2>2, <3>1, MoreKeeps
  <2>3. QED
    BY <2>1, <2>2, RecordKeeps DEF Next
<1>2. QED
  BY <1>1, AuditInvariant, PTL DEF Spec, LastPageComplete
=============================================================================
