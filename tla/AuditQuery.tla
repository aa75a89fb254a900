----------------------------- MODULE AuditQuery -----------------------------
(***************************************************************************)
(* The audit query on the events of a case, and a client that follows its  *)
(* cursors from page to page while commands append further events.  The    *)
(* revision of an event is its position in the log; a cursor names the     *)
(* last event shown, which the digest identifies as well.  Actors stand    *)
(* for the time window too: both are tests of a single event.              *)
(***************************************************************************)
EXTENDS Naturals, Sequences, FiniteSets, SequencesExt, CaseEvents

CONSTANTS
  Actors,
  Types,    \* the types of event commands record
  Filters,  \* what clients ask for, as the handler lets it through
  Limits, Offsets,
  NotGiven, \* a filter field that is not given
  MaxLog    \* bounds the length of the log

ASSUME QueryAssumption ==
  /\ Types \subseteq EventTypes
  /\ NotGiven \notin Actors \cup Types /\ MaxLog \in Nat
  /\ Limits \subseteq 1 .. 100 /\ Offsets \subseteq Nat
  /\ Filters \subseteq [actor: Actors \cup {NotGiven}, type: Types \cup {NotGiven},
                        from: Nat, to: Nat]
  /\ \A f \in Filters : f.to > 0 => f.from <= f.to

VARIABLES
  log,
  session,  \* "idle", "open" while a cursor is at hand, "ended", "failed"
  filter, offset,
  shown,    \* the events on the pages so far
  cursor,   \* the cursor on the last page; 0 where there is none
  answer    \* what else the last page said

client == <<session, filter, offset, shown, cursor, answer>>
vars == <<log, client>>

StatusAt(i) == IF i = 0 THEN "none" ELSE log[i].status

NoFilter == [actor |-> NotGiven, type |-> NotGiven, from |-> 0, to |-> 0]

Init ==
  /\ log = <<>> /\ session = "idle"
  /\ filter = NoFilter /\ offset = 0
  /\ shown = <<>> /\ cursor = 0
  /\ answer = [total |-> 0, revision |-> 0, trajectory |-> <<>>]
-----------------------------------------------------------------------------
Record(a, e) ==
  /\ Len(log) < MaxLog
  /\ StatusAt(Len(log)) \in Expected(e)
  /\ log' = Append(log, [actor |-> a, type |-> e, status |-> Apply(StatusAt(Len(log)), e)])
  /\ UNCHANGED client
-----------------------------------------------------------------------------
(* QueryEvents                                                             *)

Passes(f, i) ==
  /\ f.actor = NotGiven \/ log[i].actor = f.actor
  /\ f.type = NotGiven \/ log[i].type = f.type
  /\ f.from <= i /\ (f.to > 0 => i <= f.to)

(* The numbers of S from 1 to n in increasing order, gathered by a loop.   *)
InOrder(S, n) ==
  LET found[m \in 0 .. n] ==
        IF m = 0 THEN <<>>
        ELSE IF m \in S THEN Append(found[m - 1], m) ELSE found[m - 1]
  IN found[n]

Revisions == 1 .. Len(log)
Matched(f) == InOrder({i \in Revisions : Passes(f, i)}, Len(log))

(* The changes of status in all events, whatever the filter.               *)
Change(i) == [revision |-> i, from |-> StatusAt(i - 1), to |-> StatusAt(i)]
IsChange(i) == StatusAt(i - 1) # StatusAt(i)
Path(S) == LET c == InOrder(S, Len(log)) IN [k \in DOMAIN c |-> Change(c[k])]

Trajectory_Matched(f) == Path({i \in Revisions : Passes(f, i) /\ IsChange(i)})
Trajectory(f) == Path({i \in Revisions : IsChange(i)})

(* How many matching events lie before the page.                           *)
Behind(matched) == CHOOSE k \in DOMAIN matched : matched[k] = cursor

End(matched, start, limit) ==
  IF start + limit > Len(matched) THEN Len(matched) ELSE start + limit

GoesOn_SparesLast(matched, end) == end + 1 < Len(matched)
GoesOn(matched, end) == end < Len(matched)

Bookmark_First(matched, start, end) == matched[start + 1]
Bookmark_Position(matched, start, end) == end
Bookmark(matched, start, end) == matched[end]

Page(matched, f, start, limit) ==
  LET end  == End(matched, start, limit)
      next == GoesOn(matched, end) /\ end > start
  IN /\ shown' = shown \o SubSeq(matched, start + 1, end)
     /\ cursor' = IF next THEN Bookmark(matched, start, end) ELSE 0
     /\ session' = IF next THEN "open" ELSE "ended"
     /\ answer' = [total |-> Len(matched), revision |-> Len(log),
                   trajectory |-> Trajectory(f)]

Fails == session' = "failed" /\ UNCHANGED <<shown, cursor, answer>>

(* matched[start:end] has no value when start lies behind end.             *)
Sliceable(matched, start, limit) == start <= End(matched, start, limit)

Ask(f, o, l) ==
  /\ session = "idle" /\ log # <<>>
  /\ filter' = f /\ offset' = o
  /\ \E matched \in {Matched(f)} :
       IF Sliceable(matched, o, l) THEN Page(matched, f, o, l) ELSE Fails
  /\ UNCHANGED log

(* With a cursor the offset is not looked at.                              *)
More(l) ==
  /\ session = "open"
  /\ \E matched \in {Matched(filter)} :
       IF cursor \in ToSet(matched)
       THEN Page(matched, filter, Behind(matched), l) ELSE Fails
  /\ UNCHANGED <<log, filter, offset>>
-----------------------------------------------------------------------------
Next ==
  \/ \E a \in Actors, e \in Types : Record(a, e)
  \/ \E f \in Filters, o \in Offsets, l \in Limits : Ask(f, o, l)
  \/ \E l \in Limits : More(l)

Spec == Init /\ [][Next]_vars
(* A client that was given a cursor goes on.                               *)
FairSpec == Spec /\ WF_vars(\E l \in Limits : More(l))
-----------------------------------------------------------------------------
(* Whatever was appended between two pages, the pages together are the     *)
(* matching events in order, from the offset on: none twice, none left out *)
(* (audit.go:118-143).                                                     *)
PagesTile ==
  session # "idle" =>
    shown = SubSeq(Matched(filter), offset + 1, offset + Len(shown))

(* A page without a cursor is the last: nothing that matched at the time   *)
(* is missing (audit.go:136-143).                                          *)
LastPageComplete ==
  [][session' = "ended" /\ session # "ended" =>
       shown' = SubSeq(Matched(filter)', offset' + 1, answer'.total)]_vars

(* The changes of status form a path from the beginning to the status the  *)
(* case had when the page was made, whatever the filter (README.md:45,     *)
(* audit.go:85-100).                                                       *)
TrajectoryUnbroken ==
  answer.revision > 0 =>
    LET t == answer.trajectory IN
    /\ t # <<>> /\ t[1].from = "none"
    /\ \A k \in 1 .. Len(t) - 1 : t[k].to = t[k + 1].from
    /\ t[Len(t)].to = StatusAt(answer.revision)

(* A client that follows the cursors comes to the end once no more events  *)
(* are recorded: every cursor it was given is accepted with the same       *)
(* filter, and leads on (audit.go:120-131,141-143).                        *)
FollowersFinish == session = "open" ~> session = "ended"

(* An offset that is not negative gives a page, as the message of the      *)
(* handler (handlers.go:185) and the clamp of Events (query.go:18-20) say. *)
OffsetsAnswered == session # "failed"
=============================================================================
