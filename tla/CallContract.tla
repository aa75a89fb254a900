---------------------------- MODULE CallContract ----------------------------
(***************************************************************************)
(* What the service promises whoever submits calls to its cases: a call    *)
(* is carried out at most once and not after it has been answered; success *)
(* is reported only of what was carried out; and a call whose client left  *)
(* may still be carried out, but never after a call to the same case that  *)
(* was made later.  Mailbox implements it.                                 *)
(***************************************************************************)
EXTENDS Sequences, SequencesExt

CONSTANTS Calls, Cases, CaseOf

VARIABLES
  asked,    \* the calls made
  left,     \* the calls whose client no longer waits
  earlier,  \* the calls that were over, for their clients, when a call was made
  effects,  \* of each case, the calls in the order it carried them out
  answer    \* what the caller was told

vars == <<asked, left, earlier, effects, answer>>

Over == left \cup {c \in Calls : answer[c] # "none"}

Init ==
  /\ asked = {} /\ left = {} /\ effects = [k \in Cases |-> <<>>]
  /\ earlier = [c \in Calls |-> {}]
  /\ answer = [c \in Calls |-> "none"]

Done(c) == Contains(effects[CaseOf[c]], c)

Ask(c) ==
  /\ c \notin asked
  /\ asked' = asked \cup {c}
  /\ earlier' = [earlier EXCEPT ![c] = {d \in Over : CaseOf[d] = CaseOf[c]}]
  /\ UNCHANGED <<left, effects, answer>>

Leave(c) ==
  /\ c \in asked /\ left' = left \cup {c}
  /\ UNCHANGED <<asked, earlier, effects, answer>>

Perform(c) ==
  /\ c \in asked /\ answer[c] \in {"none", "cancelled"}
  /\ ~Done(c)
  /\ \A d \in Calls : Done(d) => c \notin earlier[d]
  /\ effects' = [effects EXCEPT ![CaseOf[c]] = Append(@, c)]
  /\ UNCHANGED <<asked, left, earlier, answer>>

Tell(c, a) ==
  /\ c \in asked /\ answer[c] = "none"
  /\ a = "ok" => Done(c)
  /\ a = "cancelled" => c \in left
  /\ answer' = [answer EXCEPT ![c] = a]
  /\ UNCHANGED <<asked, left, earlier, effects>>

Next ==
  \E c \in Calls :
    Ask(c) \/ Leave(c) \/ Perform(c)
      \/ \E a \in {"ok", "error", "cancelled"} : Tell(c, a)

Spec == Init /\ [][Next]_vars
=============================================================================
