----------------------------- MODULE CommitLog -----------------------------
(***************************************************************************)
(* What the storage of one case promises: an append-only log into which    *)
(* each request enters at most once, and from which no acknowledged        *)
(* request ever disappears (README.md:9).  CaseStore implements it.        *)
(***************************************************************************)
EXTENDS Sequences, SequencesExt

CONSTANT Requests

VARIABLES
  log,    \* the requests whose event is in the case, oldest first
  acked   \* the requests whose success a client has been told

vars == <<log, acked>>

Init == log = <<>> /\ acked = {}

Append1(r) ==
  /\ ~Contains(log, r)
  /\ log' = Append(log, r)
  /\ UNCHANGED acked

Ack(r) ==
  /\ Contains(log, r)
  /\ acked' = acked \cup {r}
  /\ UNCHANGED log

Next == \E r \in Requests : Append1(r) \/ Ack(r)

Spec == Init /\ [][Next]_vars
=============================================================================
