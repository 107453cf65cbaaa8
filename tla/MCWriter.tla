------------------------------ MODULE MCWriter ------------------------------
(***************************************************************************)
(* Instances of Lifecycle and Writer: a grid snapshot, two trades with an  *)
(* id, a trade without one (MEXC) whose time SQLite cannot bind, an event. *)
(***************************************************************************)
EXTENDS Lifecycle

CONSTANTS sup, sampler

OneSupervisor == {sup}

s1 == [kind |-> Snap, id |-> 1]
t1 == [kind |-> Trd, id |-> 1]
t2 == [kind |-> Trd, id |-> 2]
m1 == [kind |-> Trd, id |-> 0]
e1 == [kind |-> Event, id |-> 0]

MCRows == {s1, t1, t2, m1, e1}
MCUntracked == {m1, e1}
MCNone == {}
MCBefore == {t2}
MCOverflowing == {m1}
=============================================================================
