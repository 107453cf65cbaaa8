------------------------------ MODULE BookView ------------------------------
(***************************************************************************)
(* What the reader of the dataset relies on for the book of one pair,      *)
(* whatever adapter and transport brought it: the book shown is that of a  *)
(* moment the exchange has been through, and never an earlier one than was *)
(* shown before.  Feed implements it.                                      *)
(***************************************************************************)
EXTENDS Naturals

VARIABLES
    version,    \* how many books the exchange has been through
    shownAt     \* the one that is shown, 0 before the first

view == <<version, shownAt>>

Init == version = 1 /\ shownAt = 0

Quote == version' = version + 1 /\ UNCHANGED shownAt

\* The present book or one on the way to it.
Show == shownAt' \in shownAt .. version /\ UNCHANGED version

Next == Quote \/ Show

Spec == Init /\ [][Next]_view
=============================================================================
