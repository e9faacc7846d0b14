------------------------------- MODULE MCTier2 --------------------------------
(* A small instance of Tier2 for TLC. *)
EXTENDS Tier2

\* What every role may read, what read-only may not, and what only admin may.
SomeColumns == {{"id", "email"}, {"ssn"}, {"id", "balance"}}
===============================================================================
