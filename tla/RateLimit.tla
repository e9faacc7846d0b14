------------------------------ MODULE RateLimit -------------------------------
(***************************************************************************)
(* What the rate limiter promises, without a window that is maintained:    *)
(* it remembers every call it admitted, and a call is admitted exactly if  *)
(* fewer than Quota of its user's lie in the closed window before it.      *)
(***************************************************************************)
EXTENDS Naturals, Sequences, FiniteSets

CONSTANTS UserIds, Quota, Window

VARIABLES
  now,
  admitted,         \* user id -> the times of its admitted calls
  answer            \* the latest call: <<user id, whether it was admitted>>, or <<>>

vars == <<now, admitted, answer>>

Recent(u) == {i \in DOMAIN admitted[u] : now - admitted[u][i] <= Window}

HasRoom(u) == Cardinality(Recent(u)) < Quota

Init == now = 0 /\ admitted = [u \in UserIds |-> <<>>] /\ answer = <<>>

Admit(u) ==
    /\ HasRoom(u)
    /\ admitted' = [admitted EXCEPT ![u] = Append(@, now)]
    /\ answer' = <<u, TRUE>>
    /\ UNCHANGED now

Refuse(u) ==
    /\ ~HasRoom(u)
    /\ answer' = <<u, FALSE>>
    /\ UNCHANGED <<now, admitted>>

Elapse ==
    /\ now' = now + 1
    /\ UNCHANGED <<admitted, answer>>

\* A new process remembers nothing.
Forget ==
    /\ admitted' = [u \in UserIds |-> <<>>]
    /\ answer' = <<>>
    /\ UNCHANGED now

Next == (\E u \in UserIds : Admit(u) \/ Refuse(u)) \/ Elapse \/ Forget

Spec == Init /\ [][Next]_vars
===============================================================================
