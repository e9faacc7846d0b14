------------------------------ MODULE AuditLedger ------------------------------
(***************************************************************************)
(* What the audit trail promises, with no pool, process or failure in it:  *)
(* entries are only ever added, one call has at most one, and rows are     *)
(* shown to a caller only after the entry that describes exactly those     *)
(* rows is in the ledger.                                                  *)
(***************************************************************************)

CONSTANT Entries      \* every entry a call can leave; each has a field "req"

VARIABLES
  ledger,             \* the entries written
  shown               \* the entries whose rows have been shown to their caller

vars == <<ledger, shown>>

Init == ledger = {} /\ shown = {}

\* One commit; a process that dies may leave several of them behind at once.
Write ==
    /\ ledger' \in SUBSET Entries
    /\ ledger \subseteq ledger'
    /\ \A e, f \in ledger' : e.req = f.req => e = f
    /\ UNCHANGED shown

Show(e) ==
    /\ e \in ledger \ shown
    /\ shown' = shown \cup {e}
    /\ UNCHANGED ledger

Next == Write \/ (\E e \in ledger : Show(e))

Spec == Init /\ [][Next]_vars

ShownIsWritten == shown \subseteq ledger
=============================================================================
