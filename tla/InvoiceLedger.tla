--------------------------- MODULE InvoiceLedger ---------------------------
(***************************************************************************)
(* What a customer may expect of the invoices, whatever happens to the     *)
(* program that writes them: the lines of a session come one after the     *)
(* other, each of them once, all of them on one invoice, and an invoice    *)
(* that was finalized keeps the lines it had.                              *)
(***************************************************************************)
EXTENDS Integers

CONSTANTS
  Tx,             \* the sessions, and the names of the invoices
  Lines           \* how many lines a session has on its invoice

VARIABLES
  items,          \* items[n][t][l]: line l of session t on invoice n, how often
  final           \* the invoices that were finalized

vars == <<items, final>>

Written(t, l) == \E n \in Tx : items[n][t][l] > 0
WrittenElsewhere(t, n) == \E m \in Tx \ {n}, l \in 1..Lines : items[m][t][l] > 0

Init ==
  /\ items = [n \in Tx |-> [t \in Tx |-> [l \in 1..Lines |-> 0]]]
  /\ final = {}

WriteLine(t, l, n) ==
  /\ n \notin final
  /\ ~WrittenElsewhere(t, n)
  /\ ~Written(t, l)
  /\ \A k \in 1..(l - 1) : Written(t, k)
  /\ items' = [items EXCEPT ![n][t][l] = 1]
  /\ UNCHANGED final

Finalize(n) ==
  /\ final' = final \union {n}
  /\ UNCHANGED items

Next ==
  \E n \in Tx : Finalize(n) \/ \E t \in Tx, l \in 1..Lines : WriteLine(t, l, n)

Spec == Init /\ [][Next]_vars
=============================================================================
