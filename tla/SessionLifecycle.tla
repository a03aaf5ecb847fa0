--------------------------- MODULE SessionLifecycle ---------------------------
(***************************************************************************)
(* What the handlers, the close task and the billing task together promise *)
(* for each transaction: it is opened once, and every later change of its  *)
(* document is the next step of its life.  Only the promise: no copies, no *)
(* connector, no tasks.                                                    *)
(***************************************************************************)
CONSTANT Ids            \* the transaction ids
VARIABLE status         \* the stage of each transaction

(* new: given an id at most; gone: refused, or deleted because unused;     *)
(* complete: its extra inactivity is known; billed: its billing says so.   *)
Init == status = [i \in Ids |-> "new"]

Move(i, from, to) ==
  /\ status[i] \in from
  /\ status' = [status EXCEPT ![i] = to]

Open(i) == Move(i, {"new"}, "ongoing")
Drop(i) == Move(i, {"new", "ongoing"}, "gone")
Stop(i) == Move(i, {"ongoing"}, "stopped") \/ Move(i, {"ongoing"}, "complete")
Complete(i) == Move(i, {"stopped"}, "complete")
Bill(i) == Move(i, {"complete"}, "billed")

Next == \E i \in Ids : Open(i) \/ Drop(i) \/ Stop(i) \/ Complete(i) \/ Bill(i)

Spec == Init /\ [][Next]_status
=============================================================================
