------------------------------ MODULE MCInvoicing ------------------------------
(* Constants of the Invoicing run.                                         *)
EXTENDS Invoicing, TLC

CONSTANTS f1, f2, t1, t2, null

MCFlows == {f1, f2}
MCTx == {t1, t2}
MCSymmetry == Permutations(MCFlows) \union Permutations(MCTx)
=============================================================================
