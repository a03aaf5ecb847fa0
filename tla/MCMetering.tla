------------------------------ MODULE MCMetering ------------------------------
(* Constants of the Metering runs.                                         *)
EXTENDS Metering, TLC

CONSTANTS f1, f2

MCFlows == {f1, f2}
MCSymmetry == Permutations(MCFlows)

\* Energy in steps of two, and the stepless tariff that is always appended.
MCStepAndStepless == {
  [flat |-> FALSE, energy |-> 2, charging |-> Off, parking |-> Off],
  [flat |-> FALSE, energy |-> 0, charging |-> Off, parking |-> Off]}

\* With steps for energy and parking, with steps for charging, and stepless.
MCTariffs == {
  [flat |-> TRUE, energy |-> 2, charging |-> 0, parking |-> 1],
  [flat |-> TRUE, energy |-> Off, charging |-> 2, parking |-> 0],
  [flat |-> FALSE, energy |-> 0, charging |-> Off, parking |-> Off]}
=============================================================================
