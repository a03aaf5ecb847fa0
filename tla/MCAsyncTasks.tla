----------------------------- MODULE MCAsyncTasks -----------------------------
(* Constants of the AsyncTasks runs: one task of a known kind beside one    *)
(* whose name createTask() has no case for (EMAIDS_IMPORT).                 *)
EXTENDS AsyncTasks

CONSTANTS billTransaction, emaidsImport

MCTasks == {billTransaction, emaidsImport}
MCUnknown == {emaidsImport}
=============================================================================
