--------------------------- MODULE MCOcppConnection ---------------------------
(* Constants of the OcppConnection run.                                    *)
EXTENDS OcppConnection

CONSTANTS c1, c2, m1, none

MCConns == {c1, c2}
MCMessages == {m1}
=============================================================================
