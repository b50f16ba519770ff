--------------------------- MODULE MCServedTcpPorts ---------------------------
(* ServedTcpPorts for TLC; the .cfg files give the constants.               *)
EXTENDS ServedTcpPorts
=============================================================================
