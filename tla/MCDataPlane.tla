----------------------------- MODULE MCDataPlane -----------------------------
(* DataPlane for TLC; the .cfg files give the constants.                    *)
EXTENDS DataPlane
=============================================================================
