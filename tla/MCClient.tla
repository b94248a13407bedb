------------------------------ MODULE MCClient ------------------------------
(* Instances of Client for TLC.                                            *)
EXTENDS Client

(* One command for each of the two links; stats does not check its         *)
(* response, every other one does what put does.                           *)
SomeCommands == {"put", "stats"}
=============================================================================
