----------------------------- MODULE MCOtaFlash ------------------------------
(* OtaFlash for TLC: the hazards of each run.                              *)
EXTENDS OtaFlash

(* Answers may be late, nothing else goes wrong.                           *)
OnlySlow == {"slow"}
=============================================================================
