-------------------------------- MODULE MCMSA --------------------------------
(* Instances of MSAGC for TLC. *)
EXTENDS MSAGC
==============================================================================
