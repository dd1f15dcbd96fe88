---------------------------- MODULE MCFatChains ----------------------------
(* The FAT volume for TLC. *)
EXTENDS FatChains
=============================================================================
