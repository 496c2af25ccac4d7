-------------------------- MODULE MC_NumericTrigger --------------------------
(* A 64-bit little-endian build scaled down: 8-bit words in 16-bit longs, *)
(* a button or an int option moving between -1, 0 and 1, and trigger     *)
(* values configured among them.                                          *)
EXTENDS NumericTrigger

MCWords == {-1, 0, 1}
MCCfgInts == {-1, 0, 1}
=============================================================================
