-------------------------- MODULE MCBlockProcessor --------------------------
(* BlockProcessor for TLC: the constants are given in the cfg files.       *)
EXTENDS BlockProcessor
=============================================================================
