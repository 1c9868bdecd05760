--------------------------- MODULE MCStallMarket ---------------------------
(***************************************************************************)
(* StallMarket for TLC: as in the program, what the stalls have at first is   *)
(* less than what the buyers need, so nobody finishes without the loader.     *)
(***************************************************************************)
EXTENDS StallMarket
=============================================================================
