----------------------------- MODULE MCRawEcho -----------------------------
(***************************************************************************)
(* RawEcho for TLC: two clients and three ports, one of them the server's, so *)
(* that ports are shared and left behind and the server hears itself; room    *)
(* for one client in the table.                                               *)
(***************************************************************************)
EXTENDS RawEcho, TLC

Symmetry == Permutations(Clients)
=============================================================================
