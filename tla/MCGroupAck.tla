----------------------------- MODULE MCGroupAck -----------------------------
(***************************************************************************)
(* GroupAck alone, for the broadcast client's second message: two servers,    *)
(* of which one answers and the other is forgotten.                           *)
(***************************************************************************)
EXTENDS GroupAck
=============================================================================
