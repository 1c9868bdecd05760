----------------------------- MODULE MCShmChat -----------------------------
(***************************************************************************)
(* ShmChat for TLC.  Clients, and the names their users type, are model    *)
(* values that the code only compares, so the safety run uses symmetry.    *)
(***************************************************************************)
EXTENDS ShmChat, TLC

ChatSymmetry == Permutations(Clients) \cup Permutations(Names)

=============================================================================
