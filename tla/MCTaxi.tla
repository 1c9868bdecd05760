------------------------------- MODULE MCTaxi -------------------------------
(***************************************************************************)
(* Taxi for TLC.  The pids are interchangeable, so it is enough that fork()   *)
(* hands them out in their order (this, unlike symmetry, is sound for the     *)
(* liveness properties too).                                                  *)
(***************************************************************************)
EXTENDS Taxi

InOrder ==
    \A d, e \in Pids : d < e /\ proc'[e] # "unborn" => proc'[d] # "unborn"

=============================================================================
