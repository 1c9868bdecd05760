------------------------------ MODULE MCMqChat ------------------------------
(***************************************************************************)
(* MqChat for TLC, with clients as model values.                           *)
(***************************************************************************)
EXTENDS MqChat, TLC

\* The clients are alike: no step and no safety property names one.
ClientSymmetry == Permutations(Clients)

=============================================================================
