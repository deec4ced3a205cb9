-------------------------- MODULE MCNetworkHandler --------------------------
(***************************************************************************)
(* Instances of NetworkHandler for TLC.                                    *)
(***************************************************************************)
EXTENDS NetworkHandler

OneListener == <<3>>
TwoListeners == <<3, 4>>

Symmetry == Permutations(Conns)
=============================================================================
