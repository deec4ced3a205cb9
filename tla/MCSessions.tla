----------------------------- MODULE MCSessions -----------------------------
(***************************************************************************)
(* An instance of Sessions for TLC: what browsers may show.  All else is   *)
(* given its value in the .cfg file.                                       *)
(***************************************************************************)
EXTENDS Sessions, TLC

MCUsers == {[ip |-> "10.0.0.1", ua |-> "Mozilla"], [ip |-> "10.0.0.2", ua |-> ""],
            [ip |-> "10.0.0.3", ua |-> "Mozilla"]}
Symmetry == Permutations(Browsers)
=============================================================================
