---------------------------- MODULE MCCgiHandler ----------------------------
(***************************************************************************)
(* Instances of CgiHandler for TLC; the values are in the .cfg files.      *)
(***************************************************************************)
EXTENDS CgiHandler
=============================================================================
