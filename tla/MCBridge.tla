------------------------------ MODULE MCBridge ------------------------------
(***************************************************************************)
(* Bridge for TLC: one caller; the .cfg files give every bound.            *)
(***************************************************************************)
EXTENDS Bridge
=============================================================================
