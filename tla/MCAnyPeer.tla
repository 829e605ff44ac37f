----------------------------- MODULE MCAnyPeer ------------------------------
(***************************************************************************)
(* AnyPeer for TLC.  The callers of request_cancel and request_reset are   *)
(* interchangeable model values; the .cfg file gives every bound.          *)
(***************************************************************************)
EXTENDS AnyPeer, TLC

CallerSymmetry == Permutations(Callers)
=============================================================================
