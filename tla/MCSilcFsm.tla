----------------------------- MODULE MCSilcFsm -----------------------------
(***************************************************************************)
(* Instances of SilcFsm for TLC: the names of two threads and an event.    *)
(* The threads of an instance differ in kind, so there is no symmetry.     *)
(***************************************************************************)
EXTENDS SilcFsm

CONSTANTS T1, T2, e1
=============================================================================
