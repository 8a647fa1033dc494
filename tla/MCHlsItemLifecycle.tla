------------------------- MODULE MCHlsItemLifecycle -------------------------
(***************************************************************************)
(* A task with a primary session and one more result.                       *)
(***************************************************************************)
EXTENDS HlsItemLifecycle

CONSTANTS p, r
=============================================================================
