----------------------------- MODULE MCStateLock -----------------------------
(***************************************************************************)
(* An instance of StateLock for TLC.                                       *)
(***************************************************************************)
EXTENDS StateLock

CONSTANTS r1, r2, r3
=============================================================================
