---------------------------- MODULE MCLogFollow ----------------------------
(* LogFollow; the constants are plain values in the .cfg files. *)
EXTENDS LogFollow
=============================================================================
