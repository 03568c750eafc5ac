---------------------------- MODULE MCLogPoll ----------------------------
(* LogPoll; the constants are plain values in the .cfg files. *)
EXTENDS LogPoll
=============================================================================
