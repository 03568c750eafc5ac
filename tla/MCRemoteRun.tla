---------------------------- MODULE MCRemoteRun ----------------------------
(* RemoteRun on two pods; the constants are plain values in the .cfg files. *)
EXTENDS RemoteRun
=============================================================================
