--------------------------- MODULE MCCaptureFetch ---------------------------
(* CaptureFetch; the constants are plain values in the .cfg file. *)
EXTENDS CaptureFetch
=============================================================================
