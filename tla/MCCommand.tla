------------------------------ MODULE MCCommand ------------------------------
(* Two threads that issue commands over a ring of two entries, so that the ring
   wraps and every entry is used again. *)
EXTENDS CommandInterface

CONSTANTS main, handler

=============================================================================
