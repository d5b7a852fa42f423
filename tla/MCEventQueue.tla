---------------------------- MODULE MCEventQueue ----------------------------
(* Five entries, one more than the driver's queue: the handler goes round the
   ring more than once. *)
EXTENDS EventQueue

=============================================================================
