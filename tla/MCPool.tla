------------------------------- MODULE MCPool -------------------------------
(* Two callers, blocks of two elements, six blocks created in a behaviour, at
   most five elements out: three blocks can exist at once, so blocks leave the
   list from its head, its middle and its tail, and the pool fills up with a
   block's element to spare. *)
EXTENDS Pool

CONSTANTS main, handler

=============================================================================
