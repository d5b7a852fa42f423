----------------------------- MODULE MCIpcServer -----------------------------
(* Two clients and two queues: both clients can be in a create call at once,
   and a setup can fail before or after one that does not. *)
EXTENDS IpcServer

CONSTANTS c1, c2

=============================================================================
