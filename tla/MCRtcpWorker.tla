---------------------------- MODULE MCRtcpWorker ----------------------------
(* Instances of RtcpWorker for TLC. *)
EXTENDS RtcpWorker

CONSTANT MaxListeners   \* bound on a listener count, which may go below zero

BoundedListeners == \A p \in Port : portListener[p] \in (-MaxListeners)..MaxListeners
=============================================================================
