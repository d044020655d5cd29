---------------------------- MODULE MCOutgoingChat ----------------------------
(* Small instances of the addon's request bookkeeping with the messages    *)
(* the player types held in outgoingQueue.                                 *)
EXTENDS OutgoingChat
=============================================================================
