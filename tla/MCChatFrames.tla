---------------------------- MODULE MCChatFrames ----------------------------
(* Small instances of the chat frame hook: one sender, one text.            *)
EXTENDS ChatFrames

CONSTANTS m1, m2, m3

SharedText == [m \in Messages |-> "text"]

OneSender == [m \in Messages |-> "sender"]
=============================================================================
