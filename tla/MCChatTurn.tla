----------------------------- MODULE MCChatTurn -----------------------------
(* ChatTurn on a small instance: a user and a widget session chat at the   *)
(* same time, over a pool of one connection.                               *)
EXTENDS ChatTurn

=============================================================================
