---------------------------- MODULE MCOutboxDrain ---------------------------
(* A small instance of OutboxDrain for TLC: the oldest row always fails, the *)
(* newest has a topic nobody handles, and a batch holds half the backlog.    *)
EXTENDS OutboxDrain

MCRows == 1 .. 4
MCPoison == {Min(MCRows)}
MCNoHandler == {Max(MCRows)}
=============================================================================
