----------------------------- MODULE MCProcess -----------------------------
(* A few processes and signals for TLC. *)
EXTENDS Process

MCMasks == {{"TERM"}}
=============================================================================
