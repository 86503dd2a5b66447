------------------------------ MODULE MCInbox -------------------------------
(* A small instance of Inbox for TLC.  Sessions are interchangeable; keys are *)
(* numbers and are not.                                                       *)
EXTENDS Inbox, TLC

Interchangeable == Permutations(Sessions)
=============================================================================
