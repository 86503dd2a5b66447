--------------------------- MODULE MCPublicPages ----------------------------
(* A small instance of PublicPages for TLC. *)
EXTENDS PublicPages, TLC

CONSTANTS olga, otto, uma

\* Olga has the oldest and the newest resource, so that pages can overflow with
\* Otto's and with her own.
MCOwnerOf == (1 :> olga) @@ (2 :> otto) @@ (3 :> olga)
=============================================================================
