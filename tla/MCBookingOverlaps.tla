------------------------- MODULE MCBookingOverlaps -------------------------
(* A small instance of BookingOverlaps for TLC. *)
EXTENDS BookingOverlaps, TLC

CONSTANT olga  \* the owner of every resource

MCOwnerOf == [r \in Resources |-> olga]

\* Times are multiples of the grid.  One slot, that starts on the first tick.
Soon == {[start |-> 1, end |-> 2]}

Interchangeable == Permutations(Sessions) \cup Permutations(BookingIds)
=============================================================================
