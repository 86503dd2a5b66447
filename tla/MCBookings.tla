----------------------------- MODULE MCBookings -----------------------------
(* Small instances of Bookings for TLC. *)
EXTENDS Bookings, TLC

CONSTANT olga  \* the owner of every resource

MCOwnerOf == [r \in Resources |-> olga]

\* Times are multiples of the grid.  One slot; two slots that touch.
OneSlot  == {[start |-> 2, end |-> 3]}
Touching == {[start |-> 2, end |-> 3], [start |-> 3, end |-> 4]}

Interchangeable == Permutations(Sessions) \cup Permutations(BookingIds)
=============================================================================
