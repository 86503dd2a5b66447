----------------------------- MODULE MCRatings ------------------------------
(* A small instance of Ratings for TLC. *)
EXTENDS Ratings, TLC

CONSTANTS b1, b2, b3, court, hall, cleo, carl

Booking(x, c, e) ==
  [table |-> "booking", resource |-> x, customer |-> c, status |-> "APPROVED", end |-> e]

MCSeed == (b1 :> Booking(court, cleo, 0)) @@ (b2 :> Booking(court, carl, 0))
          @@ (b3 :> Booking(hall, cleo, 1)) @@ [i \in RatingIds |-> NoRow]

Interchangeable ==
  {p @@ q : p \in Permutations(Sessions), q \in Permutations(RatingIds)}
=============================================================================
