------------------------------ MODULE Calendar ------------------------------
(***************************************************************************)
(* What the booking flow promises about a resource's calendar, without     *)
(* transactions, locks or handlers: a booking claims one slot of one       *)
(* resource for good, it holds the slot from the moment it is granted to   *)
(* the moment it is released, it is granted at most once, and two bookings *)
(* never hold overlapping slots of one resource.                           *)
(***************************************************************************)
EXTENDS Naturals

CONSTANTS BookingIds, Claims, Conflict(_, _), NoClaim

VARIABLES claim, phase

cvars == <<claim, phase>>

Init ==
  /\ claim = [b \in BookingIds |-> NoClaim]
  /\ phase = [b \in BookingIds |-> "waiting"]

Held == {b \in BookingIds : phase[b] = "held"}

File(b, k) ==
  /\ claim[b] = NoClaim
  /\ claim' = [claim EXCEPT ![b] = k]
  /\ UNCHANGED phase

Grant(b) ==
  /\ claim[b] # NoClaim
  /\ phase[b] = "waiting"
  /\ \A c \in Held : ~Conflict(claim[b], claim[c])
  /\ phase' = [phase EXCEPT ![b] = "held"]
  /\ UNCHANGED claim

FreeUp(B) ==
  /\ phase' = [b \in BookingIds |-> IF b \in B THEN "released" ELSE phase[b]]
  /\ UNCHANGED claim

Next ==
  \/ \E b \in BookingIds, k \in Claims : File(b, k)
  \/ \E b \in BookingIds : Grant(b)
  \/ \E B \in SUBSET Held : FreeUp(B)

Spec == Init /\ [][Next]_cvars
=============================================================================
