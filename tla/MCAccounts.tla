----------------------------- MODULE MCAccounts -----------------------------
(* A small instance of Accounts for TLC. *)
EXTENDS Accounts, TLC

CONSTANTS ann, olga, uma, ugo, annSub, olgaSub, umaSub, ugoSub

MCSubOf == (ann :> annSub) @@ (olga :> olgaSub) @@ (uma :> umaSub) @@ (ugo :> ugoSub)

\* Ann was an owner before she became an administrator and has kept her slug: all
\* candidates of the name "a" are taken.
MCCandidates == ("a" :> <<"a", "a-2">>) @@ ("b" :> <<"b", "b-2">>)

MCSeed ==
  (ann :> [table |-> "user", email |-> "ann", hash |-> "new", role |-> "admin",
           slug |-> "a-2", active |-> TRUE])
  @@ (olga :> [table |-> "user", email |-> "olga", hash |-> "old", role |-> "owner",
               slug |-> "a", active |-> TRUE])
  @@ (olgaSub :> [table |-> "sub", owner |-> olga, status |-> "TRIALING", trial |-> 0])
  @@ [i \in {uma, ugo, umaSub, ugoSub, annSub} |-> NoRow]

MCSeedPairs == {[user |-> ann, role |-> "admin", at |-> 0],
                [user |-> olga, role |-> "owner", at |-> 0]}

\* Sessions, and the two users who have not registered yet with the keys of
\* their subscriptions.
Swap == (uma :> ugo) @@ (ugo :> uma) @@ (umaSub :> ugoSub) @@ (ugoSub :> umaSub)
Stay == [i \in DOMAIN Swap |-> i]
Interchangeable == {p @@ q : p \in Permutations(Sessions), q \in {Swap, Stay}}
=============================================================================
