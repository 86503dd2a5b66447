----------------------------- MODULE MCSlotGrid -----------------------------
(* A small instance of SlotGrid for TLC: the night from 1 to 4 o'clock,      *)
(* with two moments to a quarter hour: odd instants are off the minute.      *)
EXTENDS SlotGrid, TLC

W(a, b) == [start |-> a, end |-> b]
Nightly(windows) == [d \in 1..7 |-> windows]
Rule(w, p) == [days |-> 1..7, window |-> w, price |-> p]

\* Open from 1 to 4 in hours, dearer from 2 on; from 1:30 to 3 in half hours
\* with a break; so dear that three slots exceed the maximum.
MCResources ==
  { [slot |-> 4, hours |-> Nightly(<<W(4, 16)>>), rules |-> <<Rule(W(8, 16), 2)>>, price |-> 1],
    [slot |-> 2, hours |-> Nightly(<<W(4, 6), W(8, 12)>>), rules |-> <<Rule(W(8, 10), 3)>>,
     price |-> 1],
    [slot |-> 2, hours |-> Nightly(<<W(4, 12)>>), rules |-> <<>>, price |-> 4] }

\* No change; an hour forward, an hour back, both at 2 o'clock.
MCZones == {[change |-> 8 * Fine, jump |-> j * Fine] : j \in {0, 4, -4}}
=============================================================================
