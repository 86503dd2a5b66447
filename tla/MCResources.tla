---------------------------- MODULE MCResources -----------------------------
(* A small instance of Resources for TLC. *)
EXTENDS Resources, TLC

CONSTANTS r1, r2, t1, t2, olga, paul

Day(w1, w2) == (1 :> w1) @@ (2 :> w2)
W(a, b) == [start |-> a, end |-> b]
Rule(a, b, p) == [days |-> {1}, window |-> W(a, b), price |-> p]

\* Quarter hours: open from 9 to 12 on two days; on one day, in two parts that
\* fit the 30 minute grid only; overlapping windows.
MCHours ==
  { Day(<<W(36, 48)>>, <<W(36, 48)>>), Day(<<W(36, 42), W(42, 48)>>, <<>>),
    Day(<<W(36, 44), W(40, 48)>>, <<>>) }

\* No rule; a rule of two hours; one for the 30 minute grid; a third rule that
\* overlaps the first.
MCRules ==
  { <<>>, <<Rule(40, 48, 1)>>, <<Rule(36, 38, 1)>>,
    <<Rule(36, 40, 1), Rule(40, 44, 2), Rule(36, 40, 2)>> }

Wifi == "wifi" :> [kind |-> "bool", val |-> TRUE]
Yes == "wifi" :> [kind |-> "str", val |-> "yes"]
MCBases == {<<>>, Wifi, Yes}
MCCustoms == {<<>>, <<"wifi">>}

Schema(required) == <<[key |-> "wifi", type |-> "BOOL", required |-> required, enum |-> {}]>>
MCSchemas == {Schema(TRUE), Schema(FALSE), Schema(TRUE) \o Schema(FALSE)}

MCSeed ==
  (r1 :> [table |-> "resource", owner |-> olga, type |-> t1, slug |-> "a", meta |-> "x",
          slot |-> 2, hours |-> Day(<<W(36, 48)>>, <<W(36, 48)>>), rules |-> <<>>,
          base |-> <<>>, customs |-> <<>>, price |-> 1, cutoff |-> 0,
          published |-> FALSE, deleted |-> FALSE])
  @@ (t1 :> [table |-> "type", slug |-> "a", meta |-> "x", active |-> TRUE,
             schema |-> Schema(FALSE)])
  @@ [i \in {r2, t2} |-> NoRow]

Interchangeable == Permutations(Sessions)
=============================================================================
