----------------------------- MODULE MCServices -----------------------------
(* Instances of the services for TLC.                                        *)
EXTENDS Services

CONSTANTS k1, k2, p1, m1, l1

AllToOne == [w \in Waiters |-> l1]
TwoKeys == <<k1, k2>>
AnyKey == [m \in Rapis |-> Credentials]
AllFormats == {"openai", "anthropic", "gemini"}

\* One platform with two keys and a model that uses one of them; it is the chain
\* of the route.
Stocked ==
  {[platforms |-> {p1},
    home |-> [k \in Creds |-> IF k \in {k1, k2} THEN p1 ELSE Nil],
    at |-> [m \in Models |-> IF m = m1 THEN p1 ELSE Nil],
    bound |-> {<<m1, k1>>},
    column |-> [m \in Models |-> IF m = m1 THEN {k1} ELSE {}],
    route |-> TRUE,
    order |-> {<<0, m1>>},
    enabled |-> {p1, m1, Route},
    used |-> {p1, k1, k2, m1}]}
=============================================================================
