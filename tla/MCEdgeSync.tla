----------------------------- MODULE MCEdgeSync -----------------------------
(* Instances of the store for TLC.  Rows of the first key may be in          *)
(* conflict, one of the second may be on one side only, and the two keys may *)
(* claim one place of a chain.                                               *)
EXTENDS Store, Sequences

CONSTANTS
  k1, k2, a, b, p1, p2,
  s, t,          \* tokens
  u, v,          \* base URLs
  m, n,          \* model names
  x, y, z        \* aliases

MCValsOf == [k \in Keys |-> IF k = k1 THEN {a, b} ELSE {a}]
MCFreshRows == {Empty, [k \in Keys |-> IF k = k1 THEN b ELSE Absent]}

KeyRow(platform, token, kind) == [platform |-> platform, token |-> token, kind |-> kind]
Model(platform, alias, model, list) ==
  [platform |-> platform, alias |-> alias, model |-> model, keyIDs |-> list]

OldKeys ==
  {<<>>, <<KeyRow(1, s, "named")>>}
  \cup {<<KeyRow(1, s, "default"), KeyRow(2, g, "default")>> : g \in {s, t, NoToken}}
  \cup {<<KeyRow(1, s, "default"), KeyRow(2, g, "default"), KeyRow(2, h, "more")>> :
          g \in {s, NoToken}, h \in {s, t}}

OldModels ==
  {<<Model(1, x, m, {1}), Model(2, alias, model, list)>> \o rest :
     alias \in {x, y}, model \in {m, n}, list \in {{}, {2, 3}},
     rest \in {<<>>, <<Model(1, z, m, {})>>, <<Model(0, z, NoModel, {})>>}}

\* Aliases are distinct where the old table says so.
Fits(d) ==
  d.unique = "global" =>
    \A q, r \in DOMAIN d.rapis : d.rapis[q].alias = d.rapis[r].alias => q = r

\* Two platforms, of one URL or not, the first with a token of its own; keys of
\* every age; models that meet when the platforms do; one that has lost its own.
MCOldDatabases ==
  {d \in
    {[platforms |-> [p \in {1, 2} |->
                       [url |-> urls[p], raw |-> p = 1 /\ urls[p] # NoURL,
                        token |-> IF p = 1 THEN s ELSE NoToken]],
      rapis |-> models, keys |-> keys, keyTable |-> keys # <<>>,
      creds |-> <<>>, credTable |-> shape = "residue", seq |-> 0,
      bound |-> {}, chain |-> chain,
      traffic |-> [r \in DOMAIN models |-> r],
      blocks |-> {<<k, r>> \in (DOMAIN keys) \X (DOMAIN models) : k + r # 3},
      unique |-> IF shape = "global" THEN "global" ELSE "platform"] :
        urls \in {<<u, u>>, <<u, v>>, <<NoURL, NoURL>>},
        models \in OldModels, keys \in OldKeys, chain \in {{2}, {1, 2}},
        shape \in {"platform", "residue", "global"}} : Fits(d)}
=============================================================================
