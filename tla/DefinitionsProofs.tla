-------------------------- MODULE DefinitionsProofs --------------------------
(***************************************************************************)
(* What holds of the definitions, for any platforms, credentials, models   *)
(* and operators: first of the local store, where a method is a            *)
(* transaction, then of either store.                                      *)
(*                                                                         *)
(* PoolsDerived, of the definitions, is not inductive: a model might be    *)
(* given an id that was in use before, and get its bindings.  Sound adds   *)
(* that what is referred to exists and that ids in use are never given out *)
(* again.  A transaction that saves a model is not sound after its first   *)
(* statement; the second puts right what the model is bound to, whatever   *)
(* it was (SoundBut).  That nobody else gets keys that were there follows  *)
(* from each statement alone (Modest); that it is the model of the         *)
(* operator's own form, from what is left of the handler being             *)
(* transactions of what the operator has asked for (PlanOf).               *)
(*                                                                         *)
(* SavedAsAsked speaks of a handler that is done.  What holds of one on    *)
(* its way is that the rest of it, carried out on the tables as they are,  *)
(* leads to what was asked (Leads): a step of its own shortens the rest, a *)
(* reading replaces its head by what it goes on with, and whatever changes *)
(* the tables in between takes `alone' away.  That a handler leads there   *)
(* from the first is shown of each request, from any tables operators can  *)
(* define (Whole): a chain among them has each model once, at a place of   *)
(* its own.                                                                *)
(***************************************************************************)
EXTENDS Definitions, SequenceTheorems, FiniteSetTheorems, NaturalFacts

----------------------------------------------------------------------------
(* The definitions: the tables of the local store.                          *)

\* The tables of the local store; a chain's places are not bounded here.
TableRows ==
  [platforms : SUBSET Platforms,
   home : [Creds -> Platforms \cup {Nil}],
   at : [Models -> Platforms \cup {Nil}],
   bound : SUBSET (Models \X Creds),
   column : [Models -> SUBSET Creds],
   route : BOOLEAN,
   order : SUBSET (Int \X Models),
   enabled : SUBSET (Platforms \cup Models \cup {Route}),
   used : SUBSET (Platforms \cup Creds \cup Models)]

\* What is referred to exists, ids that are in use were given out, and all but
\* the models of X are bound to keys of their platform, as their column says.
SoundBut(t, X) ==
  /\ t \in TableRows
  /\ \A k \in Creds : t.home[k] # Nil => k \in t.used
  /\ \A m \in Models : t.at[m] # Nil => m \in t.used
  /\ \A m \in Models \ X, k \in Creds :
       <<m, k>> \in t.bound => t.at[m] # Nil /\ t.home[k] = t.at[m]
  /\ \A m \in Models \ X : t.column[m] = Bound(t, m)

Sound(t) == SoundBut(t, {})

\* Statements that are executed by themselves; those of a chain; and what is a
\* request to read on.
Statements ==
  [op : {"insert platform", "add key"}, p : Platforms]
  \cup [op : {"set keys"}, p : Platforms, keys : SUBSET Creds, n : Nat]
  \cup [op : {"delete key", "detach"}, k : Creds]
  \cup [op : {"delete rapi"}, m : Models, kept : BOOLEAN]
  \cup [op : {"delete platform"}, p : Platforms, kept : BOOLEAN]
  \cup [op : {"enable"}, x : Platforms \cup Models \cup {Route}, on : BOOLEAN]
  \cup [op : {"insert route", "delete route"}]

OfChain(s) == s.op = "clear chain" \/ (s.op = "link" /\ s.i \in Int)

Readings == [op : {"map"}, m : Models] \cup [op : {"toggle models"}, p : Platforms, on : BOOLEAN]

\* The transactions a handler of the request r consists of.
OfHandler(r, b) ==
  \/ \E s \in Statements \cup Readings : b = <<s>>
  \/ \E m \in Models, p \in Platforms, keys \in SUBSET Creds :
       b = <<[op |-> "insert rapi", m |-> m, p |-> p],
             [op |-> "sync bindings", m |-> m, p |-> p, keys |-> keys]>>
  \/ \E m \in Models, p \in Platforms, keys \in SUBSET Creds, on \in BOOLEAN :
       /\ r.op = "save rapi" /\ r.m = m /\ r.keys = keys
       /\ b = <<[op |-> "update rapi", m |-> m, p |-> p, on |-> on],
                [op |-> "sync bindings", m |-> m, p |-> p, keys |-> keys]>>
  \/ b # <<>> /\ \E S : b \in Seq(S) /\ \A s \in S : OfChain(s)

\* What is left of such a handler.
PlanOf(r, rest) == \E S : rest \in Seq(S) /\ \A b \in S : OfHandler(r, b)

\* What the request r names as the keys of m.
Named(r, m) ==
  IF r.op = "save rapi" /\ r.m = m THEN (IF r.keys = {} THEN Creds ELSE r.keys) ELSE {}

\* No model is bound to more than before, but for new keys and those of N.
Modest(t, u, m, N) ==
  m \in Rows(t) \cap Rows(u) => Bound(u, m) \subseteq Bound(t, m) \cup (u.used \ t.used) \cup N

----------------------------------------------------------------------------
(* Sets.                                                                    *)

\* A finite set has an enumeration, and all it lists are members.
LEMMA SequenceOfSet ==
  ASSUME NEW S, IsFiniteSet(S)
  PROVE  /\ Cardinality(S) \in Nat
         /\ SetToSeq(S) \in [1..Cardinality(S) -> S]
<1>1. Cardinality(S) \in Nat /\ ExistsBijection(1..Cardinality(S), S)
  BY FS_CardinalityType
<1>2. \E f \in [1..Cardinality(S) -> S] : IsInjective(f)
  BY <1>1 DEF ExistsBijection, Bijection, Injection, IsInjective
<1> QED
  BY <1>1, <1>2 DEF SetToSeq

\* New ids are ids that were never given out.
LEMMA NewIdsAreNew ==
  ASSUME NEW t \in TableRows, NEW n \in Nat, NEW c \in Nat, c <= n, ~Exhausted(t, n)
  PROVE  NewIds(t, c) \subseteq Creds \ t.used
<1> DEFINE free == Creds \ t.used
<1>1. IsFiniteSet(free)
  BY DefinitionsAssumption, FS_Subset
<1>2. Cardinality(free) \in Nat /\ SetToSeq(free) \in [1..Cardinality(free) -> free]
  BY <1>1, SequenceOfSet
<1>3. ~(Cardinality(free) < n)
  BY DEF Exhausted
<1> HIDE DEF free
<1>4. \A i \in 1..c : SetToSeq(free)[i] \in free
  <2> TAKE i \in 1..c
  <2>1. i \in 1..Cardinality(free)
    BY <1>2, <1>3
  <2> QED
    BY <1>2, <2>1
<1> QED
  BY <1>4 DEF NewIds, free

----------------------------------------------------------------------------
(* Rows.                                                                    *)

\* The fields of the rows are of their types.
LEMMA RowsTyped ==
  ASSUME NEW t \in TableRows
  PROVE  /\ t.home \in [Creds -> Platforms \cup {Nil}]
         /\ t.at \in [Models -> Platforms \cup {Nil}]
         /\ t.bound \subseteq Models \X Creds
         /\ t.column \in [Models -> SUBSET Creds]
         /\ t.platforms \subseteq Platforms /\ t.order \subseteq Int \X Models
         /\ t.used \subseteq Platforms \cup Creds \cup Models
BY DEF TableRows

\* What Refreshed leaves and what it derives.
LEMMA RefreshedIs ==
  ASSUME NEW t \in TableRows, NEW X
  PROVE  /\ Refreshed(t, X) \in TableRows
         /\ Refreshed(t, X).home = t.home /\ Refreshed(t, X).at = t.at
         /\ Refreshed(t, X).bound = t.bound /\ Refreshed(t, X).used = t.used
         /\ \A m \in Models :
              Refreshed(t, X).column[m] = IF m \in X THEN Bound(t, m) ELSE t.column[m]
<1> DEFINE c == [m \in Models |-> IF m \in X THEN Bound(t, m) ELSE t.column[m]]
<1>1. c \in [Models -> SUBSET Creds]
  BY DEF TableRows, Bound
<1>2. Refreshed(t, X) = [t EXCEPT !.column = c]
  BY DEF Refreshed
<1>3. \A m \in Models : c[m] = IF m \in X THEN Bound(t, m) ELSE t.column[m]
  OBVIOUS
<1> HIDE DEF c
<1> QED
  BY <1>1, <1>2, <1>3 DEF TableRows

\* What a model is bound to depends on the bindings alone.
LEMMA BoundIs ==
  ASSUME NEW t, NEW m, NEW k
  PROVE  k \in Bound(t, m) <=> k \in Creds /\ <<m, k>> \in t.bound
BY DEF Bound

\* The rows of some keys go.
LEMMA WithoutKeysIs ==
  ASSUME NEW t \in TableRows, NEW X
  PROVE  /\ WithoutKeys(t, X) \in TableRows
         /\ WithoutKeys(t, X).at = t.at /\ WithoutKeys(t, X).used = t.used
         /\ WithoutKeys(t, X).column = t.column
         /\ \A k \in Creds : WithoutKeys(t, X).home[k] = IF k \in X THEN Nil ELSE t.home[k]
         /\ \A m \in Models, k \in Creds :
              <<m, k>> \in WithoutKeys(t, X).bound <=> <<m, k>> \in t.bound /\ k \notin X
<1> DEFINE h == [k \in Creds |-> IF k \in X THEN Nil ELSE t.home[k]]
           b == {x \in t.bound : x[2] \notin X}
<1>1. h \in [Creds -> Platforms \cup {Nil}] /\ b \subseteq Models \X Creds
  BY DEF TableRows
<1>2. WithoutKeys(t, X) = [t EXCEPT !.home = h, !.bound = b]
  BY DEF WithoutKeys
<1>3. \A k \in Creds : h[k] = IF k \in X THEN Nil ELSE t.home[k]
  OBVIOUS
<1>4. \A m \in Models, k \in Creds : <<m, k>> \in b <=> <<m, k>> \in t.bound /\ k \notin X
  OBVIOUS
<1> HIDE DEF h, b
<1> QED
  BY <1>1, <1>2, <1>3, <1>4 DEF TableRows

\* The rows of some models go.
LEMMA WithoutModelsIs ==
  ASSUME NEW t \in TableRows, NEW X
  PROVE  /\ WithoutModels(t, X) \in TableRows
         /\ WithoutModels(t, X).home = t.home /\ WithoutModels(t, X).used = t.used
         /\ \A m \in Models : WithoutModels(t, X).at[m] = IF m \in X THEN Nil ELSE t.at[m]
         /\ \A m \in Models : WithoutModels(t, X).column[m] = IF m \in X THEN {} ELSE t.column[m]
         /\ \A m \in Models, k \in Creds :
              <<m, k>> \in WithoutModels(t, X).bound <=> <<m, k>> \in t.bound /\ m \notin X
<1> DEFINE a == [m \in Models |-> IF m \in X THEN Nil ELSE t.at[m]]
           b == {x \in t.bound : x[1] \notin X}
           c == [m \in Models |-> IF m \in X THEN {} ELSE t.column[m]]
           o == {pair \in t.order : pair[2] \notin X}
           e == t.enabled \ X
<1>1. /\ a \in [Models -> Platforms \cup {Nil}] /\ b \subseteq Models \X Creds
      /\ c \in [Models -> SUBSET Creds] /\ o \subseteq Int \X Models
      /\ e \subseteq Platforms \cup Models \cup {Route}
  BY DEF TableRows
<1>2. WithoutModels(t, X) =
        [t EXCEPT !.at = a, !.bound = b, !.column = c, !.order = o, !.enabled = e]
  BY DEF WithoutModels
<1>3. \A m \in Models : a[m] = IF m \in X THEN Nil ELSE t.at[m]
  OBVIOUS
<1>4. \A m \in Models : c[m] = IF m \in X THEN {} ELSE t.column[m]
  OBVIOUS
<1>5. \A m \in Models, k \in Creds : <<m, k>> \in b <=> <<m, k>> \in t.bound /\ m \notin X
  OBVIOUS
<1> HIDE DEF a, b, c, o, e
<1>6. WithoutModels(t, X) =
        [platforms |-> t.platforms, home |-> t.home, at |-> a, bound |-> b, column |-> c,
         route |-> t.route, order |-> o, enabled |-> e, used |-> t.used]
  BY <1>2 DEF TableRows
<1>7. WithoutModels(t, X) \in TableRows
  BY <1>1, <1>6 DEF TableRows
<1> QED
  BY <1>3, <1>4, <1>5, <1>6, <1>7

----------------------------------------------------------------------------
(* Statements.                                                              *)

\* Rows that are kept, but for what no binding depends on.
LEMMA SameRows ==
  ASSUME NEW t, NEW X, SoundBut(t, X), NEW u \in TableRows,
         u.home = t.home, u.at = t.at, u.bound = t.bound, u.column = t.column,
         t.used \subseteq u.used
  PROVE  SoundBut(u, X) /\ \A m \in Models : \A N : Modest(t, u, m, N)
BY DEF SoundBut, Modest, Bound

\* Setting the keys of a platform: the new ones are bound to its models, which
\* lose those that go; no other model had any of either.
LEMMA WithKeysIs ==
  ASSUME NEW t, Sound(t), NEW p \in Platforms, NEW kept \in SUBSET Creds, NEW new \in Nat,
         NewIds(t, Cardinality(kept \ KeysAt(t, p)) + new) \subseteq Creds \ t.used
  PROVE  /\ Sound(WithKeys(t, p, kept, new))
         /\ \A m \in Models : \A N : Modest(t, WithKeys(t, p, kept, new), m, N)
<1> DEFINE exist == KeysAt(t, p)
           made == NewIds(t, Cardinality(kept \ KeysAt(t, p)) + new)
           h == [k \in Creds |-> IF k \in made THEN p ELSE t.home[k]]
           f == t.used \cup made
           b == t.bound \cup (ModelsAt(t, p) \X made)
           w == [t EXCEPT !.home = h, !.used = f, !.bound = b]
           v == WithoutKeys(w, exist \ kept)
           u == Refreshed(v, ModelsAt(t, p))
<1>1. WithKeys(t, p, kept, new) = u
  BY DEF WithKeys, TableRows, Sound, SoundBut
<1>2. t \in TableRows /\ made \subseteq Creds /\ made \cap t.used = {}
  BY DEF Sound, SoundBut
<1>3. \A k \in Creds : k \in exist <=> t.home[k] = p
  BY DEF KeysAt
<1>4. \A m \in Models : m \in ModelsAt(t, p) <=> t.at[m] = p
  BY DEF ModelsAt
<1>5. p # Nil
  BY DefinitionsAssumption
<1> HIDE DEF exist, made
<1>6. /\ \A k \in Creds : h[k] = IF k \in made THEN p ELSE t.home[k]
      /\ \A m \in Models, k \in Creds :
           <<m, k>> \in b <=> <<m, k>> \in t.bound \/ (t.at[m] = p /\ k \in made)
  BY <1>4
<1>7. /\ h \in [Creds -> Platforms \cup {Nil}] /\ b \subseteq Models \X Creds
      /\ f \subseteq Platforms \cup Creds \cup Models
  BY <1>2 DEF TableRows, ModelsAt
<1>8. t.used \subseteq f /\ made \subseteq f /\ made = f \ t.used
  BY <1>2
<1> HIDE DEF h, f, b
<1>9. /\ w \in TableRows
      /\ w.home = h /\ w.used = f /\ w.bound = b /\ w.at = t.at /\ w.column = t.column
  BY <1>2, <1>7 DEF TableRows
<1> HIDE DEF w
<1>10. /\ v \in TableRows /\ v.at = t.at /\ v.used = f /\ v.column = t.column
       /\ \A k \in Creds : v.home[k] = IF k \in exist \ kept THEN Nil ELSE h[k]
       /\ \A m \in Models, k \in Creds :
            <<m, k>> \in v.bound <=> <<m, k>> \in b /\ k \notin exist \ kept
  BY <1>9, WithoutKeysIs
<1> HIDE DEF v
<1>11. /\ u \in TableRows /\ u.home = v.home /\ u.at = t.at /\ u.bound = v.bound /\ u.used = f
       /\ \A m \in Models : u.column[m] = IF t.at[m] = p THEN Bound(v, m) ELSE t.column[m]
  BY <1>4, <1>10, RefreshedIs
<1> HIDE DEF u
<1>12. \A k \in Creds : u.home[k] # Nil => k \in u.used
  BY <1>2, <1>6, <1>8, <1>10, <1>11 DEF Sound, SoundBut
<1>13. \A m \in Models : u.at[m] # Nil => m \in u.used
  BY <1>8, <1>11 DEF Sound, SoundBut
<1>14. \A m \in Models, k \in Creds : <<m, k>> \in u.bound <=>
         \/ <<m, k>> \in t.bound /\ k \notin exist \ kept
         \/ t.at[m] = p /\ k \in made /\ k \notin exist \ kept
  BY <1>6, <1>10, <1>11
<1>15. \A k \in Creds : k \in made => t.home[k] = Nil
  BY <1>2 DEF Sound, SoundBut
<1>16. ASSUME NEW m \in Models, NEW k \in Creds, <<m, k>> \in u.bound
       PROVE  u.at[m] # Nil /\ u.home[k] = u.at[m]
  BY <1>5, <1>6, <1>10, <1>11, <1>14, <1>15, <1>16 DEF Sound, SoundBut
<1>17. ASSUME NEW m \in Models PROVE u.column[m] = Bound(u, m)
  <2>1. CASE t.at[m] = p
    BY <1>11, <2>1 DEF Bound
  <2>2. CASE t.at[m] # p
    <3>1. \A k \in Creds : <<m, k>> \in t.bound => k \notin exist
      BY <1>3, <2>2 DEF Sound, SoundBut
    <3>2. \A k \in Creds : <<m, k>> \in u.bound <=> <<m, k>> \in t.bound
      BY <1>14, <2>2, <3>1
    <3>3. t.column[m] = Bound(t, m)
      BY DEF Sound, SoundBut
    <3> QED
      BY <1>11, <2>2, <3>2, <3>3 DEF Bound
  <2> QED
    BY <2>1, <2>2
<1>18. \A m \in Models : \A N : Modest(t, u, m, N)
  BY <1>8, <1>11, <1>14 DEF Modest, Bound
<1> QED
  BY <1>1, <1>11, <1>12, <1>13, <1>16, <1>17, <1>18 DEF Sound, SoundBut

\* ReplaceKeys and AddKey, unless they fail.
LEMMA ReplaceKeysIs ==
  ASSUME NEW t, Sound(t), NEW p \in Platforms, NEW kept \in SUBSET Creds, NEW new \in Nat,
         ReplaceKeys(t, p, kept, new) # Violated
  PROVE  /\ Sound(ReplaceKeys(t, p, kept, new))
         /\ \A m \in Models : \A N : Modest(t, ReplaceKeys(t, p, kept, new), m, N)
<1> DEFINE c == Cardinality(kept \ KeysAt(t, p)) + new
           n == Cardinality(kept) + new
<1>1. IsFiniteSet(kept) /\ kept \ KeysAt(t, p) \in SUBSET kept
  BY DefinitionsAssumption, FS_Subset
<1>2. /\ Cardinality(kept) \in Nat /\ Cardinality(kept \ KeysAt(t, p)) \in Nat
      /\ Cardinality(kept \ KeysAt(t, p)) <= Cardinality(kept)
  BY <1>1, FS_Subset, FS_CardinalityType
<1>3. c \in Nat /\ n \in Nat /\ c <= n
  BY <1>2
<1>4. ~Exhausted(t, n) /\ ReplaceKeys(t, p, kept, new) = WithKeys(t, p, kept, new)
  BY DEF ReplaceKeys, Unless
<1>5. t \in TableRows
  BY DEF Sound, SoundBut
<1> HIDE DEF c, n
<1>6. NewIds(t, c) \subseteq Creds \ t.used
  BY <1>3, <1>4, <1>5, NewIdsAreNew
<1> QED
  BY <1>4, <1>6, WithKeysIs DEF c

\* A key that is added is kept beside all others.
LEMMA AddKeyIs ==
  ASSUME NEW t, Sound(t), NEW p \in Platforms, AddKey(t, p) # Violated
  PROVE  Sound(AddKey(t, p)) /\ \A m \in Models : \A N : Modest(t, AddKey(t, p), m, N)
<1>1. ~Exhausted(t, 1) /\ AddKey(t, p) = WithKeys(t, p, KeysAt(t, p), 1)
  BY DEF AddKey, Unless
<1>2. KeysAt(t, p) \in SUBSET Creds /\ KeysAt(t, p) \ KeysAt(t, p) = {} /\ t \in TableRows
  BY DEF KeysAt, Sound, SoundBut
<1>3. Cardinality(KeysAt(t, p) \ KeysAt(t, p)) + 1 = 1
  BY <1>2, FS_EmptySet
<1>4. NewIds(t, 1) \subseteq Creds \ t.used
  BY <1>1, <1>2, NewIdsAreNew
<1>5. NewIds(t, Cardinality(KeysAt(t, p) \ KeysAt(t, p)) + 1) \subseteq Creds \ t.used
  BY <1>3, <1>4
<1> QED
  BY <1>1, <1>2, <1>5, WithKeysIs

\* A key goes: the columns of its platform's models are derived again, and no
\* others have had it.
LEMMA DeleteKeyRowIs ==
  ASSUME NEW t, Sound(t), NEW k \in Creds, backend = "local", DeleteKeyRow(t, k) # Violated
  PROVE  Sound(DeleteKeyRow(t, k)) /\ \A m \in Models : \A N : Modest(t, DeleteKeyRow(t, k), m, N)
<1> DEFINE X == ModelsAt(t, t.home[k])
           w == WithoutKeys(t, {k})
           u == Refreshed(w, X)
<1>1. t.home[k] # Nil /\ DeleteKeyRow(t, k) = u
  BY DEF DeleteKeyRow, Unless
<1>2. t \in TableRows
  BY DEF Sound, SoundBut
<1>3. \A m \in Models : m \in X <=> t.at[m] = t.home[k]
  BY DEF ModelsAt
<1> HIDE DEF X
<1>4. /\ w \in TableRows /\ w.at = t.at /\ w.used = t.used /\ w.column = t.column
      /\ \A j \in Creds : w.home[j] = IF j = k THEN Nil ELSE t.home[j]
      /\ \A m \in Models, j \in Creds : <<m, j>> \in w.bound <=> <<m, j>> \in t.bound /\ j # k
  BY <1>2, WithoutKeysIs
<1> HIDE DEF w
<1>5. /\ u \in TableRows /\ u.home = w.home /\ u.at = t.at /\ u.bound = w.bound /\ u.used = t.used
      /\ \A m \in Models : u.column[m] = IF m \in X THEN Bound(w, m) ELSE t.column[m]
  BY <1>4, RefreshedIs
<1> HIDE DEF u
<1>6. ASSUME NEW m \in Models PROVE u.column[m] = Bound(u, m)
  <2>1. CASE m \in X
    BY <1>5, <2>1 DEF Bound
  <2>2. CASE m \notin X
    <3>1. <<m, k>> \notin t.bound
      BY <1>3, <2>2 DEF Sound, SoundBut
    <3>2. t.column[m] = Bound(t, m)
      BY DEF Sound, SoundBut
    <3> QED
      BY <1>4, <1>5, <2>2, <3>1, <3>2 DEF Bound
  <2> QED
    BY <2>1, <2>2
<1>7. \A m \in Models, j \in Creds :
        <<m, j>> \in u.bound => u.at[m] # Nil /\ u.home[j] = u.at[m]
  BY <1>4, <1>5 DEF Sound, SoundBut
<1>8. \A m \in Models : \A N : Modest(t, u, m, N)
  BY <1>4, <1>5 DEF Modest, Bound
<1> QED
  BY <1>1, <1>4, <1>5, <1>6, <1>7, <1>8 DEF Sound, SoundBut

\* A key is bound to no model any more.
LEMMA DetachIs ==
  ASSUME NEW t, Sound(t), NEW k \in Creds, backend = "local"
  PROVE  Sound(Detach(t, k)) /\ \A m \in Models : \A N : Modest(t, Detach(t, k), m, N)
<1> DEFINE b == {x \in t.bound : x[2] # k}
           X == {m \in Models : <<m, k>> \in t.bound}
           w == [t EXCEPT !.bound = b]
           u == Refreshed(w, X)
<1>1. t \in TableRows
  BY DEF Sound, SoundBut
<1>2. Detach(t, k) = u
  BY <1>1 DEF Detach, TableRows
<1>3. \A m \in Models : m \in X <=> <<m, k>> \in t.bound
  OBVIOUS
<1>4. /\ b \subseteq Models \X Creds
      /\ \A m \in Models, j \in Creds : <<m, j>> \in b <=> <<m, j>> \in t.bound /\ j # k
  BY <1>1 DEF TableRows
<1> HIDE DEF X, b
<1>5. /\ w \in TableRows
      /\ w.home = t.home /\ w.at = t.at /\ w.bound = b /\ w.column = t.column /\ w.used = t.used
  BY <1>1, <1>4 DEF TableRows
<1> HIDE DEF w
<1>6. /\ u \in TableRows /\ u.home = t.home /\ u.at = t.at /\ u.bound = b /\ u.used = t.used
      /\ \A m \in Models : u.column[m] = IF m \in X THEN Bound(w, m) ELSE t.column[m]
  BY <1>5, RefreshedIs
<1> HIDE DEF u
<1>7. ASSUME NEW m \in Models PROVE u.column[m] = Bound(u, m)
  <2>1. t.column[m] = Bound(t, m)
    BY DEF Sound, SoundBut
  <2> QED
    BY <1>3, <1>4, <1>5, <1>6, <2>1 DEF Bound
<1>8. \A m \in Models : \A N : Modest(t, u, m, N)
  BY <1>4, <1>6 DEF Modest, Bound
<1> QED
  BY <1>2, <1>4, <1>6, <1>7, <1>8 DEF Sound, SoundBut

\* Models go with their bindings.
LEMMA ModelsGo ==
  ASSUME NEW t, Sound(t), NEW X
  PROVE  /\ Sound(WithoutModels(t, X))
         /\ \A m \in Models : \A N : Modest(t, WithoutModels(t, X), m, N)
<1> DEFINE u == WithoutModels(t, X)
<1>1. /\ u \in TableRows /\ u.home = t.home /\ u.used = t.used
      /\ \A m \in Models : u.at[m] = IF m \in X THEN Nil ELSE t.at[m]
      /\ \A m \in Models : u.column[m] = IF m \in X THEN {} ELSE t.column[m]
      /\ \A m \in Models, k \in Creds : <<m, k>> \in u.bound <=> <<m, k>> \in t.bound /\ m \notin X
  BY WithoutModelsIs DEF Sound, SoundBut
<1> HIDE DEF u
<1>2. ASSUME NEW m \in Models PROVE u.column[m] = Bound(u, m)
  <2>1. t.column[m] = Bound(t, m)
    BY DEF Sound, SoundBut
  <2> QED
    BY <1>1, <2>1 DEF Bound
<1>3. \A m \in Models : \A N : Modest(t, u, m, N)
  BY <1>1 DEF Modest, Bound
<1>4. Sound(u)
  BY <1>1, <1>2 DEF Sound, SoundBut
<1> QED
  BY <1>3, <1>4 DEF u

\* A model goes, unless a chain has it.
LEMMA DeleteRAPIRowIs ==
  ASSUME NEW t, Sound(t), NEW m \in Models, NEW kept, DeleteRAPIRow(t, m, kept) # Violated
  PROVE  /\ Sound(DeleteRAPIRow(t, m, kept))
         /\ \A n \in Models : \A N : Modest(t, DeleteRAPIRow(t, m, kept), n, N)
BY ModelsGo DEF DeleteRAPIRow, Unless

\* A platform takes its models and its keys along; no other model has any of
\* these keys.
LEMMA DeletePlatformRowIs ==
  ASSUME NEW t, Sound(t), NEW p \in Platforms, NEW kept, DeletePlatformRow(t, p, kept) # Violated
  PROVE  /\ Sound(DeletePlatformRow(t, p, kept))
         /\ \A m \in Models : \A N : Modest(t, DeletePlatformRow(t, p, kept), m, N)
<1> DEFINE X == ModelsAt(t, p)
           K == KeysAt(t, p)
           w == WithoutModels(t, X)
           v == WithoutKeys(w, K)
           f == v.platforms \ {p}
           e == v.enabled \ {p}
           u == [v EXCEPT !.platforms = f, !.enabled = e]
<1>1. \A m \in Models : m \in X <=> t.at[m] = p
  BY DEF ModelsAt
<1>2. \A k \in Creds : k \in K <=> t.home[k] = p
  BY DEF KeysAt
<1> HIDE DEF X, K
<1>3. Sound(w) /\ \A m \in Models : \A N : Modest(t, w, m, N)
  BY ModelsGo
<1>4. /\ t \in TableRows /\ w \in TableRows /\ w.home = t.home /\ w.used = t.used
      /\ \A m \in Models : w.at[m] = IF m \in X THEN Nil ELSE t.at[m]
  BY <1>3, WithoutModelsIs DEF Sound, SoundBut
<1> HIDE DEF w
<1>5. /\ v \in TableRows /\ v.at = w.at /\ v.used = w.used /\ v.column = w.column
      /\ \A k \in Creds : v.home[k] = IF k \in K THEN Nil ELSE w.home[k]
      /\ \A m \in Models, k \in Creds : <<m, k>> \in v.bound <=> <<m, k>> \in w.bound /\ k \notin K
  BY <1>4, WithoutKeysIs
<1>6. DeletePlatformRow(t, p, kept) = u
  BY <1>5 DEF DeletePlatformRow, Unless, TableRows, X, K, w
<1> HIDE DEF v
<1>7. f \subseteq Platforms /\ e \subseteq Platforms \cup Models \cup {Route}
  BY <1>5 DEF TableRows
<1> HIDE DEF f, e
<1>8. /\ u \in TableRows
      /\ u.home = v.home /\ u.at = v.at /\ u.bound = v.bound /\ u.column = v.column /\ u.used = v.used
  BY <1>5, <1>7 DEF TableRows
<1> HIDE DEF u
<1>9. \A m \in Models, k \in Creds : <<m, k>> \in w.bound => k \notin K
  BY <1>1, <1>2, <1>3, <1>4 DEF Sound, SoundBut
<1>10. \A m \in Models, k \in Creds : <<m, k>> \in u.bound <=> <<m, k>> \in w.bound
  BY <1>5, <1>8, <1>9
<1>11. ASSUME NEW m \in Models PROVE u.column[m] = Bound(u, m)
  <2>1. w.column[m] = Bound(w, m)
    BY <1>3 DEF Sound, SoundBut
  <2> QED
    BY <1>5, <1>8, <1>10, <2>1 DEF Bound
<1>12. Sound(u)
  BY <1>3, <1>4, <1>5, <1>8, <1>9, <1>10, <1>11 DEF Sound, SoundBut
<1>13. \A m \in Models : \A N : Modest(t, u, m, N)
  BY <1>3, <1>5, <1>8, <1>10 DEF Modest, Bound, Rows
<1> QED
  BY <1>6, <1>12, <1>13

\* The row of a new model: nothing is bound to it, since nothing was.
LEMMA InsertRAPIIs ==
  ASSUME NEW t, Sound(t), NEW m \in Models, NEW p \in Platforms, InsertRAPI(t, m, p) # Violated
  PROVE  /\ Sound(InsertRAPI(t, m, p))
         /\ t.at[m] = Nil /\ InsertRAPI(t, m, p).at[m] = p
         /\ \A n \in Models : n # m => InsertRAPI(t, m, p).at[n] = t.at[n]
         /\ InsertRAPI(t, m, p).bound = t.bound /\ t.used \subseteq InsertRAPI(t, m, p).used
<1> DEFINE a == [t.at EXCEPT ![m] = p]
           f == t.used \cup {m}
           e == t.enabled \cup {m}
           u == [t EXCEPT !.at = a, !.used = f, !.enabled = e]
<1>1. t \in TableRows /\ m \notin t.used /\ t.at[m] = Nil
  BY DEF InsertRAPI, Unless, Sound, SoundBut
<1>2. InsertRAPI(t, m, p) = u
  BY <1>1 DEF InsertRAPI, Unless, TableRows
<1>3. /\ a \in [Models -> Platforms \cup {Nil}]
      /\ f \subseteq Platforms \cup Creds \cup Models /\ e \subseteq Platforms \cup Models \cup {Route}
  BY <1>1 DEF TableRows
<1>4. /\ a[m] = p /\ \A n \in Models : n # m => a[n] = t.at[n]
      /\ t.used \subseteq f /\ m \in f
  BY <1>1 DEF TableRows
<1> HIDE DEF a, f, e
<1>5. /\ u \in TableRows
      /\ u.home = t.home /\ u.at = a /\ u.bound = t.bound /\ u.column = t.column /\ u.used = f
  BY <1>1, <1>3 DEF TableRows
<1> HIDE DEF u
<1>6. \A k \in Creds : <<m, k>> \notin t.bound
  BY <1>1 DEF Sound, SoundBut
<1>7. ASSUME NEW n \in Models PROVE u.column[n] = Bound(u, n)
  <2>1. t.column[n] = Bound(t, n)
    BY DEF Sound, SoundBut
  <2> QED
    BY <1>5, <2>1 DEF Bound
<1>8. \A n \in Models, k \in Creds :
        <<n, k>> \in u.bound => u.at[n] # Nil /\ u.home[k] = u.at[n]
  BY <1>4, <1>5, <1>6 DEF Sound, SoundBut
<1>9. Sound(u)
  BY <1>4, <1>5, <1>7, <1>8 DEF Sound, SoundBut
<1> QED
  BY <1>1, <1>2, <1>4, <1>5, <1>9

\* The row of a model that is saved: it has the platform of the form, or there
\* is no such row; what it is bound to is not yet put right.
LEMMA PatchRAPIIs ==
  ASSUME NEW t, Sound(t), NEW m \in Models, NEW p \in Platforms, NEW on \in BOOLEAN,
         PatchRAPI(t, m, p, on) # Violated
  PROVE  /\ SoundBut(PatchRAPI(t, m, p, on), {m})
         /\ PatchRAPI(t, m, p, on).at[m] \in {p, Nil}
         /\ \A n \in Models : n # m => PatchRAPI(t, m, p, on).at[n] = t.at[n]
         /\ PatchRAPI(t, m, p, on).bound = t.bound /\ PatchRAPI(t, m, p, on).used = t.used
<1>1. t \in TableRows
  BY DEF Sound, SoundBut
<1>2. CASE t.at[m] = Nil
  <2>1. PatchRAPI(t, m, p, on) = t
    BY <1>2 DEF PatchRAPI, Unless
  <2> QED
    BY <1>2, <2>1 DEF Sound, SoundBut
<1>3. CASE t.at[m] # Nil
  <2> DEFINE a == [t.at EXCEPT ![m] = p]
             e == IF on THEN t.enabled \cup {m} ELSE t.enabled \ {m}
             u == [t EXCEPT !.at = a, !.enabled = e]
  <2>1. PatchRAPI(t, m, p, on) = u
    BY <1>1, <1>3 DEF PatchRAPI, Unless, TableRows
  <2>2. a \in [Models -> Platforms \cup {Nil}] /\ e \subseteq Platforms \cup Models \cup {Route}
    BY <1>1 DEF TableRows
  <2>3. a[m] = p /\ \A n \in Models : n # m => a[n] = t.at[n]
    BY <1>1 DEF TableRows
  <2> HIDE DEF a, e
  <2>4. /\ u \in TableRows
        /\ u.home = t.home /\ u.at = a /\ u.bound = t.bound /\ u.column = t.column /\ u.used = t.used
    BY <1>1, <2>2 DEF TableRows
  <2> HIDE DEF u
  <2>5. ASSUME NEW n \in Models \ {m} PROVE u.column[n] = Bound(u, n)
    <3>1. t.column[n] = Bound(t, n)
      BY DEF Sound, SoundBut
    <3> QED
      BY <2>4, <3>1 DEF Bound
  <2>6. SoundBut(u, {m})
    BY <1>3, <2>3, <2>4, <2>5 DEF Sound, SoundBut
  <2> QED
    BY <2>1, <2>3, <2>4, <2>6
<1> QED
  BY <1>2, <1>3

\* The bindings of a model are put right: keys of the platform it is at now, and
\* of those the ones the form names, unless it names none.
LEMMA WithBindingsIs ==
  ASSUME NEW t, NEW m \in Models, SoundBut(t, {m}), NEW p \in Platforms, t.at[m] \in {p, Nil},
         NEW keys \in SUBSET Creds, NEW v, v = WithBindings(t, m, p, keys), v # Violated
  PROVE  /\ Sound(v) /\ v.at = t.at /\ v.used = t.used
         /\ keys # {} => Bound(v, m) \subseteq keys
         /\ \A n \in Models : n # m => Bound(v, n) = Bound(t, n)
<1> DEFINE want == IF keys = {} THEN KeysAt(t, p) ELSE keys \cap KeysAt(t, p)
           b == {x \in t.bound : x[1] # m} \cup ({m} \X want)
           w == [t EXCEPT !.bound = b]
           u == Refreshed(w, {m})
<1>1. t \in TableRows
  BY DEF SoundBut
<1>2. /\ want \subseteq Creds /\ (keys # {} => want \subseteq keys)
      /\ \A k \in want : t.home[k] = p
  BY DEF KeysAt
<1>3. (want # {} => t.at[m] # Nil) /\ v = u
  BY DEF WithBindings
<1> HIDE DEF want
<1>4. /\ b \subseteq Models \X Creds
      /\ \A n \in Models, k \in Creds :
           <<n, k>> \in b <=> IF n = m THEN k \in want ELSE <<n, k>> \in t.bound
  BY <1>1, <1>2 DEF TableRows
<1> HIDE DEF b
<1>5. /\ w \in TableRows
      /\ w.home = t.home /\ w.at = t.at /\ w.bound = b /\ w.column = t.column /\ w.used = t.used
  BY <1>1, <1>4 DEF TableRows
<1> HIDE DEF w
<1>6. /\ u \in TableRows /\ u.home = t.home /\ u.at = t.at /\ u.bound = b /\ u.used = t.used
      /\ \A n \in Models : u.column[n] = IF n = m THEN Bound(w, n) ELSE t.column[n]
  BY <1>5, RefreshedIs
<1> HIDE DEF u
<1>7. ASSUME NEW n \in Models PROVE u.column[n] = Bound(u, n)
  <2>1. n # m => t.column[n] = Bound(t, n)
    BY DEF SoundBut
  <2> QED
    BY <1>4, <1>5, <1>6, <2>1 DEF Bound
<1>8. ASSUME NEW n \in Models, NEW k \in Creds, <<n, k>> \in u.bound
      PROVE  u.at[n] # Nil /\ u.home[k] = u.at[n]
  <2>1. CASE n = m
    BY <1>2, <1>3, <1>4, <1>6, <1>8, <2>1
  <2>2. CASE n # m
    BY <1>4, <1>6, <1>8, <2>2 DEF SoundBut
  <2> QED
    BY <2>1, <2>2
<1>9. Sound(u)
  BY <1>6, <1>7, <1>8 DEF Sound, SoundBut
<1> QED
  BY <1>2, <1>3, <1>4, <1>6, <1>9 DEF Bound

\* Statements no binding depends on: of platforms, routes, chains, and what is
\* enabled.
LEMMA OtherStatements ==
  ASSUME NEW t, Sound(t)
  PROVE  /\ \A p \in Platforms : InsertPlatform(t, p) # Violated =>
              /\ Sound(InsertPlatform(t, p))
              /\ \A m \in Models : \A N : Modest(t, InsertPlatform(t, p), m, N)
         /\ \A x \in Platforms \cup Models \cup {Route}, on \in BOOLEAN :
              /\ Sound(SetEnabled(t, x, on))
              /\ \A m \in Models : \A N : Modest(t, SetEnabled(t, x, on), m, N)
         /\ Sound(CreateLAPI(t)) /\ \A m \in Models : \A N : Modest(t, CreateLAPI(t), m, N)
         /\ Sound(DeleteLAPI(t)) /\ \A m \in Models : \A N : Modest(t, DeleteLAPI(t), m, N)
<1>1. t \in TableRows /\ SoundBut(t, {})
  BY DEF Sound, SoundBut
<1>2. ASSUME NEW p \in Platforms, InsertPlatform(t, p) # Violated
      PROVE  /\ Sound(InsertPlatform(t, p))
             /\ \A m \in Models : \A N : Modest(t, InsertPlatform(t, p), m, N)
  <2> DEFINE q == t.platforms \cup {p}
             f == t.used \cup {p}
             e == t.enabled \cup {p}
             u == [t EXCEPT !.platforms = q, !.used = f, !.enabled = e]
  <2>1. InsertPlatform(t, p) = u
    BY <1>1, <1>2 DEF InsertPlatform, Unless, TableRows
  <2>2. /\ q \subseteq Platforms /\ f \subseteq Platforms \cup Creds \cup Models /\ t.used \subseteq f
        /\ e \subseteq Platforms \cup Models \cup {Route}
    BY <1>1 DEF TableRows
  <2> HIDE DEF q, f, e
  <2>3. /\ u \in TableRows
        /\ u.home = t.home /\ u.at = t.at /\ u.bound = t.bound /\ u.column = t.column /\ u.used = f
    BY <1>1, <2>2 DEF TableRows
  <2> HIDE DEF u
  <2> QED
    BY <1>1, <2>1, <2>2, <2>3, SameRows DEF Sound
<1>3. ASSUME NEW x \in Platforms \cup Models \cup {Route}, NEW on \in BOOLEAN
      PROVE  /\ Sound(SetEnabled(t, x, on))
             /\ \A m \in Models : \A N : Modest(t, SetEnabled(t, x, on), m, N)
  <2> DEFINE e == IF on THEN t.enabled \cup {x} ELSE t.enabled \ {x}
             u == [t EXCEPT !.enabled = e]
  <2>1. SetEnabled(t, x, on) = u
    BY <1>1 DEF SetEnabled, TableRows
  <2>2. e \subseteq Platforms \cup Models \cup {Route}
    BY <1>1 DEF TableRows
  <2> HIDE DEF e
  <2>3. /\ u \in TableRows
        /\ u.home = t.home /\ u.at = t.at /\ u.bound = t.bound /\ u.column = t.column /\ u.used = t.used
    BY <1>1, <2>2 DEF TableRows
  <2> HIDE DEF u
  <2> QED
    BY <1>1, <2>1, <2>3, SameRows DEF Sound
<1>4. Sound(CreateLAPI(t)) /\ \A m \in Models : \A N : Modest(t, CreateLAPI(t), m, N)
  <2> DEFINE e == t.enabled \cup {Route}
             u == [t EXCEPT !.route = TRUE, !.enabled = e]
  <2>1. CreateLAPI(t) = u
    BY <1>1 DEF CreateLAPI, TableRows
  <2>2. e \subseteq Platforms \cup Models \cup {Route}
    BY <1>1 DEF TableRows
  <2> HIDE DEF e
  <2>3. /\ u \in TableRows
        /\ u.home = t.home /\ u.at = t.at /\ u.bound = t.bound /\ u.column = t.column /\ u.used = t.used
    BY <1>1, <2>2 DEF TableRows
  <2> HIDE DEF u
  <2> QED
    BY <1>1, <2>1, <2>3, SameRows DEF Sound
<1>5. Sound(DeleteLAPI(t)) /\ \A m \in Models : \A N : Modest(t, DeleteLAPI(t), m, N)
  <2> DEFINE e == t.enabled \ {Route}
             u == [t EXCEPT !.route = FALSE, !.order = {}, !.enabled = e]
  <2>1. DeleteLAPI(t) = u
    BY <1>1 DEF DeleteLAPI, TableRows
  <2>2. e \subseteq Platforms \cup Models \cup {Route}
    BY <1>1 DEF TableRows
  <2> HIDE DEF e
  <2>3. /\ u \in TableRows
        /\ u.home = t.home /\ u.at = t.at /\ u.bound = t.bound /\ u.column = t.column /\ u.used = t.used
    BY <1>1, <2>2 DEF TableRows
  <2> HIDE DEF u
  <2> QED
    BY <1>1, <2>1, <2>3, SameRows DEF Sound
<1> QED
  BY <1>2, <1>3, <1>4, <1>5

\* A statement of a chain.
LEMMA ChainStatement ==
  ASSUME NEW t, Sound(t), NEW s, OfChain(s), Apply(t, s) # Violated
  PROVE  /\ Apply(t, s) \in TableRows
         /\ Apply(t, s).home = t.home /\ Apply(t, s).at = t.at /\ Apply(t, s).bound = t.bound
         /\ Apply(t, s).column = t.column /\ Apply(t, s).used = t.used
<1>1. t \in TableRows
  BY DEF Sound, SoundBut
<1>2. CASE s.op = "clear chain"
  <2>1. Apply(t, s) = [t EXCEPT !.order = {}]
    BY <1>2 DEF Apply
  <2> QED
    BY <1>1, <2>1 DEF TableRows
<1>3. CASE s.op = "link" /\ s.i \in Int
  <2> DEFINE o == t.order \cup {<<s.i, s.m>>}
             u == [t EXCEPT !.order = o]
  <2>1. Apply(t, s) = Link(t, s.i, s.m)
    BY <1>3 DEF Apply
  <2>2. s.m \in Rows(t) /\ Link(t, s.i, s.m) = u
    BY <1>1, <2>1 DEF Link, Unless, TableRows
  <2>3. o \subseteq Int \X Models
    BY <1>1, <1>3, <2>2 DEF Rows, TableRows
  <2> HIDE DEF o
  <2>4. /\ u \in TableRows
        /\ u.home = t.home /\ u.at = t.at /\ u.bound = t.bound /\ u.column = t.column /\ u.used = t.used
    BY <1>1, <2>3 DEF TableRows
  <2> QED
    BY <2>1, <2>2, <2>4
<1> QED
  BY <1>2, <1>3 DEF OfChain

\* A statement that is executed by itself, unless it fails, leaves sound tables
\* and binds no model to keys that were there.
LEMMA StatementKeeps ==
  ASSUME NEW t, Sound(t), NEW s \in Statements, backend = "local", Apply(t, s) # Violated
  PROVE  Sound(Apply(t, s)) /\ \A m \in Models : \A N : Modest(t, Apply(t, s), m, N)
<1>1. CASE s \in [op : {"insert platform", "add key"}, p : Platforms]
  <2>1. CASE s.op = "insert platform"
    <3>1. Apply(t, s) = InsertPlatform(t, s.p) /\ s.p \in Platforms
      BY <1>1, <2>1 DEF Apply
    <3> QED
      BY <3>1, OtherStatements
  <2>2. CASE s.op = "add key"
    <3>1. Apply(t, s) = AddKey(t, s.p) /\ s.p \in Platforms
      BY <1>1, <2>2 DEF Apply
    <3> QED
      BY <3>1, AddKeyIs
  <2> QED
    BY <1>1, <2>1, <2>2
<1>2. CASE s \in [op : {"set keys"}, p : Platforms, keys : SUBSET Creds, n : Nat]
  <2>1. /\ Apply(t, s) = ReplaceKeys(t, s.p, s.keys, s.n)
        /\ s.p \in Platforms /\ s.keys \in SUBSET Creds /\ s.n \in Nat
    BY <1>2 DEF Apply
  <2> QED
    BY <2>1, ReplaceKeysIs
<1>3. CASE s \in [op : {"delete key", "detach"}, k : Creds]
  <2>1. CASE s.op = "delete key"
    <3>1. Apply(t, s) = DeleteKeyRow(t, s.k) /\ s.k \in Creds
      BY <1>3, <2>1 DEF Apply
    <3> QED
      BY <3>1, DeleteKeyRowIs
  <2>2. CASE s.op = "detach"
    <3>1. Apply(t, s) = Detach(t, s.k) /\ s.k \in Creds
      BY <1>3, <2>2 DEF Apply
    <3> QED
      BY <3>1, DetachIs
  <2> QED
    BY <1>3, <2>1, <2>2
<1>4. CASE s \in [op : {"delete rapi"}, m : Models, kept : BOOLEAN]
  <2>1. Apply(t, s) = DeleteRAPIRow(t, s.m, s.kept) /\ s.m \in Models
    BY <1>4 DEF Apply
  <2> QED
    BY <2>1, DeleteRAPIRowIs
<1>5. CASE s \in [op : {"delete platform"}, p : Platforms, kept : BOOLEAN]
  <2>1. Apply(t, s) = DeletePlatformRow(t, s.p, s.kept) /\ s.p \in Platforms
    BY <1>5 DEF Apply
  <2> QED
    BY <2>1, DeletePlatformRowIs
<1>6. CASE s \in [op : {"enable"}, x : Platforms \cup Models \cup {Route}, on : BOOLEAN]
  <2>1. Apply(t, s) = SetEnabled(t, s.x, s.on)
    BY <1>6 DEF Apply
  <2>2. s.x \in Platforms \cup Models \cup {Route} /\ s.on \in BOOLEAN
    BY <1>6
  <2> QED
    BY <2>1, <2>2, OtherStatements
<1>7. CASE s \in [op : {"insert route", "delete route"}]
  <2>1. CASE s.op = "insert route"
    <3>1. Apply(t, s) = CreateLAPI(t)
      BY <2>1 DEF Apply
    <3> QED
      BY <3>1, OtherStatements
  <2>2. CASE s.op = "delete route"
    <3>1. Apply(t, s) = DeleteLAPI(t)
      BY <2>2 DEF Apply
    <3> QED
      BY <3>1, OtherStatements
  <2> QED
    BY <1>7, <2>1, <2>2
<1> QED
  BY <1>1, <1>2, <1>3, <1>4, <1>5, <1>6, <1>7 DEF Statements

----------------------------------------------------------------------------
(* Batches.                                                                 *)

\* The statement a batch comes to next, unless one has failed.
Next1(t, s) == IF t = Violated THEN Violated ELSE Apply(t, s)

\* The function by which Applied is computed.
IsExecution(t, batch, f) ==
  f = [i \in 0..Len(batch) |-> IF i = 0 THEN t ELSE Next1(f[i - 1], batch[i])]

\* There is such a function: a batch has finitely many statements.
LEMMA ExecutionExists ==
  ASSUME NEW t, NEW batch, Len(batch) \in Nat
  PROVE  \E f : IsExecution(t, batch, f)
<1> DEFINE Upto(n, f) == f = [i \in 0..n |-> IF i = 0 THEN t ELSE Next1(f[i - 1], batch[i])]
           done == {n \in 0..Len(batch) : \E f : Upto(n, f)}
<1>1. 0 \in done
  <2> DEFINE f == [i \in 0..0 |-> t]
  <2>1. Upto(0, f)
    OBVIOUS
  <2>2. \E g : Upto(0, g)
    BY <2>1
  <2>3. 0 \in 0..Len(batch)
    OBVIOUS
  <2> QED
    BY <2>2, <2>3
<1>2. ASSUME NEW n \in 0..Len(batch), n \in done, n < Len(batch) PROVE n + 1 \in done
  <2>1. PICK f : Upto(n, f)
    BY <1>2
  <2> DEFINE g == [i \in 0..(n + 1) |-> IF i <= n THEN f[i] ELSE Next1(f[n], batch[n + 1])]
  <2>2. \A i \in 0..n : f[i] = IF i = 0 THEN t ELSE Next1(f[i - 1], batch[i])
    BY <2>1
  <2>3. \A i \in 0..(n + 1) : g[i] = IF i = 0 THEN t ELSE Next1(g[i - 1], batch[i])
    BY <2>2
  <2>4. Upto(n + 1, g)
    BY <2>3
  <2>5. n + 1 \in 0..Len(batch)
    BY <1>2
  <2> QED
    BY <2>4, <2>5
<1> HIDE DEF done
<1>3. 0..Len(batch) \subseteq done
  BY <1>1, <1>2, InductionUpTo
<1>4. Len(batch) \in done
  BY <1>3
<1> QED
  BY <1>4 DEF done, IsExecution

\* A batch is executed statement by statement.
LEMMA AppliedIs ==
  ASSUME NEW t, NEW batch, Len(batch) \in Nat
  PROVE  \E f : /\ f[0] = t /\ Applied(t, batch) = f[Len(batch)]
                /\ \A i \in 1..Len(batch) : f[i] = Next1(f[i - 1], batch[i])
<1> DEFINE F == CHOOSE f : IsExecution(t, batch, f)
<1>1. IsExecution(t, batch, F)
  BY ExecutionExists
<1>2. Applied(t, batch) = F[Len(batch)]
  BY DEF Applied, IsExecution, Next1
<1> HIDE DEF F
<1>3. F[0] = t /\ \A i \in 1..Len(batch) : F[i] = Next1(F[i - 1], batch[i])
  <2> DEFINE G == F
  <2>1. F = [i \in 0..Len(batch) |-> IF i = 0 THEN t ELSE Next1(G[i - 1], batch[i])]
    BY <1>1 DEF IsExecution
  <2> HIDE DEF G
  <2>2. F[0] = t /\ \A i \in 1..Len(batch) : F[i] = Next1(G[i - 1], batch[i])
    BY <2>1
  <2> QED
    BY <2>2 DEF G
<1> QED
  BY <1>2, <1>3

\* Sound tables are tables.
LEMMA SoundNotViolated == ASSUME NEW t, NEW X, SoundBut(t, X) PROVE t # Violated
<1>1. DOMAIN t # DOMAIN Violated
  BY DEF SoundBut, TableRows, Violated
<1> QED
  BY <1>1

\* A batch of one statement.
LEMMA AppliedToOne ==
  ASSUME NEW t, t # Violated, NEW s
  PROVE  Applied(t, <<s>>) = Apply(t, s)
<1> DEFINE b == <<s>>
<1>1. Len(b) = 1 /\ b[1] = s
  OBVIOUS
<1> HIDE DEF b
<1>2. Len(b) \in Nat
  BY <1>1
<1>3. PICK f : /\ f[0] = t /\ Applied(t, b) = f[Len(b)]
               /\ \A i \in 1..Len(b) : f[i] = Next1(f[i - 1], b[i])
  BY <1>2, AppliedIs
<1>4. f[1] = Next1(f[0], b[1])
  BY <1>1, <1>3
<1> QED
  BY <1>1, <1>3, <1>4 DEF Next1, b

\* A batch of two statements.
LEMMA AppliedToTwo ==
  ASSUME NEW t, t # Violated, NEW s, NEW r
  PROVE  Applied(t, <<s, r>>) = IF Apply(t, s) = Violated THEN Violated ELSE Apply(Apply(t, s), r)
<1> DEFINE b == <<s, r>>
<1>1. Len(b) = 2 /\ b[1] = s /\ b[2] = r
  OBVIOUS
<1> HIDE DEF b
<1>2. Len(b) \in Nat
  BY <1>1
<1>3. PICK f : /\ f[0] = t /\ Applied(t, b) = f[Len(b)]
               /\ \A i \in 1..Len(b) : f[i] = Next1(f[i - 1], b[i])
  BY <1>2, AppliedIs
<1>4. f[1] = Next1(f[0], b[1]) /\ f[2] = Next1(f[1], b[2])
  BY <1>1, <1>3
<1>5. PICK u : u = Apply(t, s)
  OBVIOUS
<1>6. f[1] = u
  BY <1>1, <1>3, <1>4, <1>5 DEF Next1
<1>7. f[2] = IF u = Violated THEN Violated ELSE Apply(u, r)
  BY <1>1, <1>4, <1>6 DEF Next1
<1>8. Applied(t, b) = f[2]
  BY <1>1, <1>3
<1>9. Applied(t, b) = IF u = Violated THEN Violated ELSE Apply(u, r)
  BY <1>7, <1>8
<1> QED
  BY <1>5, <1>9 DEF b

\* A batch of statements of a chain.
LEMMA ChainKeeps ==
  ASSUME NEW t, Sound(t), NEW S, \A s \in S : OfChain(s), NEW b \in Seq(S),
         Applied(t, b) # Violated
  PROVE  Sound(Applied(t, b)) /\ \A m \in Models : \A N : Modest(t, Applied(t, b), m, N)
<1>1. Len(b) \in Nat /\ \A i \in 1..Len(b) : OfChain(b[i])
  OBVIOUS
<1>2. PICK f : /\ f[0] = t /\ Applied(t, b) = f[Len(b)]
               /\ \A i \in 1..Len(b) : f[i] = Next1(f[i - 1], b[i])
  BY <1>1, AppliedIs
<1> DEFINE Same(u) == /\ u \in TableRows
                      /\ u.home = t.home /\ u.at = t.at /\ u.bound = t.bound
                      /\ u.column = t.column /\ u.used = t.used
           good == {i \in 0..Len(b) : f[i] = Violated \/ Same(f[i])}
<1>3. \A u : Same(u) => Sound(u) /\ \A m \in Models : \A N : Modest(t, u, m, N)
  BY SameRows DEF Sound
<1>4. 0 \in good
  BY <1>1, <1>2 DEF Sound, SoundBut
<1>5. ASSUME NEW n \in 0..Len(b), n \in good, n < Len(b) PROVE n + 1 \in good
  <2>1. n + 1 \in 1..Len(b) /\ n + 1 \in 0..Len(b) /\ (n + 1) - 1 = n
    BY <1>1, <1>5
  <2>2. f[n + 1] = Next1(f[n], b[n + 1]) /\ OfChain(b[n + 1])
    BY <1>1, <1>2, <2>1
  <2>3. CASE f[n + 1] = Violated
    BY <2>1, <2>3
  <2>4. CASE f[n + 1] # Violated
    <3>1. f[n] # Violated /\ f[n + 1] = Apply(f[n], b[n + 1])
      BY <2>2, <2>4 DEF Next1
    <3>2. Same(f[n])
      BY <1>5, <3>1
    <3>3. Sound(f[n])
      BY <1>3, <3>2
    <3>4. Same(f[n + 1])
      BY <2>2, <2>4, <3>1, <3>2, <3>3, ChainStatement
    <3> QED
      BY <2>1, <3>4
  <2> QED
    BY <2>3, <2>4
<1> HIDE DEF good
<1>6. Len(b) \in good
  <2>1. 0..Len(b) \subseteq good
    BY <1>1, <1>4, <1>5, InductionUpTo
  <2> QED
    BY <1>1, <2>1
<1>7. Same(f[Len(b)])
  BY <1>2, <1>6 DEF good
<1> QED
  BY <1>2, <1>3, <1>7

\* The row of a new model and its bindings, in one transaction.
LEMMA InsertAndBind ==
  ASSUME NEW t, t # Violated, NEW m, NEW p, NEW keys
  PROVE  Applied(t, <<[op |-> "insert rapi", m |-> m, p |-> p],
                      [op |-> "sync bindings", m |-> m, p |-> p, keys |-> keys]>>)
           = IF InsertRAPI(t, m, p) = Violated THEN Violated
             ELSE WithBindings(InsertRAPI(t, m, p), m, p, keys)
<1> DEFINE s == [op |-> "insert rapi", m |-> m, p |-> p]
           r == [op |-> "sync bindings", m |-> m, p |-> p, keys |-> keys]
<1>1. Apply(t, s) = InsertRAPI(t, m, p) /\ \A v : Apply(v, r) = WithBindings(v, m, p, keys)
  BY DEF Apply
<1>2. SUFFICES Applied(t, <<s, r>>) = IF InsertRAPI(t, m, p) = Violated THEN Violated
                                      ELSE WithBindings(InsertRAPI(t, m, p), m, p, keys)
  OBVIOUS
<1> HIDE DEF s, r
<1>3. Applied(t, <<s, r>>) = IF Apply(t, s) = Violated THEN Violated ELSE Apply(Apply(t, s), r)
  BY AppliedToTwo
<1> QED
  BY <1>1, <1>3

\* The row of a model that is saved and its bindings, in one transaction.
LEMMA UpdateAndBind ==
  ASSUME NEW t, t # Violated, NEW m, NEW p, NEW keys, NEW on
  PROVE  Applied(t, <<[op |-> "update rapi", m |-> m, p |-> p, on |-> on],
                      [op |-> "sync bindings", m |-> m, p |-> p, keys |-> keys]>>)
           = IF PatchRAPI(t, m, p, on) = Violated THEN Violated
             ELSE WithBindings(PatchRAPI(t, m, p, on), m, p, keys)
<1> DEFINE s == [op |-> "update rapi", m |-> m, p |-> p, on |-> on]
           r == [op |-> "sync bindings", m |-> m, p |-> p, keys |-> keys]
<1>1. Apply(t, s) = PatchRAPI(t, m, p, on) /\ \A v : Apply(v, r) = WithBindings(v, m, p, keys)
  BY DEF Apply
<1>2. SUFFICES Applied(t, <<s, r>>) = IF PatchRAPI(t, m, p, on) = Violated THEN Violated
                                      ELSE WithBindings(PatchRAPI(t, m, p, on), m, p, keys)
  OBVIOUS
<1> HIDE DEF s, r
<1>3. Applied(t, <<s, r>>) = IF Apply(t, s) = Violated THEN Violated ELSE Apply(Apply(t, s), r)
  BY AppliedToTwo
<1> QED
  BY <1>1, <1>3

\* A new model and its bindings: no other model gets keys.
LEMMA CreateKeeps ==
  ASSUME NEW t, Sound(t), NEW m \in Models, NEW p \in Platforms, NEW keys \in SUBSET Creds,
         NEW w, w = InsertRAPI(t, m, p), w # Violated,
         NEW u, u = WithBindings(w, m, p, keys), u # Violated
  PROVE  Sound(u) /\ \A n \in Models : \A N : Modest(t, u, n, N)
<1>1. /\ Sound(w) /\ t.at[m] = Nil /\ w.at[m] = p /\ w.bound = t.bound /\ t.used \subseteq w.used
      /\ \A n \in Models : n # m => w.at[n] = t.at[n]
  BY InsertRAPIIs
<1>2. SoundBut(w, {m}) /\ w.at[m] \in {p, Nil}
  BY <1>1 DEF Sound, SoundBut
<1>3. Sound(u) /\ u.at = w.at /\ u.used = w.used /\ \A n \in Models : n # m => Bound(u, n) = Bound(w, n)
  BY <1>2, WithBindingsIs
<1>4. \A n \in Models : \A N : Modest(t, u, n, N)
  BY <1>1, <1>3 DEF Modest, Rows, Bound
<1> QED
  BY <1>3, <1>4

\* A model that is saved, and its bindings: no other model gets keys, and it gets
\* those of the form.
LEMMA UpdateKeeps ==
  ASSUME NEW t, Sound(t), NEW m \in Models, NEW p \in Platforms, NEW keys \in SUBSET Creds,
         NEW on \in BOOLEAN,
         NEW w, w = PatchRAPI(t, m, p, on), w # Violated,
         NEW u, u = WithBindings(w, m, p, keys), u # Violated
  PROVE  /\ Sound(u)
         /\ keys # {} => Bound(u, m) \subseteq keys
         /\ \A n \in Models : \A N : n # m => Modest(t, u, n, N)
<1>1. /\ SoundBut(w, {m}) /\ w.at[m] \in {p, Nil} /\ w.bound = t.bound /\ w.used = t.used
  BY PatchRAPIIs
<1>2. SoundBut(w, {m}) /\ w.at[m] \in {p, Nil}
  BY <1>1
<1>3. /\ Sound(u) /\ u.used = w.used /\ \A n \in Models : n # m => Bound(u, n) = Bound(w, n)
      /\ keys # {} => Bound(u, m) \subseteq keys
  BY <1>2, WithBindingsIs
<1>4. \A n \in Models : \A N : n # m => Modest(t, u, n, N)
  BY <1>1, <1>3 DEF Modest, Bound
<1> QED
  BY <1>3, <1>4

\* The first statement of a batch of one or two.
LEMMA HeadOf ==
  ASSUME NEW x, NEW y
  PROVE  Head(<<x>>) = x /\ Head(<<x, y>>) = x
OBVIOUS

\* A batch of a handler, unless it fails, leaves sound tables; who gets keys that
\* were there is the model of the form, and it gets those of the form.
LEMMA BatchKeeps ==
  ASSUME NEW t, Sound(t), NEW r, NEW b, OfHandler(r, b), backend = "local",
         Head(b).op \notin {"map", "toggle models"}, Applied(t, b) # Violated
  PROVE  Sound(Applied(t, b)) /\ \A m \in Models : Modest(t, Applied(t, b), m, Named(r, m))
<1>0. t # Violated
  BY SoundNotViolated DEF Sound
<1>1. CASE \E s \in Statements \cup Readings : b = <<s>>
  <2>1. PICK s \in Statements \cup Readings : b = <<s>>
    BY <1>1
  <2>2. s.op \notin {"map", "toggle models"}
    BY <2>1, HeadOf
  <2>3. s \in Statements
    BY <2>1, <2>2 DEF Readings
  <2>4. Applied(t, b) = Apply(t, s)
    BY <1>0, <2>1, AppliedToOne
  <2> QED
    BY <2>3, <2>4, StatementKeeps
<1>2. CASE \E m \in Models, p \in Platforms, keys \in SUBSET Creds :
             b = <<[op |-> "insert rapi", m |-> m, p |-> p],
                   [op |-> "sync bindings", m |-> m, p |-> p, keys |-> keys]>>
  <2>1. PICK m \in Models, p \in Platforms, keys \in SUBSET Creds :
             b = <<[op |-> "insert rapi", m |-> m, p |-> p],
                   [op |-> "sync bindings", m |-> m, p |-> p, keys |-> keys]>>
    BY <1>2
  <2>2. Applied(t, b) = IF InsertRAPI(t, m, p) = Violated THEN Violated
                        ELSE WithBindings(InsertRAPI(t, m, p), m, p, keys)
    BY <1>0, <2>1, InsertAndBind
  <2> QED
    BY <2>2, CreateKeeps
<1>3. CASE \E m \in Models, p \in Platforms, keys \in SUBSET Creds, on \in BOOLEAN :
             /\ r.op = "save rapi" /\ r.m = m /\ r.keys = keys
             /\ b = <<[op |-> "update rapi", m |-> m, p |-> p, on |-> on],
                      [op |-> "sync bindings", m |-> m, p |-> p, keys |-> keys]>>
  <2>1. PICK m \in Models, p \in Platforms, keys \in SUBSET Creds, on \in BOOLEAN :
             /\ r.op = "save rapi" /\ r.m = m /\ r.keys = keys
             /\ b = <<[op |-> "update rapi", m |-> m, p |-> p, on |-> on],
                      [op |-> "sync bindings", m |-> m, p |-> p, keys |-> keys]>>
    BY <1>3
  <2>2. Applied(t, b) = IF PatchRAPI(t, m, p, on) = Violated THEN Violated
                        ELSE WithBindings(PatchRAPI(t, m, p, on), m, p, keys)
    <3>1. Applied(t, <<[op |-> "update rapi", m |-> m, p |-> p, on |-> on],
                      [op |-> "sync bindings", m |-> m, p |-> p, keys |-> keys]>>)
            = IF PatchRAPI(t, m, p, on) = Violated THEN Violated
              ELSE WithBindings(PatchRAPI(t, m, p, on), m, p, keys)
      BY <1>0, UpdateAndBind
    <3> QED
      BY <2>1, <3>1
  <2>3. /\ Sound(Applied(t, b))
        /\ keys # {} => Bound(Applied(t, b), m) \subseteq keys
        /\ \A n \in Models : \A N : n # m => Modest(t, Applied(t, b), n, N)
    BY <2>2, UpdateKeeps
  <2>4. Named(r, m) = IF keys = {} THEN Creds ELSE keys
    BY <2>1 DEF Named
  <2> QED
    BY <2>3, <2>4 DEF Modest, Bound
<1>4. CASE b # <<>> /\ \E S : b \in Seq(S) /\ \A s \in S : OfChain(s)
  BY <1>4, ChainKeeps
<1> QED
  BY <1>1, <1>2, <1>3, <1>4 DEF OfHandler

----------------------------------------------------------------------------
(* Plans.                                                                   *)

\* A sequence of batches of the handler is a plan.
LEMMA PlanIs ==
  ASSUME NEW r, NEW S, NEW rest \in Seq(S), \A b \in S : OfHandler(r, b)
  PROVE  PlanOf(r, rest)
BY DEF PlanOf

\* A plan of no batch, of one, and of two.
LEMMA PlanOfFew ==
  ASSUME NEW r
  PROVE  /\ PlanOf(r, <<>>)
         /\ \A b : OfHandler(r, b) => PlanOf(r, <<b>>)
         /\ \A b, c : OfHandler(r, b) /\ OfHandler(r, c) => PlanOf(r, <<b, c>>)
<1>1. <<>> \in Seq({})
  OBVIOUS
<1>2. \A b : <<b>> \in Seq({b})
  OBVIOUS
<1>3. \A b, c : <<b, c>> \in Seq({b, c})
  OBVIOUS
<1>4. PlanOf(r, <<>>)
  <2> DEFINE q == <<>>
             S == {}
  <2>1. \A x \in S : OfHandler(r, x)
    OBVIOUS
  <2>2. q \in Seq(S)
    BY <1>1
  <2> HIDE DEF q, S
  <2>3. PlanOf(r, q)
    BY <2>1, <2>2, PlanIs
  <2> QED
    BY <2>3 DEF q
<1>5. ASSUME NEW b, OfHandler(r, b) PROVE PlanOf(r, <<b>>)
  <2> DEFINE q == <<b>>
             S == {b}
  <2>1. \A x \in S : OfHandler(r, x)
    BY <1>5
  <2>2. q \in Seq(S)
    BY <1>2
  <2> HIDE DEF q, S
  <2>3. PlanOf(r, q)
    BY <2>1, <2>2, PlanIs
  <2> QED
    BY <2>3 DEF q
<1>6. ASSUME NEW b, NEW c, OfHandler(r, b), OfHandler(r, c) PROVE PlanOf(r, <<b, c>>)
  <2> DEFINE q == <<b, c>>
             S == {b, c}
  <2>1. \A x \in S : OfHandler(r, x)
    BY <1>6
  <2>2. q \in Seq(S)
    BY <1>3
  <2> HIDE DEF q, S
  <2>3. PlanOf(r, q)
    BY <2>1, <2>2, PlanIs
  <2> QED
    BY <2>3 DEF q
<1> QED
  BY <1>4, <1>5, <1>6

\* A plan goes on with its first batch, and what is left is a plan.
LEMMA PlanGoesOn ==
  ASSUME NEW r, NEW rest, PlanOf(r, rest), rest # <<>>
  PROVE  OfHandler(r, Head(rest)) /\ PlanOf(r, Tail(rest)) /\ Tail(rest) # rest
<1>1. PICK S : rest \in Seq(S) /\ \A b \in S : OfHandler(r, b)
  BY DEF PlanOf
<1>2. /\ Head(rest) \in S /\ Tail(rest) \in Seq(S)
      /\ Len(Tail(rest)) = Len(rest) - 1
  BY <1>1, HeadTailProperties
<1>3. Tail(rest) # rest
  <2> DEFINE q == Tail(rest)
  <2>1. Len(rest) \in Nat
    BY <1>1
  <2>2. Len(q) = Len(rest) - 1
    BY <1>2
  <2> HIDE DEF q
  <2>3. q # rest
    BY <2>1, <2>2
  <2> QED
    BY <2>3 DEF q
<1> QED
  BY <1>1, <1>2, <1>3, PlanIs

\* Two plans one after the other.
LEMMA PlanJoined ==
  ASSUME NEW r, NEW p, NEW q, PlanOf(r, p), PlanOf(r, q)
  PROVE  PlanOf(r, p \o q)
<1>1. PICK S : p \in Seq(S) /\ \A b \in S : OfHandler(r, b)
  BY DEF PlanOf
<1>2. PICK T : q \in Seq(T) /\ \A b \in T : OfHandler(r, b)
  BY DEF PlanOf
<1>3. p \in Seq(S \cup T) /\ q \in Seq(S \cup T)
  BY <1>1, <1>2
<1>4. p \o q \in Seq(S \cup T)
  BY <1>3
<1> QED
  BY <1>1, <1>2, <1>4 DEF PlanOf

\* A statement by itself.
LEMMA PlanOfStatement ==
  ASSUME NEW r, NEW s, s \in Statements \cup Readings
  PROVE  OfHandler(r, <<s>>) /\ PlanOf(r, <<<<s>>>>)
BY PlanOfFew DEF OfHandler

\* A chain is written in one transaction.
LEMMA PlanOfChain ==
  ASSUME NEW r, NEW n \in Nat, NEW ms, DOMAIN ms = 1..n, backend = "local"
  PROVE  PlanOf(r, SetLAPIRAPIOrder(ms))
<1> DEFINE links == [i \in DOMAIN ms |-> [op |-> "link", i |-> i - 1, m |-> ms[i]]]
           L == {links[i] : i \in 1..n}
           first == [op |-> "clear chain"]
           b == <<first>> \o links
           S == L \cup {first}
<1>1. \A i \in 1..n : OfChain(links[i])
  <2> TAKE i \in 1..n
  <2>1. links[i].op = "link" /\ links[i].i = i - 1
    OBVIOUS
  <2>2. i - 1 \in Int
    OBVIOUS
  <2> HIDE DEF links
  <2> QED
    BY <2>1, <2>2 DEF OfChain
<1>2. OfChain(first)
  BY DEF OfChain
<1>3. links \in Seq(L)
  <2>1. DOMAIN links = 1..n /\ \A i \in 1..n : links[i] \in L
    OBVIOUS
  <2>2. links = [i \in 1..n |-> links[i]]
    OBVIOUS
  <2> HIDE DEF links, L
  <2> QED
    BY <2>1, <2>2
<1>4. SetLAPIRAPIOrder(ms) = <<b>>
  BY DEF SetLAPIRAPIOrder, Tx
<1>5. \A s \in L : OfChain(s)
  BY <1>1
<1> HIDE DEF links, L, first
<1>6. <<first>> \in Seq(S) /\ links \in Seq(S)
  BY <1>3
<1>7. b \in Seq(S) /\ Len(b) = 1 + Len(links) /\ Len(links) \in Nat
  BY <1>6
<1>8. b # <<>>
  BY <1>7
<1>9. \A s \in S : OfChain(s)
  BY <1>2, <1>5
<1> HIDE DEF b, S
<1>10. OfHandler(r, b)
  BY <1>7, <1>8, <1>9 DEF OfHandler
<1> QED
  BY <1>4, <1>10, PlanOfFew

\* The chain there is, with another model behind it, is written in one transaction.
LEMMA PlanOfMapping ==
  ASSUME NEW r, tables \in TableRows, NEW m, backend = "local"
  PROVE  PlanOf(r, MapToRoute(tables, m))
<1> DEFINE ms == {pair[2] : pair \in tables.order}
           n == Cardinality(ms)
           c == Chain(tables)
           S == {c[i] : i \in 1..n}
<1>1. ms \subseteq Models
  BY DEF TableRows
<1>2. n \in Nat
  <2> HIDE DEF ms
  <2>1. IsFiniteSet(ms)
    BY <1>1, DefinitionsAssumption, FS_Subset
  <2> QED
    BY <2>1, FS_CardinalityType
<1>3. DOMAIN c = 1..n
  <2> DEFINE place(x) == CHOOSE i \in Places : <<i, x>> \in tables.order
             nth(i) == CHOOSE x \in ms : Cardinality({y \in ms : place(y) < place(x)}) = i - 1
  <2>1. c = [i \in 1..n |-> nth(i)]
    BY DEF Chain
  <2> HIDE DEF nth, c, n
  <2> QED
    BY <2>1
<1>4. c = [i \in DOMAIN c |-> c[i]]
  <2> DEFINE place(x) == CHOOSE i \in Places : <<i, x>> \in tables.order
             nth(i) == CHOOSE x \in ms : Cardinality({y \in ms : place(y) < place(x)}) = i - 1
  <2>1. c = [i \in 1..n |-> nth(i)]
    BY DEF Chain
  <2> HIDE DEF nth, c, n
  <2> QED
    BY <2>1
<1> HIDE DEF n, c
<1>5. \A i \in 1..n : c[i] \in S
  OBVIOUS
<1> HIDE DEF S
<1>6. c \in Seq(S) /\ Len(c) = n
  <2>1. c = [i \in 1..n |-> c[i]]
    BY <1>3, <1>4
  <2> QED
    BY <1>2, <1>5, <2>1
<1>7. DOMAIN Append(c, m) = 1..(n + 1)
  <2>1. c \in Seq(S \cup {m}) /\ m \in S \cup {m}
    BY <1>6
  <2>2. Append(c, m) \in Seq(S \cup {m}) /\ Len(Append(c, m)) = n + 1
    BY <1>6, <2>1
  <2> QED
    BY <1>2, <2>2
<1>8. n + 1 \in Nat
  BY <1>2
<1>9. PlanOf(r, SetLAPIRAPIOrder(Append(c, m)))
  BY <1>7, <1>8, PlanOfChain
<1> QED
  BY <1>9, PlanOfFew DEF MapToRoute, c

\* Every model of a platform is switched by itself.
LEMMA PlanOfToggle ==
  ASSUME NEW r, NEW p, NEW on \in BOOLEAN
  PROVE  PlanOf(r, ToggleModels(tables, p, on))
<1> DEFINE X == ModelsAt(tables, p)
           n == Cardinality(X)
           s(i) == [op |-> "enable", x |-> SetToSeq(X)[i], on |-> on]
           S == {<<s(i)>> : i \in 1..n}
<1>1. X \subseteq Models
  BY DEF ModelsAt
<1>2. IsFiniteSet(X)
  BY <1>1, DefinitionsAssumption, FS_Subset
<1>3. ToggleModels(tables, p, on) = [i \in 1..n |-> <<s(i)>>]
  BY DEF ToggleModels
<1> HIDE DEF X
<1>4. n \in Nat /\ SetToSeq(X) \in [1..n -> X]
  BY <1>2, SequenceOfSet
<1> HIDE DEF n
<1>5. \A i \in 1..n : SetToSeq(X)[i] \in Models
  BY <1>1, <1>4
<1>6. \A i \in 1..n : s(i) \in Statements
  BY <1>5 DEF Statements
<1>7. \A i \in 1..n : OfHandler(r, <<s(i)>>)
  BY <1>6, PlanOfStatement
<1> HIDE DEF s
<1>8. \A b \in S : OfHandler(r, b)
  BY <1>7
<1>9. [i \in 1..n |-> <<s(i)>>] \in Seq(S)
  BY <1>4
<1> QED
  BY <1>3, <1>8, <1>9 DEF PlanOf

\* Two things one after the other.
LEMMA PairOf ==
  ASSUME NEW x, NEW y
  PROVE  <<x>> \o <<y>> = <<x, y>> /\ Append(<<x>>, y) = <<x, y>>
<1> DEFINE S == {x, y}
           p == <<x>>
           q == <<y>>
           both == <<x, y>>
<1>1. p \in Seq(S) /\ Len(p) = 1 /\ p[1] = x
  OBVIOUS
<1>2. q \in Seq(S) /\ Len(q) = 1 /\ q[1] = y
  OBVIOUS
<1>3. both \in Seq(S) /\ Len(both) = 2 /\ both[1] = x /\ both[2] = y
  OBVIOUS
<1>4. y \in S
  OBVIOUS
<1> HIDE DEF S, p, q, both
<1>5. p \o q = both
  <2> DEFINE c == p \o q
  <2>1. /\ c \in Seq(S) /\ Len(c) = Len(p) + Len(q)
        /\ \A i \in 1..(Len(p) + Len(q)) : c[i] = IF i <= Len(p) THEN p[i] ELSE q[i - Len(p)]
    BY <1>1, <1>2, ConcatProperties
  <2> HIDE DEF c
  <2>2. Len(c) = 2 /\ c[1] = x /\ c[2] = y
    BY <1>1, <1>2, <2>1
  <2>3. Len(c) = Len(both) /\ \A i \in 1..Len(c) : c[i] = both[i]
    BY <1>3, <2>2
  <2>4. c = both
    BY <1>3, <2>1, <2>3, SeqEqual
  <2> QED
    BY <2>4 DEF c
<1>6. Append(p, y) = both
  <2> DEFINE c == Append(p, y)
  <2>0. p \in Seq(S)
    BY <1>1
  <2>1. /\ c \in Seq(S) /\ Len(c) = Len(p) + 1
        /\ \A i \in 1..Len(p) : c[i] = p[i]
        /\ c[Len(p) + 1] = y
    BY <1>4, <2>0, AppendProperties
  <2> HIDE DEF c
  <2>2. Len(c) = 2 /\ c[1] = x /\ c[2] = y
    BY <1>1, <2>1
  <2>3. Len(c) = Len(both) /\ \A i \in 1..Len(c) : c[i] = both[i]
    BY <1>3, <2>2
  <2>4. c = both
    BY <1>3, <2>1, <2>3, SeqEqual
  <2> QED
    BY <2>4 DEF c
<1> QED
  BY <1>5, <1>6 DEF p, q, both

\* What a handler is begun with: transactions of the request.
LEMMA HandlerIs ==
  ASSUME NEW r \in Requests, backend = "local"
  PROVE  PlanOf(r, Handler(r))
<1> DEFINE Listed == {ks \in SUBSET Known(Creds) : Cardinality(ks) <= FormKeys}
<1>0. /\ backend = "local"
      /\ Known(Platforms) \subseteq Platforms /\ Known(Models) \subseteq Models
      /\ Known(Creds) \subseteq Creds
      /\ Listed \subseteq SUBSET Creds
  BY DEF Known
<1>00. r \in
    [op : {"create platform"}, p : Platforms \ tables.used]
    \cup [op : {"create rapi"}, m : Models \ tables.used, p : Known(Platforms), keys : Listed]
    \cup [op : {"save rapi"}, m : Known(Models), p : Known(Platforms), keys : Listed, on : BOOLEAN]
    \cup [op : {"delete rapi"}, m : Known(Models), force : BOOLEAN]
    \cup [op : {"delete platform"}, p : Known(Platforms), force : BOOLEAN]
    \cup [op : {"save keys"}, p : Known(Platforms), kept : Listed, new : 0..1]
    \cup [op : {"add key"}, p : Known(Platforms)]
    \cup [op : {"delete key"}, k : Known(Creds)]
    \cup [op : {"toggle platform"}, p : Known(Platforms), on : BOOLEAN]
    \cup [op : {"toggle"}, x : Known(Models) \cup {Route}, on : BOOLEAN]
    \cup [op : {"create route", "delete route"}]
    \cup [op : {"save chain"}, ms : SeqOf(Known(Models), Cardinality(Models))]
  BY DEF Requests
<1> HIDE DEF Listed
<1>1. CASE r \in [op : {"create platform"}, p : Platforms \ tables.used]
  <2>1. Handler(r) = <<<<[op |-> "insert platform", p |-> r.p]>>>> /\ r.p \in Platforms
    BY <1>1, <1>0 DEF Handler
  <2>2. [op |-> "insert platform", p |-> r.p] \in Statements
    BY <2>1 DEF Statements
  <2> QED
    BY <2>1, <2>2, PlanOfStatement
<1>2. CASE r \in [op : {"create rapi"}, m : Models \ tables.used, p : Known(Platforms), keys : Listed]
  <2> DEFINE b == <<[op |-> "insert rapi", m |-> r.m, p |-> r.p],
                    [op |-> "sync bindings", m |-> r.m, p |-> r.p, keys |-> r.keys]>>
             s == [op |-> "map", m |-> r.m]
  <2>1. /\ Handler(r) = Append(CreateRAPI(r.m, r.p, r.keys), <<s>>)
        /\ r.m \in Models /\ r.p \in Platforms /\ r.keys \in SUBSET Creds
    BY <1>0, <1>2 DEF Handler, PostRAPI
  <2>2. CreateRAPI(r.m, r.p, r.keys) = <<b>>
    <3> DEFINE row == [op |-> "insert rapi", m |-> r.m, p |-> r.p]
               sync == [op |-> "sync bindings", m |-> r.m, p |-> r.p, keys |-> r.keys]
    <3>1. CreateRAPI(r.m, r.p, r.keys) = <<<<row>> \o <<sync>>>> /\ b = <<row, sync>>
      BY <1>0 DEF CreateRAPI, Tx, Bindings
    <3> HIDE DEF row, sync, b
    <3> QED
      BY <3>1, PairOf
  <2>3. Handler(r) = <<b, <<s>>>>
    <3> HIDE DEF b, s
    <3>1. Handler(r) = Append(<<b>>, <<s>>)
      BY <2>1, <2>2
    <3> QED
      BY <3>1, PairOf
  <2>4. OfHandler(r, b)
    BY <2>1 DEF OfHandler
  <2>5. s \in Readings
    BY <2>1 DEF Readings
  <2> HIDE DEF b, s
  <2>6. OfHandler(r, <<s>>)
    BY <2>5, PlanOfStatement
  <2> QED
    BY <2>3, <2>4, <2>6, PlanOfFew
<1>3. CASE r \in [op : {"save rapi"}, m : Known(Models), p : Known(Platforms), keys : Listed, on : BOOLEAN]
  <2> DEFINE b == <<[op |-> "update rapi", m |-> r.m, p |-> r.p, on |-> r.on],
                    [op |-> "sync bindings", m |-> r.m, p |-> r.p, keys |-> r.keys]>>
  <2>1. /\ Handler(r) = UpdateRAPI(r.m, r.p, r.keys, r.on) /\ r.op = "save rapi"
        /\ r.m \in Models /\ r.p \in Platforms /\ r.keys \in SUBSET Creds /\ r.on \in BOOLEAN
    BY <1>0, <1>3 DEF Handler, PutRAPI
  <2>2. UpdateRAPI(r.m, r.p, r.keys, r.on) = <<b>>
    <3> DEFINE row == [op |-> "update rapi", m |-> r.m, p |-> r.p, on |-> r.on]
               sync == [op |-> "sync bindings", m |-> r.m, p |-> r.p, keys |-> r.keys]
    <3>1. UpdateRAPI(r.m, r.p, r.keys, r.on) = <<<<row>> \o <<sync>>>> /\ b = <<row, sync>>
      BY <1>0 DEF UpdateRAPI, Tx, Bindings
    <3> HIDE DEF row, sync, b
    <3> QED
      BY <3>1, PairOf
  <2>3. OfHandler(r, b)
    BY <2>1 DEF OfHandler
  <2> HIDE DEF b
  <2> QED
    BY <2>1, <2>2, <2>3, PlanOfFew
<1>4. CASE r \in [op : {"delete rapi"}, m : Known(Models), force : BOOLEAN]
  <2>1. Handler(r) = <<<<[op |-> "delete rapi", m |-> r.m, kept |-> ~r.force /\ backend = "local"]>>>>
            /\ r.m \in Models
    BY <1>4, <1>0 DEF Handler, DeleteRAPI
  <2>2. [op |-> "delete rapi", m |-> r.m, kept |-> ~r.force /\ backend = "local"] \in Statements
    BY <2>1 DEF Statements
  <2> QED
    BY <2>1, <2>2, PlanOfStatement
<1>5. CASE r \in [op : {"delete platform"}, p : Known(Platforms), force : BOOLEAN]
  <2>1. Handler(r) = <<<<[op |-> "delete platform", p |-> r.p, kept |-> ~r.force /\ backend = "local"]>>>>
            /\ r.p \in Platforms
    BY <1>5, <1>0 DEF Handler, DeletePlatform
  <2>2. [op |-> "delete platform", p |-> r.p, kept |-> ~r.force /\ backend = "local"] \in Statements
    BY <2>1 DEF Statements
  <2> QED
    BY <2>1, <2>2, PlanOfStatement
<1>6. CASE r \in [op : {"save keys"}, p : Known(Platforms), kept : Listed, new : 0..1]
  <2>1. /\ Handler(r) = <<<<[op |-> "set keys", p |-> r.p, keys |-> r.kept, n |-> r.new]>>>>
        /\ r.p \in Platforms /\ r.kept \in SUBSET Creds /\ r.new \in Nat
    <3>1. r.op = "save keys" /\ r.p \in Known(Platforms) /\ r.kept \in Listed /\ r.new \in 0..1
      BY <1>6
    <3>2. Handler(r) = SetPlatformKeys(r.p, r.kept, r.new)
      BY <3>1 DEF Handler
    <3>3. SetPlatformKeys(r.p, r.kept, r.new)
            = <<<<[op |-> "set keys", p |-> r.p, keys |-> r.kept, n |-> r.new]>>>>
      BY <1>0 DEF SetPlatformKeys
    <3>4. r.p \in Platforms /\ r.kept \in SUBSET Creds
      <4>1. r.p \in Platforms
        BY <1>0, <3>1
      <4>2. r.kept \in SUBSET Creds
        BY <1>0, <3>1
      <4> QED
        BY <4>1, <4>2
    <3>5. r.new \in Nat
      <4>1. \A x \in 0..1 : x \in Nat
        OBVIOUS
      <4>2. r.new \in 0..1
        BY <3>1
      <4> QED
        BY <4>1, <4>2
    <3> QED
      BY <3>2, <3>3, <3>4, <3>5
  <2>2. [op |-> "set keys", p |-> r.p, keys |-> r.kept, n |-> r.new] \in Statements
    BY <2>1 DEF Statements
  <2> QED
    BY <2>1, <2>2, PlanOfStatement
<1>7. CASE r \in [op : {"add key"}, p : Known(Platforms)]
  <2>1. Handler(r) = <<<<[op |-> "add key", p |-> r.p]>>>> /\ r.p \in Platforms
    BY <1>7, <1>0 DEF Handler, AddPlatformKey
  <2>2. [op |-> "add key", p |-> r.p] \in Statements
    BY <2>1 DEF Statements
  <2> QED
    BY <2>1, <2>2, PlanOfStatement
<1>8. CASE r \in [op : {"delete key"}, k : Known(Creds)]
  <2> DEFINE s == [op |-> "detach", k |-> r.k]
             q == [op |-> "delete key", k |-> r.k]
  <2>1. Handler(r) = <<<<s>>, <<q>>>> /\ r.k \in Creds
    BY <1>0, <1>8 DEF Handler, DropKey
  <2>2. s \in Statements /\ q \in Statements
    BY <2>1 DEF Statements
  <2> HIDE DEF s, q
  <2>3. OfHandler(r, <<s>>) /\ OfHandler(r, <<q>>)
    BY <2>2, PlanOfStatement
  <2> QED
    BY <2>1, <2>3, PlanOfFew
<1>9. CASE r \in [op : {"toggle platform"}, p : Known(Platforms), on : BOOLEAN]
  <2> DEFINE s == [op |-> "enable", x |-> r.p, on |-> r.on]
             q == [op |-> "toggle models", p |-> r.p, on |-> r.on]
  <2>1. Handler(r) = Append(<<<<s>>>>, <<q>>) /\ r.p \in Platforms /\ r.on \in BOOLEAN
    BY <1>0, <1>9 DEF Handler, TogglePlatform, Enable
  <2>2. s \in Statements /\ q \in Readings
    BY <2>1 DEF Statements, Readings
  <2> HIDE DEF s, q
  <2>3. OfHandler(r, <<s>>) /\ OfHandler(r, <<q>>)
    BY <2>2, PlanOfStatement
  <2>4. Handler(r) = <<<<s>>, <<q>>>>
    BY <2>1, PairOf
  <2> QED
    BY <2>3, <2>4, PlanOfFew
<1>10. CASE r \in [op : {"toggle"}, x : Known(Models) \cup {Route}, on : BOOLEAN]
  <2>1. Handler(r) = <<<<[op |-> "enable", x |-> r.x, on |-> r.on]>>>>
            /\ r.x \in Models \cup {Route} /\ r.on \in BOOLEAN
    BY <1>10, <1>0 DEF Handler, Enable
  <2>2. [op |-> "enable", x |-> r.x, on |-> r.on] \in Statements
    BY <2>1 DEF Statements
  <2> QED
    BY <2>1, <2>2, PlanOfStatement
<1>11. CASE r \in [op : {"create route", "delete route"}]
  <2>1. CASE r.op = "create route"
    <3>1. Handler(r) = <<<<[op |-> "insert route"]>>>>
      BY <2>1 DEF Handler
    <3>2. [op |-> "insert route"] \in Statements
      BY DEF Statements
    <3> QED
      BY <3>1, <3>2, PlanOfStatement
  <2>2. CASE r.op = "delete route"
    <3>1. Handler(r) = <<<<[op |-> "delete route"]>>>>
      BY <2>2 DEF Handler
    <3>2. [op |-> "delete route"] \in Statements
      BY DEF Statements
    <3> QED
      BY <3>1, <3>2, PlanOfStatement
  <2> QED
    BY <1>11, <2>1, <2>2
<1>12. CASE r \in [op : {"save chain"}, ms : SeqOf(Known(Models), Cardinality(Models))]
  <2>1. Handler(r) = SetLAPIRAPIOrder(r.ms) /\ r.ms \in SeqOf(Known(Models), Cardinality(Models))
    BY <1>12 DEF Handler
  <2>2. Cardinality(Models) \in Nat
    BY DefinitionsAssumption, FS_CardinalityType
  <2>3. PICK n \in 0..Cardinality(Models) : r.ms \in [1..n -> Known(Models)]
    BY <2>1 DEF SeqOf
  <2>4. n \in Nat /\ DOMAIN r.ms = 1..n
    BY <2>2, <2>3
  <2>5. PlanOf(r, SetLAPIRAPIOrder(r.ms))
    BY <1>0, <2>4, PlanOfChain
  <2> QED
    BY <2>1, <2>5
<1> QED
  BY <1>00, <1>1, <1>2, <1>3, <1>4, <1>5, <1>6, <1>7, <1>8, <1>9, <1>10, <1>11, <1>12

----------------------------------------------------------------------------
(* The definitions.                                                         *)

DefinitionsInv ==
  /\ plan = [o \in Operators |-> plan[o]] /\ asked = [o \in Operators |-> asked[o]]
  /\ backend = "local" => /\ Sound(tables)
                          /\ \A o \in Operators : PlanOf(asked[o], plan[o])

\* At first nothing is asked, and the rows refer to rows there are.
LEMMA DefinitionsInvInit == DefinitionsInit => DefinitionsInv
<1> SUFFICES ASSUME DefinitionsInit PROVE DefinitionsInv
  OBVIOUS
<1>1. plan = [o \in Operators |-> plan[o]] /\ asked = [o \in Operators |-> asked[o]]
  BY DEF DefinitionsInit
<1>2. ASSUME backend = "local" PROVE Sound(tables)
  <2>1. /\ tables \in Tables
        /\ \A k \in Creds : tables.home[k] # Nil => k \in tables.used
        /\ \A m \in Models : tables.at[m] # Nil => m \in tables.used
        /\ \A b \in tables.bound : tables.at[b[1]] # Nil /\ tables.home[b[2]] # Nil
    BY FirstRowsAssumption DEF DefinitionsInit
  <2>2. Cardinality(Models) \in Nat
    BY DefinitionsAssumption, FS_CardinalityType
  <2>3. Places \subseteq Int
    BY <2>2 DEF Places
  <2>4. tables \in TableRows
    BY <2>1, <2>3 DEF Tables, TableRows
  <2>5. Derived(tables)
    BY <1>2 DEF DefinitionsInit
  <2>6. ASSUME NEW m \in Models, NEW k \in Creds, <<m, k>> \in tables.bound
        PROVE  tables.at[m] # Nil /\ tables.home[k] = tables.at[m]
    <3>1. tables.at[m] # Nil
      BY <2>1, <2>6
    <3>2. k \in Bound(tables, m)
      BY <2>6 DEF Bound
    <3>3. k \in KeysAt(tables, tables.at[m])
      BY <2>5, <3>2 DEF Derived
    <3> QED
      BY <3>1, <3>3 DEF KeysAt
  <2>7. \A m \in Models : tables.column[m] = Bound(tables, m)
    BY <2>5 DEF Derived
  <2> QED
    BY <2>1, <2>4, <2>6, <2>7 DEF Sound, SoundBut
<1>3. ASSUME NEW o \in Operators PROVE PlanOf(asked[o], plan[o])
  <2>1. plan[o] = <<>>
    BY DEF DefinitionsInit
  <2> QED
    BY <2>1, PlanOfFew
<1> QED
  BY <1>1, <1>2, <1>3 DEF DefinitionsInv

\* One operator's request and plan change, the others' do not.
LEMMA OneOperator ==
  ASSUME DefinitionsInv, NEW o \in Operators, NEW r, NEW rest,
         asked' = [asked EXCEPT ![o] = r], plan' = [plan EXCEPT ![o] = rest],
         backend' = backend, backend = "local" => Sound(tables)' /\ PlanOf(r, rest)
  PROVE  DefinitionsInv'
<1>1. /\ plan' = [q \in Operators |-> IF q = o THEN rest ELSE plan[q]]
      /\ asked' = [q \in Operators |-> IF q = o THEN r ELSE asked[q]]
  BY DEF DefinitionsInv
<1>2. ASSUME backend = "local", NEW q \in Operators PROVE PlanOf(asked'[q], plan'[q])
  <2>1. CASE q = o
    BY <1>1, <1>2, <2>1
  <2>2. CASE q # o
    BY <1>1, <1>2, <2>2 DEF DefinitionsInv
  <2> QED
    BY <2>1, <2>2
<1>3. plan' = [q \in Operators |-> plan'[q]] /\ asked' = [q \in Operators |-> asked'[q]]
  BY <1>1
<1> QED
  BY <1>2, <1>3 DEF DefinitionsInv

\* A request begins with the plan of its handler.
LEMMA RequestStep == ASSUME DefinitionsInv, NEW o \in Operators, Request(o) PROVE DefinitionsInv'
<1>1. PICK r \in Requests : asked' = [asked EXCEPT ![o] = r] /\ plan' = [plan EXCEPT ![o] = Handler(r)]
  BY DEF Request
<1>2. backend' = backend /\ tables' = tables
  BY DEF Request
<1>3. ASSUME backend = "local" PROVE Sound(tables)' /\ PlanOf(r, Handler(r))
  BY <1>2, <1>3, HandlerIs DEF DefinitionsInv
<1> QED
  BY <1>1, <1>2, <1>3, OneOperator

\* What asks to read on is replaced by what was read.
LEMMA ReadStep == ASSUME DefinitionsInv, NEW o \in Operators, Read(o) PROVE DefinitionsInv'
<1> DEFINE s == Head(Head(plan[o]))
           found == IF s.op = "map" THEN MapToRoute(tables, s.m) ELSE ToggleModels(tables, s.p, s.on)
           rest == found \o Tail(plan[o])
<1>1. /\ plan[o] # <<>> /\ s.op \in {"map", "toggle models"}
      /\ plan' = [plan EXCEPT ![o] = rest]
      /\ asked' = asked /\ backend' = backend /\ tables' = tables
  BY DEF Read, ReadsNext, ReadOn, DefinitionsInv
<1>2. asked' = [asked EXCEPT ![o] = asked[o]]
  BY <1>1 DEF DefinitionsInv
<1>3. ASSUME backend = "local" PROVE Sound(tables)' /\ PlanOf(asked[o], rest)
  <2>1. Sound(tables) /\ PlanOf(asked[o], plan[o]) /\ tables \in TableRows
    BY <1>3 DEF DefinitionsInv, Sound, SoundBut
  <2>2. OfHandler(asked[o], Head(plan[o])) /\ PlanOf(asked[o], Tail(plan[o]))
    BY <1>1, <2>1, PlanGoesOn
  <2>3. s.op = "toggle models" => s.on \in BOOLEAN
    <3> DEFINE b == Head(plan[o])
    <3>1. OfHandler(asked[o], b) /\ Head(b).op \in {"map", "toggle models"}
      BY <1>1, <2>2
    <3> HIDE DEF b
    <3>2. CASE \E x \in Statements \cup Readings : b = <<x>>
      <4>1. PICK x \in Statements \cup Readings : b = <<x>>
        BY <3>2
      <4>2. Head(b) = x
        BY <4>1
      <4> QED
        BY <3>1, <4>2 DEF Statements, Readings, b
    <3>3. CASE \E m \in Models, p \in Platforms, keys \in SUBSET Creds :
                 b = <<[op |-> "insert rapi", m |-> m, p |-> p],
                       [op |-> "sync bindings", m |-> m, p |-> p, keys |-> keys]>>
      <4>1. Head(b).op = "insert rapi"
        <5>1. PICK m \in Models, p \in Platforms, keys \in SUBSET Creds :
                b = <<[op |-> "insert rapi", m |-> m, p |-> p],
                      [op |-> "sync bindings", m |-> m, p |-> p, keys |-> keys]>>
          BY <3>3
        <5> DEFINE row == [op |-> "insert rapi", m |-> m, p |-> p]
                   sync == [op |-> "sync bindings", m |-> m, p |-> p, keys |-> keys]
        <5>2. b = <<row, sync>> /\ row.op = "insert rapi"
          BY <5>1
        <5> HIDE DEF row, sync
        <5>3. Head(<<row, sync>>) = row
          BY HeadOf
        <5> QED
          BY <5>2, <5>3
      <4> QED
        BY <3>1, <4>1
    <3>4. CASE \E m \in Models, p \in Platforms, keys \in SUBSET Creds, on \in BOOLEAN :
                 b = <<[op |-> "update rapi", m |-> m, p |-> p, on |-> on],
                       [op |-> "sync bindings", m |-> m, p |-> p, keys |-> keys]>>
      <4>1. Head(b).op = "update rapi"
        <5>1. PICK m \in Models, p \in Platforms, keys \in SUBSET Creds, on \in BOOLEAN :
                b = <<[op |-> "update rapi", m |-> m, p |-> p, on |-> on],
                      [op |-> "sync bindings", m |-> m, p |-> p, keys |-> keys]>>
          BY <3>4
        <5> DEFINE row == [op |-> "update rapi", m |-> m, p |-> p, on |-> on]
                   sync == [op |-> "sync bindings", m |-> m, p |-> p, keys |-> keys]
        <5>2. b = <<row, sync>> /\ row.op = "update rapi"
          BY <5>1
        <5> HIDE DEF row, sync
        <5>3. Head(<<row, sync>>) = row
          BY HeadOf
        <5> QED
          BY <5>2, <5>3
      <4> QED
        BY <3>1, <4>1
    <3>5. CASE b # <<>> /\ \E S : b \in Seq(S) /\ \A x \in S : OfChain(x)
      <4>1. OfChain(Head(b))
        BY <3>5
      <4> QED
        BY <3>1, <4>1 DEF OfChain
    <3> QED
      BY <3>1, <3>2, <3>3, <3>4, <3>5 DEF OfHandler
  <2>4. PlanOf(asked[o], found)
    <3>1. CASE s.op = "map"
      BY <1>3, <2>1, <3>1, PlanOfMapping
    <3>2. CASE s.op = "toggle models"
      BY <1>3, <2>1, <2>3, <3>2, PlanOfToggle
    <3> QED
      BY <1>1, <3>1, <3>2
  <2> HIDE DEF found
  <2>5. PlanOf(asked[o], rest)
    BY <2>2, <2>4, PlanJoined
  <2> QED
    BY <1>1, <2>1, <2>5
<1> HIDE DEF rest
<1> QED
  BY <1>1, <1>2, <1>3, OneOperator

\* What cannot be read is left out.
LEMMA MisreadStep == ASSUME DefinitionsInv, NEW o \in Operators, Misread(o) PROVE DefinitionsInv'
<1> DEFINE rest == Tail(plan[o])
<1>1. /\ plan[o] # <<>> /\ plan' = [plan EXCEPT ![o] = rest]
      /\ asked' = asked /\ backend' = backend /\ tables' = tables
  BY DEF Misread, ReadsNext, DefinitionsInv
<1>2. asked' = [asked EXCEPT ![o] = asked[o]]
  BY <1>1 DEF DefinitionsInv
<1>3. ASSUME backend = "local" PROVE Sound(tables)' /\ PlanOf(asked[o], rest)
  <2>1. Sound(tables) /\ PlanOf(asked[o], plan[o])
    BY <1>3 DEF DefinitionsInv
  <2>2. PlanOf(asked[o], rest)
    BY <1>1, <2>1, PlanGoesOn
  <2> QED
    BY <1>1, <2>1, <2>2
<1> HIDE DEF rest
<1> QED
  BY <1>1, <1>2, <1>3, OneOperator

\* A batch that runs leaves sound tables, and gives the keys it was asked to give.
LEMMA RunsKeeps ==
  ASSUME DefinitionsInv, NEW o \in Operators, Runs(o), backend = "local"
  PROVE  /\ Sound(tables)' /\ PlanOf(asked[o], Tail(plan[o])) /\ plan'[o] # plan[o]
         /\ \A m \in Models : Modest(tables, tables', m, Named(asked[o], m))
<1>1. plan[o] # <<>> /\ Head(Head(plan[o])).op \notin {"map", "toggle models"}
  BY DEF Runs, Pending, ReadsNext
<1>2. tables' = Applied(tables, Head(plan[o])) /\ Applied(tables, Head(plan[o])) # Violated
  BY DEF Runs, Result
<1>3. Sound(tables) /\ PlanOf(asked[o], plan[o])
  BY DEF DefinitionsInv
<1>4. /\ OfHandler(asked[o], Head(plan[o])) /\ PlanOf(asked[o], Tail(plan[o]))
      /\ Tail(plan[o]) # plan[o]
  BY <1>1, <1>3, PlanGoesOn
<1>5. plan'[o] = Tail(plan[o])
  BY DEF Runs, DefinitionsInv
<1> DEFINE b == Head(plan[o])
           u == Applied(tables, b)
<1>6. Head(b).op \notin {"map", "toggle models"}
  BY <1>1
<1> HIDE DEF b
<1>7. Sound(u) /\ \A m \in Models : Modest(tables, u, m, Named(asked[o], m))
  BY <1>2, <1>3, <1>4, <1>6, BatchKeeps DEF b
<1>8. tables' = u
  BY <1>2 DEF b
<1> HIDE DEF u
<1> QED
  BY <1>4, <1>5, <1>7, <1>8

\* A batch runs, and the handler goes on.
LEMMA RunsStep == ASSUME DefinitionsInv, NEW o \in Operators, Runs(o) PROVE DefinitionsInv'
<1> DEFINE rest == Tail(plan[o])
<1>1. plan' = [plan EXCEPT ![o] = rest] /\ asked' = asked /\ backend' = backend
  BY DEF Runs, DefinitionsInv
<1>2. asked' = [asked EXCEPT ![o] = asked[o]]
  BY <1>1 DEF DefinitionsInv
<1>3. ASSUME backend = "local" PROVE Sound(tables)' /\ PlanOf(asked[o], rest)
  BY <1>3, RunsKeeps
<1> HIDE DEF rest
<1> QED
  BY <1>1, <1>2, <1>3, OneOperator

\* A handler gives up.
LEMMA GivesUpStep == ASSUME DefinitionsInv, NEW o \in Operators, GivesUp(o) PROVE DefinitionsInv'
<1>1. plan' = [plan EXCEPT ![o] = <<>>] /\ asked' = asked /\ backend' = backend /\ tables' = tables
  BY DEF GivesUp
<1>2. asked' = [asked EXCEPT ![o] = asked[o]]
  BY <1>1 DEF DefinitionsInv
<1>3. ASSUME backend = "local" PROVE Sound(tables)' /\ PlanOf(asked[o], <<>>)
  BY <1>1, <1>3, PlanOfFew DEF DefinitionsInv
<1> QED
  BY <1>1, <1>2, <1>3, OneOperator

\* An answer is lost in the center only.
LEMMA AnswerLostStep ==
  ASSUME DefinitionsInv, NEW o \in Operators, AnswerLost(o) PROVE DefinitionsInv'
<1>1. /\ plan' = [plan EXCEPT ![o] = <<>>] /\ asked' = asked /\ backend' = backend
      /\ backend # "local"
  BY DEF AnswerLost
<1>2. asked' = [asked EXCEPT ![o] = asked[o]]
  BY <1>1 DEF DefinitionsInv
<1>3. backend = "local" => Sound(tables)' /\ PlanOf(asked[o], <<>>)
  BY <1>1
<1> QED
  BY <1>1, <1>2, <1>3, OneOperator

\* Every step keeps the invariant.
LEMMA DefinitionsInvNext ==
  DefinitionsInv /\ [DefinitionsNext]_definitionVars => DefinitionsInv'
<1> SUFFICES ASSUME DefinitionsInv, [DefinitionsNext]_definitionVars PROVE DefinitionsInv'
  OBVIOUS
<1>1. CASE DefinitionsNext
  BY <1>1, RequestStep, ReadStep, MisreadStep, RunsStep, GivesUpStep, AnswerLostStep
     DEF DefinitionsNext
<1>2. CASE UNCHANGED definitionVars
  BY <1>2 DEF definitionVars, DefinitionsInv
<1> QED
  BY <1>1, <1>2

\* The inductive invariant: what the local store holds is sound, and what the
\* operators' handlers have yet to do is of their requests.
THEOREM DefinitionsInvariant == DefinitionsSpec => []DefinitionsInv
BY DefinitionsInvInit, DefinitionsInvNext, PTL DEF DefinitionsSpec

\* In the local store rapi.key_ids is what the bindings are, and no model is bound
\* to a key of another platform, whatever operators do at the same time and
\* whichever of their transactions fail.
THEOREM PoolsAlwaysDerived == DefinitionsSpec => []PoolsDerived
<1>1. DefinitionsInv => PoolsDerived
  <2> SUFFICES ASSUME DefinitionsInv, backend = "local", NEW m \in Models
               PROVE  /\ tables.column[m] = Bound(tables, m)
                      /\ Bound(tables, m) \subseteq KeysAt(tables, tables.at[m])
    BY DEF PoolsDerived, Derived
  <2>1. SoundBut(tables, {})
    BY DEF DefinitionsInv, Sound
  <2> QED
    BY <2>1 DEF SoundBut, Bound, KeysAt
<1> QED
  BY <1>1, DefinitionsInvariant, PTL

\* A model's keys in the local store grow by new ones, and by those its own form
\* names, or else its whitelist has just become empty.
THEOREM PoolsGrowByConsent == DefinitionsSpec => PoolGrowsByConsent
<1> DEFINE Consent == backend = "local" =>
             \A m \in Rows(tables) \cap Rows(tables') : Gains(m) # {} => tables'.column[m] = {}
<1>1. DefinitionsInv /\ [DefinitionsNext]_definitionVars => [Consent]_definitionVars
  <2> SUFFICES ASSUME DefinitionsInv, DefinitionsNext, backend = "local",
                      NEW m \in Rows(tables) \cap Rows(tables'), tables'.column[m] # {}
               PROVE  Gains(m) = {}
    OBVIOUS
  <2>1. m \in Models /\ Sound(tables)
    BY DEF Rows, DefinitionsInv
  <2>2. CASE tables' = tables
    BY <2>2 DEF Gains
  <2>3. ASSUME NEW o \in Operators, Runs(o) PROVE Gains(m) = {}
    <3>1. /\ Sound(tables)' /\ plan'[o] # plan[o]
          /\ Modest(tables, tables', m, Named(asked[o], m))
      BY <2>1, <2>3, RunsKeeps
    <3>2. Bound(tables', m) \subseteq
            Bound(tables, m) \cup (tables'.used \ tables.used) \cup Named(asked[o], m)
      BY <3>1 DEF Modest
    <3>3. Given(o, m) = Named(asked[o], m)
      BY <3>1 DEF Given, Named
    <3>4. tables'.column[m] = Bound(tables', m) /\ tables.column[m] = Bound(tables, m)
      BY <2>1, <3>1 DEF Sound, SoundBut
    <3>5. PoolOf(tables', m) \subseteq Bound(tables', m)
      BY <3>4 DEF PoolOf, KeyIDs
    <3>6. Bound(tables, m) \subseteq PoolOf(tables, m)
      BY <2>1, <3>4 DEF PoolOf, KeyIDs, Sound, SoundBut, Bound, KeysAt
    <3> QED
      BY <3>2, <3>3, <3>5, <3>6 DEF Gains
  <2>4. CASE \E o \in Operators : Request(o) \/ Read(o) \/ Misread(o) \/ GivesUp(o)
    <3>1. tables' = tables
      BY <2>4 DEF Request, Read, Misread, GivesUp
    <3> QED
      BY <2>2, <3>1
  <2>5. CASE \E o \in Operators : AnswerLost(o)
    BY <2>5 DEF AnswerLost
  <2> QED
    BY <2>3, <2>4, <2>5 DEF DefinitionsNext
<1>2. DefinitionsSpec => [][Consent]_definitionVars
  BY <1>1, DefinitionsInvariant, PTL DEF DefinitionsSpec
<1> QED
  BY <1>2 DEF PoolGrowsByConsent

----------------------------------------------------------------------------
(* The store stays the one it was.                                          *)

\* The keys a row names are read off the tables, in the store there is.
LEMMA KeyIDsRigid ==
  ASSUME NEW t, NEW m, backend' = backend
  PROVE  KeyIDs(t, m)' = KeyIDs(t, m)
BY DEF KeyIDs, Bound

\* So is a pool.
LEMMA PoolOfRigid ==
  ASSUME NEW t, NEW m, backend' = backend
  PROVE  PoolOf(t, m)' = PoolOf(t, m)
BY KeyIDsRigid DEF PoolOf, KeysAt

\* A statement does the same whenever it is executed, in the store there is.
LEMMA ApplyRigid ==
  ASSUME NEW t, NEW s, backend' = backend
  PROVE  Apply(t, s)' = Apply(t, s)
<1>1. \A k : Detach(t, k)' = Detach(t, k)
  BY DEF Detach, Refreshed, Bound
<1>2. \A k : DeleteKeyRow(t, k)' = DeleteKeyRow(t, k)
  BY DEF DeleteKeyRow
<1> QED
  BY <1>1, <1>2 DEF Apply

\* So does a batch.
LEMMA AppliedRigid ==
  ASSUME NEW t, NEW b, backend' = backend
  PROVE  Applied(t, b)' = Applied(t, b)
<1>1. \A u, s : Apply(u, s)' = Apply(u, s)
  BY ApplyRigid
<1> QED
  BY <1>1 DEF Applied

----------------------------------------------------------------------------
(* Chains.                                                                  *)

\* The tables of either store: ids in use were given out, and a chain has one
\* place for each of its models, which are there.
Whole(t) ==
  /\ t \in Tables
  /\ \A k \in Creds : t.home[k] # Nil => k \in t.used
  /\ \A m \in Models : t.at[m] # Nil => m \in t.used
  /\ \A x \in t.order : t.at[x[2]] # Nil
  /\ \A x, y \in t.order : x[1] = y[1] <=> x[2] = y[2]

\* The models on the chain, their places, and those before one.
OnChain(t) == {x[2] : x \in t.order}
PlaceOf(t, m) == CHOOSE i \in Places : <<i, m>> \in t.order
EarlierOn(t, m) == {n \in OnChain(t) : PlaceOf(t, n) < PlaceOf(t, m)}

\* What is listed of a finite set is all of it, each once.
LEMMA Enumerated ==
  ASSUME NEW S, IsFiniteSet(S)
  PROVE  /\ Cardinality(S) \in Nat
         /\ SetToSeq(S) \in [1..Cardinality(S) -> S]
         /\ \A i, j \in 1..Cardinality(S) : SetToSeq(S)[i] = SetToSeq(S)[j] => i = j
         /\ \A x \in S : \E i \in 1..Cardinality(S) : SetToSeq(S)[i] = x
<1> DEFINE n == Cardinality(S)
           q == SetToSeq(S)
<1>1. n \in Nat /\ ExistsBijection(1..n, S)
  BY FS_CardinalityType
<1>2. \E f \in [1..n -> S] : IsInjective(f)
  BY <1>1 DEF ExistsBijection, Bijection, Injection, IsInjective
<1>3. q \in [1..n -> S] /\ IsInjective(q)
  BY <1>2 DEF SetToSeq
<1> HIDE DEF q, n
<1>4. q \in Injection(1..n, S)
  BY <1>3 DEF Injection, IsInjective
<1>5. Cardinality(1..n) = n
  BY <1>1, FS_Interval
<1>6. q \in Surjection(1..n, S)
  BY <1>4, <1>5, FS_Injection DEF n
<1>7. \A x \in S : \E i \in 1..n : q[i] = x
  BY <1>6 DEF Surjection
<1>8. \A i, j \in 1..n : q[i] = q[j] => i = j
  BY <1>3 DEF IsInjective
<1> QED
  BY <1>1, <1>3, <1>7, <1>8 DEF n, q

\* A list without repetitions has as many members as entries.
LEMMA EachOnce ==
  ASSUME NEW n \in Nat, NEW f, \A i, j \in 1..n : f[i] = f[j] => i = j,
         NEW S, S = {f[i] : i \in 1..n}
  PROVE  IsFiniteSet(S) /\ Cardinality(S) = n
<1> DEFINE g == [i \in 1..n |-> f[i]]
<1>1. g \in [1..n -> S] /\ (\A i, j \in 1..n : g[i] = g[j] => i = j)
      /\ \A x \in S : \E i \in 1..n : g[i] = x
  OBVIOUS
<1> HIDE DEF g
<1>2. g \in Bijection(1..n, S)
  BY <1>1 DEF Bijection, Injection, Surjection, IsInjective
<1>3. ExistsBijection(1..n, S)
  BY <1>2 DEF ExistsBijection
<1> QED
  BY <1>3, FS_CountingElements, FS_NatBijection

\* Each entry of the chain is the place of its model, and no two share one.
LEMMA PlaceIs ==
  ASSUME NEW t, Whole(t)
  PROVE  /\ \A x \in t.order : x[1] \in Places /\ x[2] \in Models /\ PlaceOf(t, x[2]) = x[1]
         /\ \A m \in OnChain(t) :
              /\ m \in Models /\ PlaceOf(t, m) \in Places
              /\ <<PlaceOf(t, m), m>> \in t.order
         /\ \A m, k \in OnChain(t) : PlaceOf(t, m) = PlaceOf(t, k) => m = k
<1>1. \A x \in t.order : x = <<x[1], x[2]>> /\ x[1] \in Places /\ x[2] \in Models
  BY DEF Whole, Tables
<1>2. ASSUME NEW x \in t.order PROVE PlaceOf(t, x[2]) = x[1]
  <2>1. x[1] \in Places /\ <<x[1], x[2]>> \in t.order
    BY <1>1, <1>2
  <2>2. <<PlaceOf(t, x[2]), x[2]>> \in t.order
    BY <2>1 DEF PlaceOf
  <2>3. <<PlaceOf(t, x[2]), x[2]>>[2] = x[2] => <<PlaceOf(t, x[2]), x[2]>>[1] = x[1]
    BY <2>2 DEF Whole
  <2> QED
    BY <2>3
<1>3. ASSUME NEW m \in OnChain(t)
      PROVE  m \in Models /\ PlaceOf(t, m) \in Places /\ <<PlaceOf(t, m), m>> \in t.order
  <2>1. PICK x \in t.order : m = x[2]
    BY <1>3 DEF OnChain
  <2>2. x[1] \in Places /\ m \in Models /\ <<x[1], m>> \in t.order /\ PlaceOf(t, m) = x[1]
    BY <1>1, <1>2, <2>1
  <2> QED
    BY <2>2
<1>4. ASSUME NEW m \in OnChain(t), NEW k \in OnChain(t), PlaceOf(t, m) = PlaceOf(t, k) PROVE m = k
  <2> DEFINE x == <<PlaceOf(t, m), m>>
             y == <<PlaceOf(t, k), k>>
  <2>1. x \in t.order /\ y \in t.order /\ x[1] = y[1] /\ x[2] = m /\ y[2] = k
    BY <1>3, <1>4
  <2> HIDE DEF x, y
  <2> QED
    BY <2>1 DEF Whole
<1> QED
  BY <1>1, <1>2, <1>3, <1>4

\* The models on the chain are counted by how many are before them.
LEMMA RankIs ==
  ASSUME NEW t, Whole(t)
  PROVE  /\ IsFiniteSet(OnChain(t)) /\ Cardinality(OnChain(t)) \in Nat
         /\ \A m \in OnChain(t) : Cardinality(EarlierOn(t, m)) \in 0..(Cardinality(OnChain(t)) - 1)
         /\ \A m, k \in OnChain(t) : Cardinality(EarlierOn(t, m)) = Cardinality(EarlierOn(t, k)) => m = k
         /\ \A i \in 0..(Cardinality(OnChain(t)) - 1) :
              \E m \in OnChain(t) : Cardinality(EarlierOn(t, m)) = i
<1> DEFINE C == OnChain(t)
           n == Cardinality(C)
           rank(m) == Cardinality(EarlierOn(t, m))
<1>1. C \subseteq Models
  BY PlaceIs
<1>2. IsFiniteSet(C) /\ n \in Nat
  BY <1>1, DefinitionsAssumption, FS_Subset, FS_CardinalityType
<1>3. Places \subseteq Int
  BY DEF Places
<1>4. ASSUME NEW m \in C, NEW k \in C, PlaceOf(t, m) < PlaceOf(t, k)
      PROVE  rank(m) < rank(k)
  <2>0. \A x \in C : PlaceOf(t, x) \in Int
    BY <1>3, PlaceIs
  <2>1. EarlierOn(t, m) \subseteq EarlierOn(t, k) /\ m \in EarlierOn(t, k) /\ m \notin EarlierOn(t, m)
    <3> HIDE DEF C
    <3>1. \A x : x \in EarlierOn(t, m) <=> x \in C /\ PlaceOf(t, x) < PlaceOf(t, m)
      BY DEF EarlierOn, C
    <3>2. \A x : x \in EarlierOn(t, k) <=> x \in C /\ PlaceOf(t, x) < PlaceOf(t, k)
      BY DEF EarlierOn, C
    <3>3. \A x \in C : PlaceOf(t, x) < PlaceOf(t, m) => PlaceOf(t, x) < PlaceOf(t, k)
      BY <1>4, <2>0
    <3>4. ~(PlaceOf(t, m) < PlaceOf(t, m))
      BY <2>0
    <3> QED
      BY <1>4, <3>1, <3>2, <3>3, <3>4
  <2>2. EarlierOn(t, k) \subseteq C
    BY DEF EarlierOn
  <2>3. IsFiniteSet(EarlierOn(t, k))
    BY <1>2, <2>2, FS_Subset
  <2>4. Cardinality(EarlierOn(t, m)) <= Cardinality(EarlierOn(t, k))
        /\ Cardinality(EarlierOn(t, m)) # Cardinality(EarlierOn(t, k))
        /\ IsFiniteSet(EarlierOn(t, m))
    BY <2>1, <2>3, FS_Subset
  <2>5. Cardinality(EarlierOn(t, m)) \in Nat /\ Cardinality(EarlierOn(t, k)) \in Nat
    BY <2>3, <2>4, FS_CardinalityType
  <2> QED
    BY <2>4, <2>5
<1>5. ASSUME NEW m \in C, NEW k \in C, rank(m) = rank(k) PROVE m = k
  <2>1. PlaceOf(t, m) \in Int /\ PlaceOf(t, k) \in Int
    BY <1>3, PlaceIs
  <2>2. ~(PlaceOf(t, m) < PlaceOf(t, k)) /\ ~(PlaceOf(t, k) < PlaceOf(t, m))
    <3>1. ASSUME PlaceOf(t, m) < PlaceOf(t, k) PROVE FALSE
      <4>1. rank(m) < rank(k)
        BY <1>4, <3>1
      <4>2. rank(m) \in Nat
        <5>1. IsFiniteSet(EarlierOn(t, m))
          BY <1>2, FS_Subset DEF EarlierOn
        <5> QED
          BY <5>1, FS_CardinalityType
      <4> QED
        BY <1>5, <4>1, <4>2
    <3>2. ASSUME PlaceOf(t, k) < PlaceOf(t, m) PROVE FALSE
      <4>1. rank(k) < rank(m)
        BY <1>4, <3>2
      <4>2. rank(m) \in Nat
        <5>1. IsFiniteSet(EarlierOn(t, m))
          BY <1>2, FS_Subset DEF EarlierOn
        <5> QED
          BY <5>1, FS_CardinalityType
      <4> QED
        BY <1>5, <4>1, <4>2
    <3> QED
      BY <3>1, <3>2
  <2>3. PlaceOf(t, m) = PlaceOf(t, k)
    BY <2>1, <2>2
  <2> QED
    BY <2>3, PlaceIs
<1>6. ASSUME NEW m \in C PROVE rank(m) \in 0..(n - 1)
  <2>0. PlaceOf(t, m) \in Int
    BY <1>3, PlaceIs
  <2>1. EarlierOn(t, m) \subseteq C /\ m \notin EarlierOn(t, m)
    BY <2>0 DEF EarlierOn
  <2>2. /\ Cardinality(EarlierOn(t, m)) <= n /\ Cardinality(EarlierOn(t, m)) # n
        /\ IsFiniteSet(EarlierOn(t, m))
    BY <1>2, <1>6, <2>1, FS_Subset
  <2>3. Cardinality(EarlierOn(t, m)) \in Nat
    BY <2>2, FS_CardinalityType
  <2> QED
    BY <1>2, <2>2, <2>3
<1>7. \A i \in 0..(n - 1) : \E m \in C : rank(m) = i
  <2> DEFINE f == [m \in C |-> rank(m)]
             N == 0..(n - 1)
  <2>1. f \in Injection(C, N)
    <3>1. f \in [C -> N]
      BY <1>6
    <3>2. \A a, b \in C : f[a] = f[b] => a = b
      BY <1>5
    <3>3. DOMAIN f = C
      OBVIOUS
    <3> HIDE DEF f, N, C
    <3> QED
      BY <3>1, <3>2, <3>3 DEF Injection, IsInjective
  <2>2. IsFiniteSet(N) /\ Cardinality(N) = n
    BY <1>2, FS_Interval
  <2>3. \A m \in C : f[m] = rank(m)
    OBVIOUS
  <2> HIDE DEF f, N, C
  <2>4. f \in Surjection(C, N)
    BY <2>1, <2>2, FS_Injection
  <2> QED
    BY <2>3, <2>4 DEF Surjection, N
<1> QED
  BY <1>2, <1>5, <1>6, <1>7

\* The chain lists the models that are on it, each once.
LEMMA ChainIs ==
  ASSUME NEW t, Whole(t)
  PROVE  /\ Cardinality(OnChain(t)) \in Nat
         /\ Chain(t) \in [1..Cardinality(OnChain(t)) -> OnChain(t)]
         /\ Range(Chain(t)) = OnChain(t)
         /\ \A i, j \in 1..Cardinality(OnChain(t)) : Chain(t)[i] = Chain(t)[j] => i = j
<1> DEFINE C == OnChain(t)
           n == Cardinality(C)
           nth(i) == CHOOSE m \in C : Cardinality(EarlierOn(t, m)) = i - 1
           c == Chain(t)
<1>1. c = [i \in 1..n |-> nth(i)]
  BY DEF Chain, OnChain, EarlierOn, PlaceOf
<1>2. n \in Nat
  BY RankIs
<1>3. ASSUME NEW i \in 1..n PROVE nth(i) \in C /\ Cardinality(EarlierOn(t, nth(i))) = i - 1
  <2>1. i - 1 \in 0..(n - 1)
    BY <1>2
  <2>2. \E m \in C : Cardinality(EarlierOn(t, m)) = i - 1
    BY <2>1, RankIs
  <2> QED
    BY <2>2
<1> HIDE DEF nth, c
<1>4. c \in [1..n -> C] /\ \A i \in 1..n : Cardinality(EarlierOn(t, c[i])) = i - 1
  BY <1>1, <1>3
<1>5. ASSUME NEW m \in C PROVE \E i \in 1..n : c[i] = m
  <2> DEFINE i == Cardinality(EarlierOn(t, m)) + 1
  <2>1. i \in 1..n /\ i - 1 = Cardinality(EarlierOn(t, m))
    <3>1. Cardinality(EarlierOn(t, m)) \in 0..(n - 1)
      BY RankIs
    <3> QED
      BY <1>2, <3>1
  <2> HIDE DEF i
  <2>2. c[i] \in C /\ Cardinality(EarlierOn(t, c[i])) = Cardinality(EarlierOn(t, m))
    BY <1>4, <2>1
  <2>3. c[i] = m
    BY <2>2, RankIs
  <2> QED
    BY <2>1, <2>3
<1>6. ASSUME NEW i \in 1..n, NEW j \in 1..n, c[i] = c[j] PROVE i = j
  <2>1. i - 1 = j - 1
    BY <1>4, <1>6
  <2> QED
    BY <2>1
<1>7. Range(c) = C
  BY <1>4, <1>5 DEF Range
<1> QED
  BY <1>2, <1>4, <1>6, <1>7 DEF c

\* A chain that was written entry by entry.
LEMMA ChainAsWritten ==
  ASSUME NEW t, Whole(t), NEW n \in Nat, NEW c \in [1..n -> Models],
         \A i, j \in 1..n : c[i] = c[j] => i = j,
         t.order = {<<i - 1, c[i]>> : i \in 1..n}
  PROVE  Chain(t) = c
<1> DEFINE C == OnChain(t)
           nth(i) == CHOOSE m \in C : Cardinality(EarlierOn(t, m)) = i - 1
<1>1. C = {c[i] : i \in 1..n}
  <2>1. ASSUME NEW m \in C PROVE \E i \in 1..n : m = c[i]
    <3>1. PICK x \in t.order : m = x[2]
      BY <2>1 DEF OnChain
    <3>2. PICK i \in 1..n : x = <<i - 1, c[i]>>
      OBVIOUS
    <3> QED
      BY <3>1, <3>2
  <2>2. ASSUME NEW i \in 1..n PROVE c[i] \in C
    <3>1. <<i - 1, c[i]>> \in t.order
      BY <2>2
    <3>2. <<i - 1, c[i]>>[2] \in C
      BY <3>1 DEF OnChain
    <3> QED
      BY <3>2
  <2> HIDE DEF C
  <2> QED
    BY <2>1, <2>2
<1> HIDE DEF C
<1>2. Cardinality(C) = n
  BY <1>1, EachOnce
<1> USE DEF C
<1>3. ASSUME NEW i \in 1..n PROVE PlaceOf(t, c[i]) = i - 1
  <2>1. <<i - 1, c[i]>> \in t.order
    BY <1>3
  <2>2. PlaceOf(t, <<i - 1, c[i]>>[2]) = <<i - 1, c[i]>>[1]
    BY <2>1, PlaceIs
  <2> QED
    BY <2>2
<1>4. ASSUME NEW i \in 1..n PROVE Cardinality(EarlierOn(t, c[i])) = i - 1
  <2> DEFINE k == i - 1
  <2>1. k \in Nat /\ \A j \in 1..n : (j - 1 < k) <=> j \in 1..k
    BY <1>4
  <2>2. 1..k \subseteq 1..n
    BY <1>4
  <2>3. EarlierOn(t, c[i]) = {c[j] : j \in 1..k}
    BY <1>1, <1>3, <1>4, <2>1, <2>2 DEF EarlierOn
  <2>4. \A x, y \in 1..k : c[x] = c[y] => x = y
    BY <2>2
  <2> HIDE DEF k
  <2> DEFINE A == EarlierOn(t, c[i])
  <2>5. A = {c[j] : j \in 1..k}
    BY <2>3
  <2> HIDE DEF A
  <2>6. Cardinality(A) = k
    BY <2>1, <2>4, <2>5, EachOnce
  <2> QED
    BY <2>6 DEF k, A
<1>5. ASSUME NEW i \in 1..n PROVE nth(i) = c[i]
  <2>1. c[i] \in C /\ Cardinality(EarlierOn(t, c[i])) = i - 1
    BY <1>1, <1>4
  <2>2. \A m \in C : Cardinality(EarlierOn(t, m)) = i - 1 => m = c[i]
    BY <2>1, RankIs
  <2> QED
    BY <2>1, <2>2
<1>6. Chain(t) = [i \in 1..Cardinality(C) |-> nth(i)]
  BY DEF Chain, OnChain, EarlierOn, PlaceOf
<1> HIDE DEF nth, C
<1> QED
  BY <1>2, <1>5, <1>6

----------------------------------------------------------------------------
(* Statements in either store.                                              *)

\* The statements of the plans, but those of a chain.
ProperStatements ==
  Statements
  \cup [op : {"insert key", "delete keys"}, p : Platforms]
  \cup [op : {"insert rapi"}, m : Models, p : Platforms]
  \cup [op : {"update rapi"}, m : Models, p : Platforms, on : BOOLEAN]
  \cup [op : {"sync bindings"}, m : Models, p : Platforms, keys : SUBSET Creds]
  \cup [op : {"unbind rapi"}, m : Models]
  \cup [op : {"bind"}, m : Models, k : Creds]

\* And those: each model is put at a place there is.
IsStatement(s) ==
  s \in ProperStatements \/ s.op = "clear chain" \/ (s.op = "link" /\ s.i \in Places)

\* The fields of the tables.
LEMMA WholeFields ==
  ASSUME NEW t, Whole(t)
  PROVE  /\ t \in Tables /\ t \in TableRows /\ t # Violated
         /\ t.home \in [Creds -> Platforms \cup {Nil}]
         /\ t.at \in [Models -> Platforms \cup {Nil}]
         /\ t.bound \subseteq Models \X Creds
         /\ t.column \in [Models -> SUBSET Creds]
         /\ t.platforms \subseteq Platforms /\ t.order \subseteq Places \X Models
         /\ t.enabled \subseteq Platforms \cup Models \cup {Route}
         /\ t.used \subseteq Platforms \cup Creds \cup Models
<1>1. Places \subseteq Int
  BY DEF Places
<1>2. t \in Tables
  BY DEF Whole
<1>3. t \in TableRows
  BY <1>1, <1>2 DEF Tables, TableRows
<1>4. DOMAIN t # DOMAIN Violated
  BY <1>2 DEF Tables, Violated
<1>5. t # Violated
  BY <1>4
<1> QED
  BY <1>2, <1>3, <1>5 DEF Tables

\* Rows whose chain has shrunk at most.
LEMMA StillWhole ==
  ASSUME NEW t, Whole(t), NEW u, u \in TableRows, u.order \subseteq t.order,
         \A k \in Creds : u.home[k] # Nil => k \in u.used,
         \A m \in Models : u.at[m] # Nil => m \in u.used,
         \A x \in u.order : u.at[x[2]] # Nil
  PROVE  Whole(u)
<1>1. u.order \subseteq Places \X Models
  BY WholeFields
<1>2. u \in Tables
  BY <1>1 DEF Tables, TableRows
<1> QED
  BY <1>2 DEF Whole

\* What the operations on rows leave as it is.
LEMMA OthersAreKept ==
  ASSUME NEW t \in TableRows, NEW X
  PROVE  /\ Refreshed(t, X).order = t.order /\ Refreshed(t, X).enabled = t.enabled
         /\ Refreshed(t, X).platforms = t.platforms /\ Refreshed(t, X).route = t.route
         /\ WithoutKeys(t, X).order = t.order /\ WithoutKeys(t, X).enabled = t.enabled
         /\ WithoutKeys(t, X).platforms = t.platforms /\ WithoutKeys(t, X).route = t.route
         /\ WithoutModels(t, X).order = {x \in t.order : x[2] \notin X}
BY DEF TableRows, Refreshed, WithoutKeys, WithoutModels

\* Bindings are of models and keys, and the column follows them or stays.
LEMMA WholeBindings ==
  ASSUME NEW t, Whole(t), NEW b, b \subseteq Models \X Creds, NEW X
  PROVE  /\ Whole([t EXCEPT !.bound = b])
         /\ Whole(Refreshed([t EXCEPT !.bound = b], X))
         /\ Whole(Refreshed(t, X))
<1>1. t \in TableRows
  BY WholeFields
<1>2. ASSUME NEW u, Whole(u) PROVE Whole(Refreshed(u, X))
  <2> DEFINE v == Refreshed(u, X)
  <2>1. u \in TableRows
    BY <1>2, WholeFields
  <2>2. v \in TableRows /\ v.home = u.home /\ v.at = u.at /\ v.used = u.used /\ v.order = u.order
    BY <2>1, RefreshedIs, OthersAreKept
  <2> HIDE DEF v
  <2>3. Whole(v)
    <3>1. /\ \A k \in Creds : v.home[k] # Nil => k \in v.used
          /\ \A m \in Models : v.at[m] # Nil => m \in v.used
          /\ \A x \in v.order : v.at[x[2]] # Nil
      BY <1>2, <2>2 DEF Whole
    <3> QED
      BY <1>2, <2>2, <3>1, StillWhole
  <2> QED
    BY <2>3 DEF v
<1>3. Whole([t EXCEPT !.bound = b])
  <2> DEFINE v == [t EXCEPT !.bound = b]
  <2>1. /\ v \in TableRows /\ v.home = t.home /\ v.at = t.at
        /\ v.used = t.used /\ v.order = t.order
    BY <1>1 DEF TableRows
  <2> HIDE DEF v
  <2>2. Whole(v)
    <3>1. /\ \A k \in Creds : v.home[k] # Nil => k \in v.used
          /\ \A m \in Models : v.at[m] # Nil => m \in v.used
          /\ \A x \in v.order : v.at[x[2]] # Nil
      BY <2>1 DEF Whole
    <3> QED
      BY <2>1, <3>1, StillWhole
  <2> QED
    BY <2>2 DEF v
<1> QED
  BY <1>2, <1>3

\* Rows of keys go.
LEMMA WholeWithoutKeys ==
  ASSUME NEW t, Whole(t), NEW X
  PROVE  Whole(WithoutKeys(t, X))
<1> DEFINE v == WithoutKeys(t, X)
<1>1. t \in TableRows
  BY WholeFields
<1>2. /\ v \in TableRows /\ v.at = t.at /\ v.used = t.used /\ v.order = t.order
      /\ \A k \in Creds : v.home[k] = IF k \in X THEN Nil ELSE t.home[k]
  BY <1>1, WithoutKeysIs, OthersAreKept
<1> HIDE DEF v
<1>3. /\ \A k \in Creds : v.home[k] # Nil => k \in v.used
      /\ \A m \in Models : v.at[m] # Nil => m \in v.used
      /\ \A x \in v.order : v.at[x[2]] # Nil
  BY <1>2 DEF Whole
<1>4. Whole(v)
  BY <1>2, <1>3, StillWhole
<1> QED
  BY <1>4 DEF v

\* Rows of models go, and leave the chain.
LEMMA WholeWithoutModels ==
  ASSUME NEW t, Whole(t), NEW X
  PROVE  Whole(WithoutModels(t, X))
<1> DEFINE v == WithoutModels(t, X)
<1>1. t \in TableRows /\ t.order \subseteq Places \X Models
  BY WholeFields
<1>2. /\ v \in TableRows /\ v.home = t.home /\ v.used = t.used
      /\ v.order = {x \in t.order : x[2] \notin X}
      /\ \A m \in Models : v.at[m] = IF m \in X THEN Nil ELSE t.at[m]
  BY <1>1, WithoutModelsIs, OthersAreKept
<1> HIDE DEF v
<1>3. /\ \A k \in Creds : v.home[k] # Nil => k \in v.used
      /\ \A m \in Models : v.at[m] # Nil => m \in v.used
  BY <1>2 DEF Whole
<1>4. ASSUME NEW x \in v.order PROVE v.at[x[2]] # Nil
  <2>1. x \in t.order /\ x[2] \notin X /\ x[2] \in Models
    BY <1>1, <1>2
  <2> QED
    BY <1>2, <2>1 DEF Whole
<1>5. v.order \subseteq t.order
  BY <1>2
<1>6. Whole(v)
  BY <1>2, <1>3, <1>4, <1>5, StillWhole
<1> QED
  BY <1>6 DEF v

\* Rows of keys come, with ids that are given out for them.
LEMMA WholeWithNewKeys ==
  ASSUME NEW t, Whole(t), NEW X, X \subseteq Creds, NEW p \in Platforms,
         NEW b, b \subseteq Models \X Creds
  PROVE  /\ Whole([t EXCEPT !.home = [k \in Creds |-> IF k \in X THEN p ELSE t.home[k]],
                            !.used = t.used \cup X])
         /\ Whole([t EXCEPT !.home = [k \in Creds |-> IF k \in X THEN p ELSE t.home[k]],
                            !.used = t.used \cup X, !.bound = b])
<1> DEFINE h == [k \in Creds |-> IF k \in X THEN p ELSE t.home[k]]
           f == t.used \cup X
           v == [t EXCEPT !.home = h, !.used = f]
<1>1. t \in TableRows /\ t.home \in [Creds -> Platforms \cup {Nil}]
      /\ t.used \subseteq Platforms \cup Creds \cup Models
  BY WholeFields
<1>2. /\ h \in [Creds -> Platforms \cup {Nil}] /\ f \subseteq Platforms \cup Creds \cup Models
      /\ \A k \in Creds : h[k] # Nil => k \in f
  BY <1>1 DEF Whole
<1>3. t.used \subseteq f
  OBVIOUS
<1> HIDE DEF h, f
<1>4. v \in TableRows /\ v.home = h /\ v.used = f /\ v.at = t.at /\ v.order = t.order
  BY <1>1, <1>2 DEF TableRows
<1>5. [t EXCEPT !.home = h, !.used = f, !.bound = b] = [v EXCEPT !.bound = b]
  BY <1>1 DEF TableRows
<1> HIDE DEF v
<1>6. /\ \A k \in Creds : v.home[k] # Nil => k \in v.used
      /\ \A m \in Models : v.at[m] # Nil => m \in v.used
      /\ \A x \in v.order : v.at[x[2]] # Nil
  BY <1>2, <1>3, <1>4 DEF Whole
<1>7. Whole(v)
  BY <1>4, <1>6, StillWhole
<1>8. Whole([v EXCEPT !.bound = b])
  BY <1>7, WholeBindings
<1> QED
  BY <1>5, <1>7, <1>8 DEF v, h, f

\* The keys of a platform are set.
LEMMA WholeWithKeys ==
  ASSUME NEW t, Whole(t), NEW p \in Platforms, NEW kept \in SUBSET Creds, NEW new \in Nat,
         NEW more, more = kept \ KeysAt(t, p), NEW c \in Nat, c = Cardinality(more) + new,
         NEW n \in Nat, ~Exhausted(t, n), c <= n
  PROVE  /\ Whole(WithKeys(t, p, kept, new))
         /\ NewIds(t, c) \subseteq Creds \ t.used
         /\ KeysAt(WithKeys(t, p, kept, new), p) = (KeysAt(t, p) \cap kept) \cup NewIds(t, c)
<1> DEFINE exist == KeysAt(t, p)
           added == NewIds(t, c)
           h == [k \in Creds |-> IF k \in added THEN p ELSE t.home[k]]
           b == t.bound \cup (ModelsAt(t, p) \X added)
           w == [t EXCEPT !.home = h, !.used = t.used \cup added, !.bound = b]
           g == exist \ kept
           v == WithoutKeys(w, g)
           u == Refreshed(v, ModelsAt(t, p))
<1>1. t \in TableRows /\ t.home \in [Creds -> Platforms \cup {Nil}] /\ t.bound \subseteq Models \X Creds
  BY WholeFields
<1>3. added \subseteq Creds \ t.used
  BY <1>1, NewIdsAreNew
<1>4. WithKeys(t, p, kept, new) = u
  <2>1. w = [t EXCEPT !.home = [k \in Creds |-> IF k \in added THEN p ELSE @[k]],
                      !.used = @ \cup added,
                      !.bound = @ \cup (ModelsAt(t, p) \X added)]
    BY <1>1 DEF TableRows
  <2> QED
    BY <2>1 DEF WithKeys
<1>5. b \subseteq Models \X Creds
  BY <1>1, <1>3 DEF ModelsAt
<1> HIDE DEF added, b
<1>6. Whole(w)
  BY <1>3, <1>5, WholeWithNewKeys
<1>7. w.home = h
  BY <1>1 DEF TableRows
<1>8. \A k \in Creds : w.home[k] = IF k \in added THEN p ELSE t.home[k]
  BY <1>7
<1> HIDE DEF w
<1>9. Whole(v) /\ w \in TableRows
  BY <1>6, WholeWithoutKeys, WholeFields
<1>10. \A k \in Creds : v.home[k] = IF k \in g THEN Nil ELSE w.home[k]
  BY <1>9, WithoutKeysIs
<1> HIDE DEF v
<1>11. v \in TableRows
  BY <1>9, WholeFields
<1>12. Whole(u) /\ u.home = v.home
  <2> DEFINE X == ModelsAt(t, p)
  <2> HIDE DEF X
  <2>1. {} \subseteq Models \X Creds
    OBVIOUS
  <2>2. Whole(Refreshed(v, X))
    BY <1>9, <2>1, WholeBindings
  <2>3. Refreshed(v, X).home = v.home
    BY <1>11, RefreshedIs
  <2> QED
    BY <2>2, <2>3 DEF X
<1> HIDE DEF u
<1>13. KeysAt(u, p) = (exist \cap kept) \cup added
  <2>1. \A k \in Creds : u.home[k] = p <=> k \notin g /\ (k \in added \/ t.home[k] = p)
    <3>1. p # Nil
      BY DefinitionsAssumption
    <3> QED
      BY <1>8, <1>10, <1>12, <3>1
  <2>2. \A k \in added : k \notin exist
    <3>1. p # Nil
      BY DefinitionsAssumption
    <3> QED
      BY <1>3, <3>1 DEF KeysAt, Whole
  <2> QED
    BY <1>3, <2>1, <2>2 DEF KeysAt
<1> QED
  BY <1>3, <1>4, <1>12, <1>13 DEF added

\* The ids that are new are as many as are asked for.
LEMMA NewIdsCount ==
  ASSUME NEW t \in TableRows, NEW n \in Nat, NEW c \in Nat, c <= n, ~Exhausted(t, n)
  PROVE  IsFiniteSet(NewIds(t, c)) /\ Cardinality(NewIds(t, c)) = c
<1> DEFINE free == Creds \ t.used
           q == SetToSeq(free)
           S == NewIds(t, c)
<1>1. IsFiniteSet(free)
  BY DefinitionsAssumption, FS_Subset
<1>2. ~(Cardinality(free) < n)
  BY DEF Exhausted
<1>3. S = {q[i] : i \in 1..c}
  BY DEF NewIds
<1> HIDE DEF free, S
<1>4. Cardinality(free) \in Nat /\ \A i, j \in 1..Cardinality(free) : q[i] = q[j] => i = j
  BY <1>1, Enumerated
<1>5. \A i, j \in 1..c : q[i] = q[j] => i = j
  BY <1>2, <1>4
<1> HIDE DEF q
<1>6. IsFiniteSet(S) /\ Cardinality(S) = c
  BY <1>3, <1>5, EachOnce
<1> QED
  BY <1>6 DEF S

\* A statement that is in its place is not refused for its keys.
LEMMA WholeReplaceKeys ==
  ASSUME NEW t, Whole(t), NEW p \in Platforms, NEW kept \in SUBSET Creds, NEW new \in Nat,
         ReplaceKeys(t, p, kept, new) # Violated
  PROVE  /\ Whole(ReplaceKeys(t, p, kept, new))
         /\ Cardinality(KeysAt(ReplaceKeys(t, p, kept, new), p)) = Cardinality(kept) + new
<1> DEFINE u == WithKeys(t, p, kept, new)
           n == Cardinality(kept) + new
           exist == KeysAt(t, p)
           c == Cardinality(kept \ exist) + new
           added == NewIds(t, c)
<1>1. ReplaceKeys(t, p, kept, new) = u /\ ~Exhausted(t, n)
  BY DEF ReplaceKeys, Unless
<1>2. IsFiniteSet(kept) /\ Cardinality(kept) \in Nat
  BY DefinitionsAssumption, FS_Subset, FS_CardinalityType
<1>3. /\ IsFiniteSet(kept \ exist) /\ Cardinality(kept \ exist) \in Nat
      /\ Cardinality(kept \ exist) = Cardinality(kept) - Cardinality(kept \cap exist)
      /\ IsFiniteSet(kept \cap exist) /\ Cardinality(kept \cap exist) \in Nat
  BY <1>2, FS_Difference, FS_Intersection, FS_CardinalityType
<1>4. n \in Nat /\ c \in Nat /\ c <= n
  BY <1>2, <1>3
<1>5. /\ Whole(u) /\ added \subseteq Creds \ t.used
      /\ KeysAt(u, p) = (exist \cap kept) \cup added
  <2> DEFINE X == kept \ exist
  <2>1. X = kept \ KeysAt(t, p) /\ c = Cardinality(X) + new
    OBVIOUS
  <2> HIDE DEF X, c, n
  <2> QED
    BY <1>1, <1>4, <2>1, WholeWithKeys
<1>6. t \in TableRows
  BY WholeFields
<1>7. IsFiniteSet(added) /\ Cardinality(added) = c
  <2> HIDE DEF n, c
  <2> QED
    BY <1>1, <1>4, <1>6, NewIdsCount
<1>8. (kept \cap exist) \cap added = {}
  <2>1. exist \subseteq t.used
    BY DefinitionsAssumption DEF KeysAt, Whole
  <2> QED
    BY <1>5, <2>1
<1> DEFINE K == kept \cap exist
<1>9. Cardinality(K \cup added) = Cardinality(K) + c
  <2> HIDE DEF K, added, c
  <2>1. Cardinality(K \cap added) = 0
    BY <1>8, FS_EmptySet DEF K
  <2>2. Cardinality(K \cup added) = Cardinality(K) + Cardinality(added) - Cardinality(K \cap added)
    BY <1>3, <1>7, FS_Union DEF K
  <2> QED
    BY <1>3, <1>4, <1>7, <2>1, <2>2 DEF K
<1>10. (exist \cap kept) \cup added = K \cup added
  OBVIOUS
<1>11. Cardinality(KeysAt(u, p)) = Cardinality(K) + c
  BY <1>5, <1>9, <1>10
<1> QED
  BY <1>1, <1>2, <1>3, <1>5, <1>11

\* One key is added to what there is.
LEMMA WholeAddKey ==
  ASSUME NEW t, Whole(t), NEW p \in Platforms, AddKey(t, p) # Violated
  PROVE  Whole(AddKey(t, p))
<1> DEFINE K == KeysAt(t, p)
<1>1. AddKey(t, p) = WithKeys(t, p, K, 1) /\ ~Exhausted(t, 1)
  BY DEF AddKey, Unless
<1>2. K \in SUBSET Creds
  BY DEF KeysAt
<1>3. K = KeysAt(t, p)
  OBVIOUS
<1> HIDE DEF K
<1> DEFINE X == K \ KeysAt(t, p)
<1>4. X = {} /\ X = K \ KeysAt(t, p)
  BY <1>3
<1> HIDE DEF X
<1> DEFINE one == 1
<1>5. one = Cardinality(X) + one /\ one \in Nat /\ one <= one
  BY <1>4, FS_EmptySet
<1>6. AddKey(t, p) = WithKeys(t, p, K, one) /\ ~Exhausted(t, one)
  BY <1>1
<1> HIDE DEF one
<1>7. Whole(WithKeys(t, p, K, one))
  BY <1>2, <1>4, <1>5, <1>6, WholeWithKeys
<1> QED
  BY <1>6, <1>7

\* The center's way to add a key.
LEMMA WholeInsertKey ==
  ASSUME NEW t, Whole(t), NEW p \in Platforms, InsertKey(t, p) # Violated
  PROVE  /\ Whole(InsertKey(t, p))
         /\ \E k \in Creds : /\ t.home[k] = Nil
                             /\ KeysAt(InsertKey(t, p), p) = KeysAt(t, p) \cup {k}
<1> DEFINE N == NewIds(t, 1)
           h == [k \in Creds |-> IF k \in N THEN p ELSE t.home[k]]
           u == [t EXCEPT !.home = h, !.used = t.used \cup N]
<1>1. t \in TableRows
  BY WholeFields
<1>2. InsertKey(t, p) = u /\ ~Exhausted(t, 1)
  <2>1. u = [t EXCEPT !.home = [k \in Creds |-> IF k \in N THEN p ELSE @[k]],
                      !.used = @ \cup N]
    BY <1>1 DEF TableRows
  <2> QED
    BY <2>1 DEF InsertKey, Unless
<1>3. N \subseteq Creds \ t.used /\ Cardinality(N) = 1 /\ IsFiniteSet(N)
  BY <1>1, <1>2, NewIdsAreNew, NewIdsCount
<1>4. PICK k : N = {k}
  BY <1>3, FS_Singleton
<1>5. Whole(u)
  <2> HIDE DEF N
  <2>1. {} \subseteq Models \X Creds /\ N \subseteq Creds
    BY <1>3
  <2> QED
    BY <2>1, WholeWithNewKeys
<1>6. u.home = h
  BY <1>1 DEF TableRows
<1>7. k \in Creds /\ t.home[k] = Nil
  BY <1>3, <1>4 DEF Whole
<1>8. KeysAt(u, p) = KeysAt(t, p) \cup {k}
  <2> HIDE DEF N
  <2>1. \A j \in Creds : u.home[j] = IF j = k THEN p ELSE t.home[j]
    BY <1>4, <1>6
  <2> QED
    BY <1>7, <2>1 DEF KeysAt
<1> QED
  BY <1>2, <1>5, <1>7, <1>8

\* What no binding is part of.
ButBindings(t, u) ==
  u.home = t.home /\ u.at = t.at /\ u.enabled = t.enabled /\ u.order = t.order

\* The row of a model is made.
LEMMA InsertedRow ==
  ASSUME NEW t, Whole(t), NEW m \in Models, NEW p \in Platforms, InsertRAPI(t, m, p) # Violated
  PROVE  /\ Whole(InsertRAPI(t, m, p)) /\ m \notin OnChain(t)
         /\ InsertRAPI(t, m, p).at[m] = p /\ InsertRAPI(t, m, p).order = t.order
<1> DEFINE a == [t.at EXCEPT ![m] = p]
           f == t.used \cup {m}
           e == t.enabled \cup {m}
           u == [t EXCEPT !.at = a, !.used = f, !.enabled = e]
<1>1. t \in TableRows /\ t.at \in [Models -> Platforms \cup {Nil}]
      /\ t.used \subseteq Platforms \cup Creds \cup Models
      /\ t.enabled \subseteq Platforms \cup Models \cup {Route}
  BY WholeFields
<1>2. InsertRAPI(t, m, p) = u /\ m \notin t.used
  BY <1>1 DEF InsertRAPI, Unless, TableRows
<1>3. /\ a \in [Models -> Platforms \cup {Nil}] /\ a[m] = p
      /\ \A k \in Models : a[k] # Nil => k \in f
      /\ \A k \in Models : k # m => a[k] = t.at[k]
      /\ f \subseteq Platforms \cup Creds \cup Models /\ t.used \subseteq f
      /\ e \subseteq Platforms \cup Models \cup {Route}
  BY <1>1 DEF Whole
<1>4. p # Nil
  BY DefinitionsAssumption
<1> HIDE DEF a, f, e
<1>5. /\ u \in TableRows /\ u.at = a /\ u.used = f /\ u.home = t.home /\ u.order = t.order
  BY <1>1, <1>3 DEF TableRows
<1> HIDE DEF u
<1>6. \A x \in u.order : x[2] \in Models /\ u.at[x[2]] # Nil
  <2> TAKE x \in u.order
  <2>1. x \in t.order
    BY <1>5
  <2>2. x[2] \in Models /\ t.at[x[2]] # Nil
    BY <2>1, PlaceIs DEF Whole
  <2> QED
    BY <1>3, <1>4, <1>5, <2>2
<1>7. /\ \A k \in Creds : u.home[k] # Nil => k \in u.used
      /\ \A k \in Models : u.at[k] # Nil => k \in u.used
  BY <1>3, <1>5 DEF Whole
<1>8. Whole(u)
  BY <1>5, <1>6, <1>7, StillWhole
<1>9. m \notin OnChain(t)
  <2>1. t.at[m] = Nil
    BY <1>2 DEF Whole
  <2> QED
    BY <2>1 DEF OnChain, Whole
<1> QED
  BY <1>2, <1>3, <1>5, <1>8, <1>9

\* The row of a model is saved.
LEMMA PatchedRow ==
  ASSUME NEW t, Whole(t), NEW m \in Models, NEW p \in Platforms, NEW on \in BOOLEAN,
         PatchRAPI(t, m, p, on) # Violated
  PROVE  /\ Whole(PatchRAPI(t, m, p, on)) /\ PatchRAPI(t, m, p, on).home = t.home
         /\ t.at[m] = Nil => PatchRAPI(t, m, p, on).at[m] = Nil
         /\ t.at[m] # Nil => /\ PatchRAPI(t, m, p, on).at[m] = p
                             /\ m \in PatchRAPI(t, m, p, on).enabled <=> on
<1>1. CASE t.at[m] = Nil
  BY <1>1 DEF PatchRAPI, Unless
<1>2. CASE t.at[m] # Nil
  <2> DEFINE a == [t.at EXCEPT ![m] = p]
             e == IF on THEN t.enabled \cup {m} ELSE t.enabled \ {m}
             u == [t EXCEPT !.at = a, !.enabled = e]
  <2>1. t \in TableRows /\ t.at \in [Models -> Platforms \cup {Nil}]
        /\ t.enabled \subseteq Platforms \cup Models \cup {Route}
    BY WholeFields
  <2>2. PatchRAPI(t, m, p, on) = u
    BY <1>2, <2>1 DEF PatchRAPI, Unless, TableRows
  <2>3. /\ a \in [Models -> Platforms \cup {Nil}] /\ a[m] = p
        /\ \A k \in Models : a[k] # Nil <=> t.at[k] # Nil
        /\ e \subseteq Platforms \cup Models \cup {Route} /\ (m \in e <=> on)
    BY <1>2, <2>1, DefinitionsAssumption
  <2> HIDE DEF a, e
  <2>4. /\ u \in TableRows /\ u.at = a /\ u.used = t.used /\ u.home = t.home
        /\ u.order = t.order /\ u.enabled = e
    BY <2>1, <2>3 DEF TableRows
  <2> HIDE DEF u
  <2>5. \A x \in u.order : u.at[x[2]] # Nil
    <3> TAKE x \in u.order
    <3>1. x[2] \in Models /\ t.at[x[2]] # Nil
      BY <2>4, PlaceIs DEF Whole
    <3> QED
      BY <2>3, <2>4, <3>1
  <2>6. /\ \A k \in Creds : u.home[k] # Nil => k \in u.used
        /\ \A k \in Models : u.at[k] # Nil => k \in u.used
    BY <2>3, <2>4 DEF Whole
  <2>7. Whole(u)
    BY <2>4, <2>5, <2>6, StillWhole
  <2> QED
    BY <1>2, <2>2, <2>3, <2>4, <2>7
<1> QED
  BY <1>1, <1>2

\* The bindings of a model are synchronised with the form.
LEMMA SyncedBindings ==
  ASSUME NEW t, Whole(t), NEW m \in Models, NEW p \in Platforms, NEW keys \in SUBSET Creds,
         WithBindings(t, m, p, keys) # Violated
  PROVE  /\ Whole(WithBindings(t, m, p, keys)) /\ ButBindings(t, WithBindings(t, m, p, keys))
         /\ WithBindings(t, m, p, keys).column[m]
              = IF keys = {} THEN KeysAt(t, p) ELSE keys \cap KeysAt(t, p)
<1> DEFINE want == IF keys = {} THEN KeysAt(t, p) ELSE keys \cap KeysAt(t, p)
           b == {x \in t.bound : x[1] # m} \cup ({m} \X want)
           w == [t EXCEPT !.bound = b]
           u == Refreshed(w, {m})
<1>1. WithBindings(t, m, p, keys) = u
  BY DEF WithBindings
<1>2. t \in TableRows /\ t.bound \subseteq Models \X Creds
  BY WholeFields
<1>3. want \subseteq Creds
  BY DEF KeysAt
<1>4. b \subseteq Models \X Creds /\ \A k \in Creds : <<m, k>> \in b <=> k \in want
  BY <1>2, <1>3
<1> HIDE DEF b
<1>5. Whole(u) /\ Whole(w)
  BY <1>4, WholeBindings
<1>6. w.bound = b /\ ButBindings(t, w)
  BY <1>2 DEF ButBindings, TableRows
<1> HIDE DEF w
<1>7. w \in TableRows
  BY <1>5, WholeFields
<1>8. u.column[m] = Bound(w, m) /\ ButBindings(w, u)
  BY <1>7, RefreshedIs, OthersAreKept DEF ButBindings
<1>9. Bound(w, m) = want
  BY <1>3, <1>4, <1>6 DEF Bound
<1> HIDE DEF u
<1> QED
  BY <1>1, <1>5, <1>6, <1>8, <1>9 DEF ButBindings

\* The center's way: all bindings go, and come one by one.
LEMMA UnboundModel ==
  ASSUME NEW t, Whole(t), NEW m \in Models, NEW u, u = [t EXCEPT !.bound = {b \in t.bound : b[1] # m}]
  PROVE  Whole(u) /\ ButBindings(t, u) /\ Bound(u, m) = {}
<1> DEFINE b == {x \in t.bound : x[1] # m}
<1>1. t \in TableRows /\ t.bound \subseteq Models \X Creds
  BY WholeFields
<1>2. b \subseteq Models \X Creds /\ \A k \in Creds : <<m, k>> \notin b
  BY <1>1
<1>3. u = [t EXCEPT !.bound = b]
  OBVIOUS
<1> HIDE DEF b
<1>4. Whole(u)
  BY <1>2, <1>3, WholeBindings
<1>5. u.bound = b /\ ButBindings(t, u)
  BY <1>1, <1>3 DEF ButBindings, TableRows
<1>6. Bound(u, m) = {}
  BY <1>2, <1>5 DEF Bound
<1> QED
  BY <1>4, <1>5, <1>6

\* A key is bound to the model.
LEMMA BoundOne ==
  ASSUME NEW t, Whole(t), NEW m \in Models, NEW k \in Creds, Bind(t, m, k) # Violated
  PROVE  /\ Whole(Bind(t, m, k)) /\ ButBindings(t, Bind(t, m, k))
         /\ Bound(Bind(t, m, k), m) = Bound(t, m) \cup {k}
<1> DEFINE b == t.bound \cup {<<m, k>>}
           u == [t EXCEPT !.bound = b]
<1>1. t \in TableRows /\ t.bound \subseteq Models \X Creds
  BY WholeFields
<1>2. /\ b \subseteq Models \X Creds
      /\ \A j \in Creds : <<m, j>> \in b <=> <<m, j>> \in t.bound \/ j = k
  BY <1>1
<1>3. Bind(t, m, k) = u
  BY <1>1 DEF Bind, Unless, TableRows
<1> HIDE DEF b
<1>4. Whole(u)
  BY <1>2, WholeBindings
<1>5. u.bound = b /\ ButBindings(t, u)
  BY <1>1 DEF ButBindings, TableRows
<1> HIDE DEF u
<1>6. Bound(u, m) = Bound(t, m) \cup {k}
  BY <1>2, <1>5 DEF Bound
<1> QED
  BY <1>3, <1>4, <1>5, <1>6

\* Fields no row depends on.
LEMMA WholeOtherwise ==
  ASSUME NEW t, Whole(t), NEW u \in TableRows, u.home = t.home, u.at = t.at,
         t.used \subseteq u.used, u.order \subseteq t.order
  PROVE  Whole(u)
<1>1. \A x \in u.order : x \in t.order
  OBVIOUS
<1>2. /\ \A k \in Creds : u.home[k] # Nil => k \in u.used
      /\ \A m \in Models : u.at[m] # Nil => m \in u.used
      /\ \A x \in u.order : u.at[x[2]] # Nil
  BY <1>1 DEF Whole
<1> QED
  BY <1>2, StillWhole

\* Platforms, routes, and what is enabled.
LEMMA WholeOthers ==
  ASSUME NEW t, Whole(t)
  PROVE  /\ \A p \in Platforms : InsertPlatform(t, p) # Violated => Whole(InsertPlatform(t, p))
         /\ \A x \in Platforms \cup Models \cup {Route}, on \in BOOLEAN :
              /\ Whole(SetEnabled(t, x, on)) /\ SetEnabled(t, x, on).at = t.at
              /\ \A y : y # x => (y \in SetEnabled(t, x, on).enabled <=> y \in t.enabled)
              /\ x \in SetEnabled(t, x, on).enabled <=> on
         /\ Whole(CreateLAPI(t)) /\ Whole(DeleteLAPI(t))
<1>1. t \in TableRows
  BY WholeFields
<1>2. ASSUME NEW p \in Platforms, InsertPlatform(t, p) # Violated
      PROVE  Whole(InsertPlatform(t, p))
  <2> DEFINE q == t.platforms \cup {p}
             f == t.used \cup {p}
             e == t.enabled \cup {p}
             u == [t EXCEPT !.platforms = q, !.used = f, !.enabled = e]
  <2>1. InsertPlatform(t, p) = u
    BY <1>1, <1>2 DEF InsertPlatform, Unless, TableRows
  <2>2. /\ q \subseteq Platforms /\ f \subseteq Platforms \cup Creds \cup Models /\ t.used \subseteq f
        /\ e \subseteq Platforms \cup Models \cup {Route}
    BY <1>1 DEF TableRows
  <2> HIDE DEF q, f, e
  <2>3. u \in TableRows /\ u.home = t.home /\ u.at = t.at /\ u.order = t.order /\ u.used = f
    BY <1>1, <2>2 DEF TableRows
  <2> HIDE DEF u
  <2> QED
    BY <2>1, <2>2, <2>3, WholeOtherwise
<1>3. ASSUME NEW x \in Platforms \cup Models \cup {Route}, NEW on \in BOOLEAN
      PROVE  /\ Whole(SetEnabled(t, x, on)) /\ SetEnabled(t, x, on).at = t.at
             /\ \A y : y # x => (y \in SetEnabled(t, x, on).enabled <=> y \in t.enabled)
             /\ x \in SetEnabled(t, x, on).enabled <=> on
  <2> DEFINE e == IF on THEN t.enabled \cup {x} ELSE t.enabled \ {x}
             u == [t EXCEPT !.enabled = e]
  <2>1. SetEnabled(t, x, on) = u
    BY <1>1 DEF SetEnabled, TableRows
  <2>2. e \subseteq Platforms \cup Models \cup {Route}
    BY <1>1 DEF TableRows
  <2>3. (\A y : y # x => (y \in e <=> y \in t.enabled)) /\ (x \in e <=> on)
    OBVIOUS
  <2> HIDE DEF e
  <2>4. /\ u \in TableRows /\ u.home = t.home /\ u.at = t.at /\ u.order = t.order
        /\ u.used = t.used /\ u.enabled = e
    BY <1>1, <2>2 DEF TableRows
  <2> HIDE DEF u
  <2>5. Whole(u)
    BY <2>4, WholeOtherwise
  <2> QED
    BY <2>1, <2>3, <2>4, <2>5
<1>4. Whole(CreateLAPI(t))
  <2> DEFINE e == t.enabled \cup {Route}
             u == [t EXCEPT !.route = TRUE, !.enabled = e]
  <2>1. CreateLAPI(t) = u
    BY <1>1 DEF CreateLAPI, TableRows
  <2>2. e \subseteq Platforms \cup Models \cup {Route}
    BY <1>1 DEF TableRows
  <2> HIDE DEF e
  <2>3. u \in TableRows /\ u.home = t.home /\ u.at = t.at /\ u.order = t.order /\ u.used = t.used
    BY <1>1, <2>2 DEF TableRows
  <2> HIDE DEF u
  <2> QED
    BY <2>1, <2>3, WholeOtherwise
<1>5. Whole(DeleteLAPI(t))
  <2> DEFINE e == t.enabled \ {Route}
             u == [t EXCEPT !.route = FALSE, !.order = {}, !.enabled = e]
  <2>1. DeleteLAPI(t) = u
    BY <1>1 DEF DeleteLAPI, TableRows
  <2>2. e \subseteq Platforms \cup Models \cup {Route}
    BY <1>1 DEF TableRows
  <2> HIDE DEF e
  <2>3. u \in TableRows /\ u.home = t.home /\ u.at = t.at /\ u.order = {} /\ u.used = t.used
    BY <1>1, <2>2 DEF TableRows
  <2> HIDE DEF u
  <2> QED
    BY <2>1, <2>3, WholeOtherwise
<1> QED
  BY <1>2, <1>3, <1>4, <1>5

\* A key goes.
LEMMA WholeDeleteKey ==
  ASSUME NEW t, Whole(t), NEW k \in Creds, DeleteKeyRow(t, k) # Violated
  PROVE  Whole(DeleteKeyRow(t, k)) /\ DeleteKeyRow(t, k).home[k] = Nil
<1> DEFINE w == WithoutKeys(t, {k})
           X == ModelsAt(t, t.home[k])
<1>1. DeleteKeyRow(t, k) \in {w, Refreshed(w, X)}
  BY DEF DeleteKeyRow, Unless
<1>2. Whole(w)
  <2> DEFINE K == {k}
  <2> HIDE DEF K
  <2>1. Whole(WithoutKeys(t, K))
    BY WholeWithoutKeys
  <2> QED
    BY <2>1 DEF K
<1>3. t \in TableRows
  BY WholeFields
<1>4. w.home[k] = Nil
  BY <1>3, WithoutKeysIs
<1> HIDE DEF w, X
<1>5. w \in TableRows
  BY <1>2, WholeFields
<1>6. Refreshed(w, X).home = w.home
  BY <1>5, RefreshedIs
<1>7. Whole(Refreshed(w, X))
  <2>1. {} \subseteq Models \X Creds
    OBVIOUS
  <2> QED
    BY <1>2, <2>1, WholeBindings
<1> QED
  BY <1>1, <1>2, <1>4, <1>6, <1>7

\* A key is bound to no model any more.
LEMMA WholeDetach ==
  ASSUME NEW t, Whole(t), NEW k \in Creds
  PROVE  Whole(Detach(t, k))
<1> DEFINE b == {x \in t.bound : x[2] # k}
           X == {m \in Models : <<m, k>> \in t.bound}
           w == [t EXCEPT !.bound = b]
<1>1. t \in TableRows /\ t.bound \subseteq Models \X Creds
  BY WholeFields
<1>2. Detach(t, k) \in {w, Refreshed(w, X)}
  BY <1>1 DEF Detach, TableRows
<1>3. b \subseteq Models \X Creds
  BY <1>1
<1> HIDE DEF b, X
<1>4. Whole(w) /\ Whole(Refreshed(w, X))
  BY <1>3, WholeBindings
<1> QED
  BY <1>2, <1>4

\* A platform goes.
LEMMA WholeDeletePlatform ==
  ASSUME NEW t, Whole(t), NEW p \in Platforms, NEW kept, DeletePlatformRow(t, p, kept) # Violated
  PROVE  Whole(DeletePlatformRow(t, p, kept))
<1> DEFINE X == ModelsAt(t, p)
           K == KeysAt(t, p)
           w == WithoutModels(t, X)
           v == WithoutKeys(w, K)
           f == v.platforms \ {p}
           e == v.enabled \ {p}
           u == [v EXCEPT !.platforms = f, !.enabled = e]
<1> HIDE DEF X, K
<1>1. Whole(w)
  BY WholeWithoutModels
<1> HIDE DEF w
<1>2. Whole(v)
  BY <1>1, WholeWithoutKeys
<1>3. v \in TableRows
  BY <1>2, WholeFields
<1>4. DeletePlatformRow(t, p, kept) = u
  BY <1>3 DEF DeletePlatformRow, Unless, TableRows, X, K, w
<1> HIDE DEF v
<1>5. f \subseteq Platforms /\ e \subseteq Platforms \cup Models \cup {Route}
  BY <1>3 DEF TableRows
<1> HIDE DEF f, e
<1>6. u \in TableRows /\ u.home = v.home /\ u.at = v.at /\ u.order = v.order /\ u.used = v.used
  BY <1>3, <1>5 DEF TableRows
<1> HIDE DEF u
<1>7. Whole(u)
  BY <1>2, <1>6, WholeOtherwise
<1> QED
  BY <1>4, <1>7

\* A chain is emptied.
LEMMA WholeChain ==
  ASSUME NEW t, Whole(t)
  PROVE  /\ Whole([t EXCEPT !.order = {}])
         /\ [t EXCEPT !.order = {}].at = t.at /\ [t EXCEPT !.order = {}].route = t.route
         /\ [t EXCEPT !.order = {}].order = {}
<1> DEFINE u == [t EXCEPT !.order = {}]
<1>1. t \in TableRows
  BY WholeFields
<1>2. /\ u \in TableRows /\ u.home = t.home /\ u.at = t.at /\ u.order = {}
      /\ u.used = t.used /\ u.route = t.route
  BY <1>1 DEF TableRows
<1> HIDE DEF u
<1>3. Whole(u)
  BY <1>2, WholeOtherwise
<1> QED
  BY <1>2, <1>3 DEF u

\* A model is put at a place that is free.
LEMMA LinkedOne ==
  ASSUME NEW t, Whole(t), NEW i \in Places, NEW m, Link(t, i, m) # Violated
  PROVE  /\ Whole(Link(t, i, m)) /\ m \in Models /\ Link(t, i, m).at = t.at
         /\ Link(t, i, m).order = t.order \cup {<<i, m>>} /\ Link(t, i, m).route = t.route
         /\ \A x \in t.order : x[1] # i /\ x[2] # m
<1> DEFINE o == t.order \cup {<<i, m>>}
           u == [t EXCEPT !.order = o]
<1>1. t \in Tables /\ t \in TableRows
  BY WholeFields
<1>2. /\ Link(t, i, m) = u /\ m \in Models /\ t.at[m] # Nil
      /\ \A x \in t.order : x[1] # i /\ x[2] # m
  BY <1>1 DEF Link, Unless, Rows, TableRows
<1>3. t.order \subseteq Places \X Models
  BY WholeFields
<1>4. o \subseteq Places \X Models
  BY <1>2, <1>3
<1>5. \A x \in o : x \in t.order \/ (x[1] = i /\ x[2] = m)
  OBVIOUS
<1> HIDE DEF o
<1>6. /\ u \in Tables /\ u.home = t.home /\ u.at = t.at /\ u.order = o /\ u.used = t.used
      /\ u.route = t.route
  BY <1>1, <1>4 DEF Tables
<1> HIDE DEF u
<1>7. \A x \in u.order : u.at[x[2]] # Nil
  BY <1>2, <1>5, <1>6 DEF Whole
<1>8. \A x, y \in u.order : x[1] = y[1] <=> x[2] = y[2]
  BY <1>2, <1>5, <1>6 DEF Whole
<1>9. Whole(u)
  BY <1>6, <1>7, <1>8 DEF Whole
<1> QED
  BY <1>2, <1>6, <1>9 DEF o

\* The statements of a single row, or of none that is bound.
LEMMA StatementWhole ==
  ASSUME NEW t, Whole(t), NEW s \in Statements, Apply(t, s) # Violated
  PROVE  Whole(Apply(t, s))
<1>1. CASE s \in [op : {"insert platform", "add key"}, p : Platforms]
  <2>1. CASE s.op = "insert platform"
    <3>1. Apply(t, s) = InsertPlatform(t, s.p) /\ s.p \in Platforms
      BY <1>1, <2>1 DEF Apply
    <3> QED
      BY <3>1, WholeOthers
  <2>2. CASE s.op = "add key"
    <3>1. Apply(t, s) = AddKey(t, s.p) /\ s.p \in Platforms
      BY <1>1, <2>2 DEF Apply
    <3> QED
      BY <3>1, WholeAddKey
  <2> QED
    BY <1>1, <2>1, <2>2
<1>2. CASE s \in [op : {"set keys"}, p : Platforms, keys : SUBSET Creds, n : Nat]
  <2>1. /\ Apply(t, s) = ReplaceKeys(t, s.p, s.keys, s.n)
        /\ s.p \in Platforms /\ s.keys \in SUBSET Creds /\ s.n \in Nat
    BY <1>2 DEF Apply
  <2> QED
    BY <2>1, WholeReplaceKeys
<1>3. CASE s \in [op : {"delete key", "detach"}, k : Creds]
  <2>1. CASE s.op = "delete key"
    <3>1. Apply(t, s) = DeleteKeyRow(t, s.k) /\ s.k \in Creds
      BY <1>3, <2>1 DEF Apply
    <3> QED
      BY <3>1, WholeDeleteKey
  <2>2. CASE s.op = "detach"
    <3>1. Apply(t, s) = Detach(t, s.k) /\ s.k \in Creds
      BY <1>3, <2>2 DEF Apply
    <3> QED
      BY <3>1, WholeDetach
  <2> QED
    BY <1>3, <2>1, <2>2
<1>4. CASE s \in [op : {"delete rapi"}, m : Models, kept : BOOLEAN]
  <2> DEFINE X == {s.m}
  <2>1. Apply(t, s) = WithoutModels(t, X)
    BY <1>4 DEF Apply, DeleteRAPIRow, Unless
  <2> HIDE DEF X
  <2> QED
    BY <2>1, WholeWithoutModels
<1>5. CASE s \in [op : {"delete platform"}, p : Platforms, kept : BOOLEAN]
  <2>1. Apply(t, s) = DeletePlatformRow(t, s.p, s.kept) /\ s.p \in Platforms
    BY <1>5 DEF Apply
  <2> QED
    BY <2>1, WholeDeletePlatform
<1>6. CASE s \in [op : {"enable"}, x : Platforms \cup Models \cup {Route}, on : BOOLEAN]
  <2>1. Apply(t, s) = SetEnabled(t, s.x, s.on)
    BY <1>6 DEF Apply
  <2>2. s.x \in Platforms \cup Models \cup {Route} /\ s.on \in BOOLEAN
    BY <1>6
  <2> QED
    BY <2>1, <2>2, WholeOthers
<1>7. CASE s \in [op : {"insert route", "delete route"}]
  <2>1. CASE s.op = "insert route"
    <3>1. Apply(t, s) = CreateLAPI(t)
      BY <2>1 DEF Apply
    <3> QED
      BY <3>1, WholeOthers
  <2>2. CASE s.op = "delete route"
    <3>1. Apply(t, s) = DeleteLAPI(t)
      BY <2>2 DEF Apply
    <3> QED
      BY <3>1, WholeOthers
  <2> QED
    BY <1>7, <2>1, <2>2
<1> QED
  BY <1>1, <1>2, <1>3, <1>4, <1>5, <1>6, <1>7 DEF Statements

\* Every statement, unless it is refused, leaves whole tables, in either store.
LEMMA EachWhole ==
  ASSUME NEW t, Whole(t), NEW s, IsStatement(s), Apply(t, s) # Violated
  PROVE  Whole(Apply(t, s))
<1>1. CASE s \in Statements
  BY <1>1, StatementWhole
<1>2. CASE s \in [op : {"insert key", "delete keys"}, p : Platforms]
  <2>1. CASE s.op = "insert key"
    <3>1. Apply(t, s) = InsertKey(t, s.p) /\ s.p \in Platforms
      BY <1>2, <2>1 DEF Apply
    <3> QED
      BY <3>1, WholeInsertKey
  <2>2. CASE s.op = "delete keys"
    <3> DEFINE X == KeysAt(t, s.p)
    <3>1. Apply(t, s) = WithoutKeys(t, X)
      BY <2>2 DEF Apply
    <3> HIDE DEF X
    <3> QED
      BY <3>1, WholeWithoutKeys
  <2> QED
    BY <1>2, <2>1, <2>2
<1>3. CASE s \in [op : {"insert rapi"}, m : Models, p : Platforms]
  <2>1. Apply(t, s) = InsertRAPI(t, s.m, s.p) /\ s.m \in Models /\ s.p \in Platforms
    BY <1>3 DEF Apply
  <2> QED
    BY <2>1, InsertedRow
<1>4. CASE s \in [op : {"update rapi"}, m : Models, p : Platforms, on : BOOLEAN]
  <2>1. /\ Apply(t, s) = PatchRAPI(t, s.m, s.p, s.on)
        /\ s.m \in Models /\ s.p \in Platforms /\ s.on \in BOOLEAN
    BY <1>4 DEF Apply
  <2> QED
    BY <2>1, PatchedRow
<1>5. CASE s \in [op : {"sync bindings"}, m : Models, p : Platforms, keys : SUBSET Creds]
  <2>1. /\ Apply(t, s) = WithBindings(t, s.m, s.p, s.keys)
        /\ s.m \in Models /\ s.p \in Platforms /\ s.keys \in SUBSET Creds
    BY <1>5 DEF Apply
  <2> DEFINE m == s.m
             p == s.p
             keys == s.keys
  <2>2. Apply(t, s) = WithBindings(t, m, p, keys)
        /\ m \in Models /\ p \in Platforms /\ keys \in SUBSET Creds
    BY <2>1
  <2> HIDE DEF m, p, keys
  <2>3. WithBindings(t, m, p, keys) # Violated
    BY <2>2
  <2>4. Whole(WithBindings(t, m, p, keys))
    BY <2>2, <2>3, SyncedBindings
  <2> QED
    BY <2>2, <2>4
<1>6. CASE s \in [op : {"unbind rapi"}, m : Models]
  <2> DEFINE b == {x \in t.bound : x[1] # s.m}
  <2>1. t.bound \subseteq Models \X Creds /\ t \in TableRows
    BY WholeFields
  <2>2. Apply(t, s) = [t EXCEPT !.bound = b] /\ b \subseteq Models \X Creds
    BY <1>6, <2>1 DEF Apply, TableRows
  <2>3. b \subseteq Models \X Creds
    BY <2>2
  <2> HIDE DEF b
  <2>4. /\ Whole([t EXCEPT !.bound = b])
        /\ Whole(Refreshed([t EXCEPT !.bound = b], {}))
        /\ Whole(Refreshed(t, {}))
    BY <2>3, WholeBindings
  <2> QED
    BY <2>2, <2>4
<1>7. CASE s \in [op : {"bind"}, m : Models, k : Creds]
  <2>1. Apply(t, s) = Bind(t, s.m, s.k) /\ s.m \in Models /\ s.k \in Creds
    BY <1>7 DEF Apply
  <2> QED
    BY <2>1, BoundOne
<1>8. CASE s.op = "clear chain"
  <2>1. Apply(t, s) = [t EXCEPT !.order = {}]
    BY <1>8 DEF Apply
  <2> QED
    BY <2>1, WholeChain
<1>9. CASE s.op = "link" /\ s.i \in Places
  <2>1. Apply(t, s) = Link(t, s.i, s.m)
    BY <1>9 DEF Apply
  <2>2. s.i \in Places /\ Link(t, s.i, s.m) # Violated
    BY <1>9, <2>1
  <2>3. Whole(Link(t, s.i, s.m))
    BY <2>2, LinkedOne
  <2> QED
    BY <2>1, <2>3
<1> QED
  BY <1>1, <1>2, <1>3, <1>4, <1>5, <1>6, <1>7, <1>8, <1>9 DEF IsStatement, ProperStatements

----------------------------------------------------------------------------
(* Executions, of statements and of plans.                                  *)

\* The statements s are executed one by one on t, and none is refused.
Executed(g, t, s) ==
  g[0] = t /\ \A i \in 1..Len(s) : g[i] = Apply(g[i - 1], s[i]) /\ g[i] # Violated

Plain(s) == s.op \notin {"map", "toggle models"}

Reads(b) == ~Plain(Head(b))

\* A batch that is no reading leaves u.
Does(t, b, u) == u = Applied(t, b) /\ u # Violated

\* A batch leaves u; a reading, what it goes on with.
Goes(t, b, u) ==
  IF Reads(b)
  THEN \E g : /\ g[0] = t /\ u = g[Len(ReadOn(t, Head(b)))]
              /\ \A i \in 1..Len(ReadOn(t, Head(b))) : Does(g[i - 1], ReadOn(t, Head(b))[i], g[i])
  ELSE Does(t, b, u)

\* A plan is carried out on t.
Outcome(f, t, rest) == f[0] = t /\ \A i \in 1..Len(rest) : Goes(f[i - 1], rest[i], f[i])

\* What was asked, or that and all that follows from it.
Goal(t, r, part) == Granted(t, r) /\ (part = "all" => Followed(t, r))

\* However the plan is carried out, it leaves that.
Leads(t, rest, r, part) == \A f : Outcome(f, t, rest) => Goal(f[Len(rest)], r, part)

\* A batch that leaves tables is executed statement by statement.
LEMMA BatchExecuted ==
  ASSUME NEW t, t # Violated, NEW b, Len(b) \in Nat, Applied(t, b) # Violated
  PROVE  \E g : Executed(g, t, b) /\ g[Len(b)] = Applied(t, b)
<1> DEFINE n == Len(b)
<1>1. PICK f : /\ f[0] = t /\ Applied(t, b) = f[n]
               /\ \A i \in 1..n : f[i] = Next1(f[i - 1], b[i])
  BY AppliedIs
<1> DEFINE ok == {i \in 0..n : f[n - i] # Violated}
<1>2. 0 \in ok
  BY <1>1
<1>3. ASSUME NEW i \in 0..n, i \in ok, i < n PROVE i + 1 \in ok
  <2>1. n - i \in 1..n /\ n - (i + 1) = (n - i) - 1 /\ i + 1 \in 0..n
    BY <1>3
  <2>2. f[n - i] = Next1(f[(n - i) - 1], b[n - i]) /\ f[n - i] # Violated
    BY <1>1, <1>3, <2>1
  <2>3. f[n - (i + 1)] # Violated
    BY <2>1, <2>2 DEF Next1
  <2> QED
    BY <2>1, <2>3
<1>4. 0..n \subseteq ok
  <2> HIDE DEF ok
  <2> QED
    BY <1>2, <1>3, InductionUpTo
<1>5. \A i \in 0..n : f[i] # Violated
  <2> TAKE i \in 0..n
  <2>1. n - i \in 0..n /\ n - (n - i) = i
    OBVIOUS
  <2>2. n - i \in ok
    BY <1>4, <2>1
  <2> QED
    BY <2>1, <2>2
<1>6. \A i \in 1..n : f[i] = Apply(f[i - 1], b[i]) /\ f[i] # Violated
  BY <1>1, <1>5 DEF Next1
<1> QED
  BY <1>1, <1>6 DEF Executed

\* Whole tables stay whole throughout.
LEMMA ExecutedWhole ==
  ASSUME NEW t, Whole(t), NEW s, Len(s) \in Nat, \A i \in 1..Len(s) : IsStatement(s[i]),
         NEW g, Executed(g, t, s)
  PROVE  \A i \in 0..Len(s) : Whole(g[i])
<1> DEFINE n == Len(s)
           ok == {i \in 0..n : Whole(g[i])}
<1>1. 0 \in ok
  BY DEF Executed
<1>2. ASSUME NEW i \in 0..n, i \in ok, i < n PROVE i + 1 \in ok
  <2>1. i + 1 \in 1..n /\ i + 1 \in 0..n /\ (i + 1) - 1 = i
    BY <1>2
  <2>2. g[i + 1] = Apply(g[i], s[i + 1]) /\ g[i + 1] # Violated
    BY <2>1 DEF Executed
  <2>3. Whole(g[i + 1])
    BY <1>2, <2>1, <2>2, EachWhole
  <2> QED
    BY <2>1, <2>3
<1> HIDE DEF ok
<1>3. 0..n \subseteq ok
  BY <1>1, <1>2, InductionUpTo
<1> QED
  BY <1>3 DEF ok

\* A transaction, or the calls that stand for it, execute its statements.
LEMMA TxExecuted ==
  ASSUME NEW t, Whole(t), NEW S, NEW s \in Seq(S), s # <<>>,
         \A x \in S : Plain(x),
         NEW f, Outcome(f, t, Tx(s))
  PROVE  \E g : Executed(g, t, s) /\ g[Len(s)] = f[Len(Tx(s))]
<1> DEFINE n == Len(s)
<1>0. n \in Nat /\ n > 0 /\ DOMAIN s = 1..n /\ \A i \in 1..n : s[i] \in S
  OBVIOUS
<1>00. Head(s) = s[1] /\ 1 \in 1..n
  BY <1>0
<1>000. \A i \in 1..n : Plain(s[i])
  BY <1>0
<1> HIDE DEF n
<1>1. t # Violated
  BY WholeFields
<1>2. CASE backend = "local"
  <2> DEFINE p == <<s>>
  <2>1. Tx(s) = p /\ Len(p) = 1 /\ p[1] = s
    BY <1>2 DEF Tx
  <2> HIDE DEF p
  <2>2. f[0] = t /\ Goes(f[0], s, f[1])
    <3>1. 1 \in 1..Len(p) /\ 1 - 1 = 0
      BY <2>1
    <3>2. f[0] = t /\ Goes(f[1 - 1], p[1], f[1])
      BY <3>1, <2>1 DEF Outcome
    <3> QED
      BY <2>1, <3>1, <3>2
  <2>3. ~Reads(s)
    BY <1>00, <1>000 DEF Reads
  <2>4. Does(t, s, f[1])
    BY <2>2, <2>3 DEF Goes
  <2>5. \E g : Executed(g, t, s) /\ g[Len(s)] = Applied(t, s)
    BY <1>0, <1>1, <2>4, BatchExecuted DEF Does, n
  <2> QED
    BY <2>1, <2>4, <2>5 DEF Does, n
<1>3. CASE backend # "local"
  <2> DEFINE p == [i \in 1..n |-> <<s[i]>>]
  <2>1. Tx(s) = p /\ Len(p) = n /\ \A i \in 1..n : p[i] = <<s[i]>>
    BY <1>0, <1>3 DEF Tx
  <2> HIDE DEF p
  <2>2. f[0] = t /\ \A i \in 1..n : Goes(f[i - 1], <<s[i]>>, f[i])
    BY <2>1 DEF Outcome
  <2>3. ASSUME NEW i \in 1..n PROVE Does(f[i - 1], <<s[i]>>, f[i])
    <3>1. Goes(f[i - 1], <<s[i]>>, f[i])
      BY <2>2
    <3>2. Head(<<s[i]>>) = s[i]
      OBVIOUS
    <3>3. ~Reads(<<s[i]>>)
      BY <1>000, <3>2 DEF Reads
    <3> QED
      BY <3>1, <3>3 DEF Goes
  <2>4. ASSUME NEW i \in 1..n PROVE f[i - 1] # Violated
    <3>1. CASE i = 1
      BY <1>1, <2>2, <3>1
    <3>2. CASE i # 1
      <4>1. i - 1 \in 1..n
        BY <1>0, <3>2
      <4> QED
        BY <2>3, <4>1 DEF Does
    <3> QED
      BY <3>1, <3>2
  <2>5. \A i \in 1..n : f[i] = Apply(f[i - 1], s[i]) /\ f[i] # Violated
    BY <2>3, <2>4, AppliedToOne DEF Does
  <2> QED
    BY <2>1, <2>2, <2>5 DEF Executed, n
<1> QED
  BY <1>2, <1>3

\* A plan with a batch behind it.
LEMMA OutcomeAppended ==
  ASSUME NEW S, NEW p \in Seq(S), NEW b, NEW t, NEW f, Outcome(f, t, Append(p, b))
  PROVE  /\ Outcome(f, t, p) /\ Len(p) \in Nat /\ Len(Append(p, b)) = Len(p) + 1
         /\ Goes(f[Len(p)], b, f[Len(p) + 1])
<1> DEFINE T == S \cup {b}
           q == Append(p, b)
           n == Len(p)
<1>1. p \in Seq(T) /\ b \in T
  OBVIOUS
<1>2. n \in Nat /\ Len(q) = n + 1 /\ q[n + 1] = b /\ \A i \in 1..n : q[i] = p[i]
  <2> HIDE DEF T
  <2> QED
    BY <1>1, AppendProperties
<1> HIDE DEF q, n
<1>3. f[0] = t /\ \A i \in 1..(n + 1) : Goes(f[i - 1], q[i], f[i])
  BY <1>2 DEF Outcome, q
<1>4. \A i \in 1..n : Goes(f[i - 1], p[i], f[i])
  <2> TAKE i \in 1..n
  <2>1. i \in 1..(n + 1)
    BY <1>2
  <2> QED
    BY <1>2, <1>3, <2>1
<1>5. Goes(f[n], b, f[n + 1])
  <2>1. n + 1 \in 1..(n + 1) /\ (n + 1) - 1 = n
    BY <1>2
  <2>2. Goes(f[(n + 1) - 1], q[n + 1], f[n + 1])
    BY <1>3, <2>1
  <2> QED
    BY <1>2, <2>1, <2>2
<1> QED
  BY <1>2, <1>3, <1>4, <1>5 DEF Outcome, n, q

\* A plan whose first batch is done.
LEMMA OutcomeBegun ==
  ASSUME NEW S, NEW rest \in Seq(S), rest # <<>>, NEW t, NEW u, Goes(t, Head(rest), u),
         NEW f, Outcome(f, u, Tail(rest))
  PROVE  \E g : Outcome(g, t, rest) /\ g[Len(rest)] = f[Len(Tail(rest))]
<1> DEFINE n == Len(rest)
           g == [i \in 0..n |-> IF i = 0 THEN t ELSE f[i - 1]]
           w == Tail(rest)
<1>1. n \in Nat /\ n > 0 /\ Len(w) = n - 1 /\ Head(rest) = rest[1]
  BY HeadTailProperties
<1>2. \A i \in 1..(n - 1) : w[i] = rest[i + 1]
  BY <1>1
<1> HIDE DEF n, w
<1>3. g[0] = t /\ \A i \in 1..n : g[i] = f[i - 1]
  BY <1>1
<1> HIDE DEF g
<1>4. f[0] = u /\ \A i \in 1..(n - 1) : Goes(f[i - 1], w[i], f[i])
  BY <1>1 DEF Outcome, w
<1>5. ASSUME NEW i \in 1..n PROVE Goes(g[i - 1], rest[i], g[i])
  <2>1. CASE i = 1
    <3>1. g[1 - 1] = t /\ g[1] = u
      BY <1>1, <1>3, <1>4
    <3> QED
      BY <1>1, <2>1, <3>1
  <2>2. CASE i # 1
    <3>1. i - 1 \in 1..(n - 1) /\ i - 1 \in 1..n /\ (i - 1) + 1 = i
      BY <1>1, <2>2
    <3>2. Goes(f[(i - 1) - 1], w[i - 1], f[i - 1])
      BY <1>4, <3>1
    <3>3. g[i - 1] = f[(i - 1) - 1] /\ w[i - 1] = rest[i] /\ g[i] = f[i - 1]
      BY <1>2, <1>3, <3>1
    <3> QED
      BY <3>2, <3>3
  <2> QED
    BY <2>1, <2>2
<1>6. n \in 1..n
  BY <1>1
<1>7. g[n] = f[Len(w)]
  BY <1>1, <1>3, <1>6
<1> QED
  BY <1>3, <1>5, <1>7 DEF Outcome, n, w

\* What is left of a plan leads to what was asked once a batch of it is done.
LEMMA LeadsOn ==
  ASSUME NEW S, NEW rest \in Seq(S), rest # <<>>, NEW t, NEW r, NEW part,
         Leads(t, rest, r, part), NEW u, Goes(t, Head(rest), u)
  PROVE  Leads(u, Tail(rest), r, part)
<1> SUFFICES ASSUME NEW f, Outcome(f, u, Tail(rest)) PROVE Goal(f[Len(Tail(rest))], r, part)
  BY DEF Leads
<1>1. PICK g : Outcome(g, t, rest) /\ g[Len(rest)] = f[Len(Tail(rest))]
  BY OutcomeBegun
<1> QED
  BY <1>1 DEF Leads

\* And so once a reading of it is replaced by what it goes on with.
LEMMA LeadsReadOn ==
  ASSUME NEW S, NEW rest \in Seq(S), rest # <<>>, NEW t, NEW r, NEW part,
         Leads(t, rest, r, part), Reads(Head(rest)), NEW T, NEW found \in Seq(T),
         found = ReadOn(t, Head(Head(rest))),
         \A b \in T : ~Reads(b)
  PROVE  Leads(t, found \o Tail(rest), r, part)
<1> DEFINE w == Tail(rest)
           n == Len(found)
           p == found \o w
           m == Len(w)
<1>1. w \in Seq(S) /\ m \in Nat /\ n \in Nat
  BY HeadTailProperties
<1>2. /\ Len(p) = n + m
      /\ \A i \in 1..(n + m) : p[i] = IF i <= n THEN found[i] ELSE w[i - n]
  <2> HIDE DEF w
  <2>1. found \in Seq(S \cup T) /\ w \in Seq(S \cup T)
    BY <1>1
  <2> DEFINE X == S \cup T
  <2> HIDE DEF X
  <2>2. found \in Seq(X) /\ w \in Seq(X)
    BY <2>1 DEF X
  <2> QED
    BY <2>2, ConcatProperties
<1>3. \A i \in 1..n : ~Reads(found[i])
  OBVIOUS
<1> HIDE DEF w, n, p, m
<1> SUFFICES ASSUME NEW f, Outcome(f, t, p) PROVE Goal(f[Len(p)], r, part)
  BY DEF Leads, p, w
<1>4. f[0] = t /\ \A i \in 1..(n + m) : Goes(f[i - 1], p[i], f[i])
  BY <1>2 DEF Outcome
<1>5. \A i \in 1..n : Does(f[i - 1], found[i], f[i])
  <2> TAKE i \in 1..n
  <2>1. i \in 1..(n + m) /\ i <= n
    BY <1>1
  <2>2. Goes(f[i - 1], found[i], f[i])
    BY <1>2, <1>4, <2>1
  <2> QED
    BY <1>3, <2>2 DEF Goes
<1>6. Goes(t, Head(rest), f[n])
  <2> DEFINE b == Head(rest)
  <2>1. found = ReadOn(t, Head(b)) /\ Reads(b)
    OBVIOUS
  <2> HIDE DEF b
  <2>2. \E g : /\ g[0] = t /\ f[n] = g[Len(found)]
               /\ \A i \in 1..Len(found) : Does(g[i - 1], found[i], g[i])
    BY <1>4, <1>5 DEF n
  <2> QED
    BY <2>1, <2>2 DEF Goes, b
<1>7. Leads(f[n], w, r, part)
  BY <1>6, LeadsOn DEF w
<1> DEFINE h == [i \in 0..m |-> f[n + i]]
<1>8. Outcome(h, f[n], w)
  <2>1. h[0] = f[n]
    BY <1>1
  <2>2. ASSUME NEW i \in 1..m PROVE Goes(h[i - 1], w[i], h[i])
    <3>1. /\ n + i \in 1..(n + m) /\ ~(n + i <= n) /\ (n + i) - n = i
          /\ n + (i - 1) = (n + i) - 1 /\ i - 1 \in 0..m /\ i \in 0..m
      BY <1>1
    <3>2. Goes(f[(n + i) - 1], p[n + i], f[n + i]) /\ p[n + i] = w[i]
      BY <1>2, <1>4, <3>1
    <3>3. h[i - 1] = f[(n + i) - 1] /\ h[i] = f[n + i]
      BY <3>1
    <3> QED
      BY <3>2, <3>3
  <2> HIDE DEF h
  <2> QED
    BY <2>1, <2>2 DEF Outcome, m
<1>9. h[m] = f[n + m]
  BY <1>1
<1> HIDE DEF h
<1> QED
  BY <1>2, <1>7, <1>8, <1>9 DEF Leads, m

\* What a handler goes on with depends on the tables it has read alone.
LEMMA ReadOnRigid ==
  ASSUME NEW t, NEW s, backend' = backend
  PROVE  ReadOn(t, s)' = ReadOn(t, s)
<1>1. \A ms : SetLAPIRAPIOrder(ms)' = SetLAPIRAPIOrder(ms)
  BY DEF SetLAPIRAPIOrder, Tx
<1>2. \A m : MapToRoute(t, m)' = MapToRoute(t, m)
  <2> TAKE m
  <2> DEFINE c == Append(Chain(t), m)
  <2>1. SetLAPIRAPIOrder(c)' = SetLAPIRAPIOrder(c)
    BY <1>1
  <2> QED
    BY <2>1 DEF MapToRoute
<1> QED
  BY <1>2 DEF ReadOn

\* Where a batch goes is the same before a step and after it.
LEMMA GoesRigid ==
  ASSUME NEW t, NEW b, NEW u, backend' = backend
  PROVE  Goes(t, b, u)' <=> Goes(t, b, u)
<1>1. \A x, c, y : Does(x, c, y)' <=> Does(x, c, y)
  BY AppliedRigid DEF Does
<1>2. ReadOn(t, Head(b))' = ReadOn(t, Head(b))
  BY ReadOnRigid
<1> QED
  BY <1>1, <1>2 DEF Goes

\* So is what a request is granted by.
LEMMA GoalRigid ==
  ASSUME NEW t, NEW r, NEW part, backend' = backend
  PROVE  Goal(t, r, part)' <=> Goal(t, r, part)
<1>1. \A m : PoolOf(t, m)' = PoolOf(t, m)
  BY PoolOfRigid
<1>2. Granted(t, r)' <=> Granted(t, r)
  BY <1>1 DEF Granted
<1>3. Followed(t, r)' <=> Followed(t, r)
  BY DEF Followed
<1> QED
  BY <1>2, <1>3 DEF Goal

\* So is where a plan leads.
LEMMA LeadsRigid ==
  ASSUME NEW t, NEW rest, NEW r, NEW part, backend' = backend
  PROVE  Leads(t, rest, r, part)' <=> Leads(t, rest, r, part)
<1>1. \A f : Outcome(f, t, rest)' <=> Outcome(f, t, rest)
  BY GoesRigid DEF Outcome
<1>2. \A u : Goal(u, r, part)' <=> Goal(u, r, part)
  BY GoalRigid
<1> QED
  BY <1>1, <1>2 DEF Leads

----------------------------------------------------------------------------
(* Plans of either store.                                                   *)

\* A batch of statements; one that reads; and a plan of them.
PlainBatch(b) == b # <<>> /\ \E S : b \in Seq(S) /\ \A s \in S : IsStatement(s)
PlainPlan(rest) == \E S : rest \in Seq(S) /\ \A b \in S : PlainBatch(b)
ProperBatch(b) == PlainBatch(b) \/ \E s \in Readings : b = <<s>>
ProperPlan(rest) == \E S : rest \in Seq(S) /\ \A b \in S : ProperBatch(b)

\* A statement is no reading.
LEMMA StatementPlain == ASSUME NEW s, IsStatement(s) PROVE Plain(s)
<1>1. CASE s \in Statements
  BY <1>1 DEF Statements, Plain
<1>2. CASE s \in ProperStatements /\ s \notin Statements
  BY <1>2 DEF ProperStatements, Plain
<1>3. CASE s.op = "clear chain" \/ s.op = "link"
  BY <1>3 DEF Plain
<1> QED
  BY <1>1, <1>2, <1>3 DEF IsStatement

\* A batch of statements reads nothing, and leaves whole tables.
LEMMA BatchWhole ==
  ASSUME NEW b, PlainBatch(b)
  PROVE  /\ ~Reads(b)
         /\ \A t : Whole(t) /\ Applied(t, b) # Violated => Whole(Applied(t, b))
<1>1. PICK S : b \in Seq(S) /\ \A s \in S : IsStatement(s)
  BY DEF PlainBatch
<1>2. Head(b) \in S /\ Len(b) \in Nat /\ \A i \in 1..Len(b) : b[i] \in S
  BY <1>1 DEF PlainBatch
<1>3. ~Reads(b)
  BY <1>1, <1>2, StatementPlain DEF Reads
<1>4. ASSUME NEW t, Whole(t), Applied(t, b) # Violated PROVE Whole(Applied(t, b))
  <2>1. t # Violated
    BY <1>4, WholeFields
  <2>2. PICK g : Executed(g, t, b) /\ g[Len(b)] = Applied(t, b)
    BY <1>2, <1>4, <2>1, BatchExecuted
  <2>3. \A i \in 0..Len(b) : Whole(g[i])
    BY <1>1, <1>2, <1>4, <2>2, ExecutedWhole
  <2> QED
    BY <1>2, <2>2, <2>3
<1> QED
  BY <1>3, <1>4

\* A batch that is pending is no reading, so it leaves whole tables.
LEMMA PendingWhole ==
  ASSUME NEW b, ProperBatch(b), ~Reads(b), NEW t, Whole(t), Applied(t, b) # Violated
  PROVE  Whole(Applied(t, b))
<1>1. ~(\E s \in Readings : b = <<s>>)
  <2> SUFFICES ASSUME NEW s \in Readings, b = <<s>> PROVE FALSE
    OBVIOUS
  <2>1. Head(b) = s
    OBVIOUS
  <2>2. ~Plain(s)
    BY DEF Readings, Plain
  <2> QED
    BY <2>1, <2>2 DEF Reads
<1> QED
  BY <1>1, BatchWhole DEF ProperBatch

\* The plans of no batch, and of one; joined; continued.
LEMMA PlainFew ==
  /\ PlainPlan(<<>>)
  /\ \A b : PlainBatch(b) => PlainPlan(<<b>>)
  /\ \A s : IsStatement(s) => PlainBatch(<<s>>)
<1>1. PlainPlan(<<>>)
  <2> DEFINE q == <<>>
             S == {}
  <2>1. q \in Seq(S) /\ \A b \in S : PlainBatch(b)
    OBVIOUS
  <2> HIDE DEF q, S
  <2>2. PlainPlan(q)
    BY <2>1 DEF PlainPlan
  <2> QED
    BY <2>2 DEF q
<1>2. ASSUME NEW b, PlainBatch(b) PROVE PlainPlan(<<b>>)
  <2> DEFINE q == <<b>>
             S == {b}
  <2>1. q \in Seq(S) /\ \A c \in S : PlainBatch(c)
    BY <1>2
  <2> HIDE DEF q, S
  <2>2. PlainPlan(q)
    BY <2>1 DEF PlainPlan
  <2> QED
    BY <2>2 DEF q
<1>3. ASSUME NEW s, IsStatement(s) PROVE PlainBatch(<<s>>)
  <2> DEFINE q == <<s>>
             S == {s}
  <2>1. q \in Seq(S) /\ (\A c \in S : IsStatement(c)) /\ q # <<>>
    BY <1>3
  <2> HIDE DEF q, S
  <2>2. PlainBatch(q)
    BY <2>1 DEF PlainBatch
  <2> QED
    BY <2>2 DEF q
<1> QED
  BY <1>1, <1>2, <1>3

\* A plan of statements is a plan of statements and readings.
LEMMA PlainIsProper == ASSUME NEW p, PlainPlan(p) PROVE ProperPlan(p)
BY DEF PlainPlan, ProperPlan, ProperBatch

\* Two plans that are joined.
LEMMA ProperJoined ==
  ASSUME NEW p, NEW q, ProperPlan(p), ProperPlan(q)
  PROVE  ProperPlan(p \o q)
<1>1. PICK S : p \in Seq(S) /\ \A b \in S : ProperBatch(b)
  BY DEF ProperPlan
<1>2. PICK T : q \in Seq(T) /\ \A b \in T : ProperBatch(b)
  BY DEF ProperPlan
<1>3. p \in Seq(S \cup T) /\ q \in Seq(S \cup T)
  BY <1>1, <1>2
<1>4. p \o q \in Seq(S \cup T)
  BY <1>3
<1>5. \A b \in S \cup T : ProperBatch(b)
  BY <1>1, <1>2
<1> QED
  BY <1>4, <1>5 DEF ProperPlan

\* A plan and one more batch.
LEMMA ProperAppended ==
  ASSUME NEW p, ProperPlan(p), NEW b, ProperBatch(b)
  PROVE  ProperPlan(Append(p, b))
<1>1. PICK S : p \in Seq(S) /\ \A c \in S : ProperBatch(c)
  BY DEF ProperPlan
<1> DEFINE T == S \cup {b}
<1>2. p \in Seq(T) /\ b \in T /\ \A c \in T : ProperBatch(c)
  BY <1>1
<1> HIDE DEF T
<1>3. Append(p, b) \in Seq(T)
  BY <1>2
<1> QED
  BY <1>2, <1>3 DEF ProperPlan

\* A plan of statements, and one more batch of them.
LEMMA PlainAppended ==
  ASSUME NEW p, PlainPlan(p), NEW b, PlainBatch(b)
  PROVE  PlainPlan(Append(p, b))
<1>1. PICK S : p \in Seq(S) /\ \A c \in S : PlainBatch(c)
  BY DEF PlainPlan
<1> DEFINE T == S \cup {b}
<1>2. p \in Seq(T) /\ b \in T /\ \A c \in T : PlainBatch(c)
  BY <1>1
<1> HIDE DEF T
<1>3. Append(p, b) \in Seq(T)
  BY <1>2
<1> QED
  BY <1>2, <1>3 DEF PlainPlan

\* The first batch of such a plan, and the rest of it.
LEMMA PlainGoesOn ==
  ASSUME NEW rest, PlainPlan(rest), rest # <<>>
  PROVE  PlainBatch(Head(rest)) /\ PlainPlan(Tail(rest)) /\ \E S : rest \in Seq(S)
<1>1. PICK S : rest \in Seq(S) /\ \A b \in S : PlainBatch(b)
  BY DEF PlainPlan
<1>2. Head(rest) \in S /\ Tail(rest) \in Seq(S)
  BY <1>1, HeadTailProperties
<1> QED
  BY <1>1, <1>2 DEF PlainPlan

\* The first batch of a plan, and the rest of it.
LEMMA ProperGoesOn ==
  ASSUME NEW rest, ProperPlan(rest), rest # <<>>
  PROVE  ProperBatch(Head(rest)) /\ ProperPlan(Tail(rest)) /\ \E S : rest \in Seq(S)
<1>1. PICK S : rest \in Seq(S) /\ \A b \in S : ProperBatch(b)
  BY DEF ProperPlan
<1>2. Head(rest) \in S /\ Tail(rest) \in Seq(S)
  BY <1>1, HeadTailProperties
<1> QED
  BY <1>1, <1>2 DEF ProperPlan

\* A transaction of statements, or the calls that stand for it.
LEMMA PlainTx ==
  ASSUME NEW S, NEW s \in Seq(S), s # <<>>, \A x \in S : IsStatement(x)
  PROVE  PlainPlan(Tx(s))
<1>1. CASE backend = "local"
  <2>1. PlainBatch(s)
    BY DEF PlainBatch
  <2> QED
    BY <1>1, <2>1, PlainFew DEF Tx
<1>2. CASE backend # "local"
  <2> DEFINE n == Len(s)
             B == {<<x>> : x \in S}
             p == [i \in 1..n |-> <<s[i]>>]
  <2>1. n \in Nat /\ DOMAIN s = 1..n /\ \A i \in 1..n : s[i] \in S
    OBVIOUS
  <2>2. Tx(s) = p
    BY <1>2, <2>1 DEF Tx
  <2>3. \A b \in B : PlainBatch(b)
    BY PlainFew
  <2>4. \A i \in 1..n : p[i] \in B
    BY <2>1
  <2>5. p \in Seq(B)
    <3>1. p = [i \in 1..n |-> p[i]]
      OBVIOUS
    <3> HIDE DEF p, B, n
    <3> QED
      BY <2>1, <2>4, <3>1
  <2> HIDE DEF p, B
  <2> QED
    BY <2>2, <2>3, <2>5 DEF PlainPlan
<1> QED
  BY <1>1, <1>2

\* A list with something before it.
LEMMA PutBefore ==
  ASSUME NEW x, NEW n \in Nat, NEW q, q = [i \in 1..n |-> q[i]], NEW S, x \in S,
         \A i \in 1..n : q[i] \in S
  PROVE  /\ <<x>> \o q \in Seq(S) /\ Len(<<x>> \o q) = n + 1 /\ (<<x>> \o q)[1] = x
         /\ \A i \in 1..n : (<<x>> \o q)[i + 1] = q[i]
         /\ q \in Seq(S) /\ Len(q) = n /\ <<x>> \o q # <<>>
<1>1. q \in Seq(S) /\ Len(q) = n
  OBVIOUS
<1> DEFINE y == <<x>>
           p == y \o q
<1>2. y \in Seq(S) /\ Len(y) = 1 /\ y[1] = x
  OBVIOUS
<1> HIDE DEF y
<1>3. /\ p \in Seq(S) /\ Len(p) = 1 + n
      /\ \A i \in 1..(1 + n) : p[i] = IF i <= 1 THEN y[i] ELSE q[i - 1]
  <2> HIDE DEF p
  <2> DEFINE c == y \o q
  <2>0. p = c
    BY DEF p
  <2>1. /\ c \in Seq(S) /\ Len(c) = Len(y) + Len(q)
        /\ \A i \in 1..(Len(y) + Len(q)) : c[i] = IF i <= Len(y) THEN y[i] ELSE q[i - Len(y)]
    BY <1>1, <1>2, ConcatProperties
  <2> HIDE DEF c
  <2> QED
    BY <1>1, <1>2, <2>0, <2>1
<1> HIDE DEF p
<1>4. p[1] = x
  <2>1. 1 \in 1..(1 + n)
    OBVIOUS
  <2>2. p[1] = y[1]
    <3> DEFINE one == 1
    <3>1. one \in 1..(1 + n) /\ one <= 1
      BY <2>1
    <3> HIDE DEF one
    <3>2. p[one] = y[one]
      BY <1>3, <3>1
    <3> QED
      BY <3>2 DEF one
  <2>3. y[1] = x
    BY <1>2
  <2> QED
    BY <2>2, <2>3
<1>5. \A i \in 1..n : p[i + 1] = q[i]
  <2> TAKE i \in 1..n
  <2>1. i + 1 \in 1..(1 + n) /\ ~(i + 1 <= 1) /\ (i + 1) - 1 = i
    OBVIOUS
  <2> QED
    BY <1>3, <2>1
<1>6. p # <<>>
  BY <1>3
<1> QED
  BY <1>1, <1>3, <1>4, <1>5, <1>6 DEF p, y

\* What is executed after the first statement.
LEMMA ExecutedOn ==
  ASSUME NEW S, NEW q \in Seq(S), NEW x \in S, NEW t, NEW g, Executed(g, t, <<x>> \o q)
  PROVE  /\ Apply(t, x) # Violated
         /\ \E h : Executed(h, Apply(t, x), q) /\ h[Len(q)] = g[Len(<<x>> \o q)]
<1> DEFINE n == Len(q)
           p == <<x>> \o q
<1>1. n \in Nat /\ q = [i \in 1..n |-> q[i]] /\ \A i \in 1..n : q[i] \in S
  OBVIOUS
<1>2. Len(p) = n + 1 /\ p[1] = x /\ \A i \in 1..n : p[i + 1] = q[i]
  <2> HIDE DEF n
  <2>1. /\ Len(<<x>> \o q) = n + 1 /\ (<<x>> \o q)[1] = x
        /\ \A i \in 1..n : (<<x>> \o q)[i + 1] = q[i]
    BY <1>1, PutBefore
  <2> QED
    BY <2>1
<1> HIDE DEF p, n
<1>3. g[0] = t /\ \A i \in 1..(n + 1) : g[i] = Apply(g[i - 1], p[i]) /\ g[i] # Violated
  BY <1>2 DEF Executed, p
<1>4. g[1] = Apply(t, x) /\ g[1] # Violated
  <2>1. 1 \in 1..(n + 1) /\ 1 - 1 = 0
    BY <1>1
  <2>2. g[1] = Apply(g[1 - 1], p[1]) /\ g[1] # Violated
    BY <1>3, <2>1
  <2> QED
    BY <1>2, <1>3, <2>1, <2>2
<1> DEFINE h == [i \in 0..n |-> g[i + 1]]
<1>5. h[0] = Apply(t, x)
  BY <1>1, <1>4
<1>6. ASSUME NEW i \in 1..n PROVE h[i] = Apply(h[i - 1], q[i]) /\ h[i] # Violated
  <2>1. i + 1 \in 1..(n + 1) /\ (i + 1) - 1 = i /\ i - 1 \in 0..n /\ i \in 0..n /\ (i - 1) + 1 = i
    BY <1>1
  <2>2. g[i + 1] = Apply(g[i], p[i + 1]) /\ g[i + 1] # Violated
    BY <1>3, <2>1
  <2>3. h[i] = g[i + 1] /\ h[i - 1] = g[i]
    BY <2>1
  <2> QED
    BY <1>2, <2>2, <2>3
<1>7. h[n] = g[n + 1]
  BY <1>1
<1> HIDE DEF h
<1> QED
  BY <1>2, <1>4, <1>5, <1>6, <1>7 DEF Executed, n, p

----------------------------------------------------------------------------
(* What the handlers' statements leave.                                     *)

\* The statements of a chain.
ChainOf(ms) ==
  <<[op |-> "clear chain"]>> \o [i \in DOMAIN ms |-> [op |-> "link", i |-> i - 1, m |-> ms[i]]]

\* A chain is put down by statements there are places for.
LEMMA ChainOfIs ==
  ASSUME NEW n \in Nat, n <= Cardinality(Models), NEW ms, DOMAIN ms = 1..n
  PROVE  /\ SetLAPIRAPIOrder(ms) = Tx(ChainOf(ms))
         /\ \E S : ChainOf(ms) \in Seq(S) /\ \A s \in S : IsStatement(s)
         /\ ChainOf(ms) # <<>> /\ Len(ChainOf(ms)) = n + 1
         /\ ChainOf(ms)[1] = [op |-> "clear chain"]
         /\ \A i \in 1..n : ChainOf(ms)[i + 1] = [op |-> "link", i |-> i - 1, m |-> ms[i]]
<1> DEFINE q == [i \in DOMAIN ms |-> [op |-> "link", i |-> i - 1, m |-> ms[i]]]
           x == [op |-> "clear chain"]
           S == {q[i] : i \in 1..n} \cup {x}
<1>1. SetLAPIRAPIOrder(ms) = Tx(ChainOf(ms))
  BY DEF SetLAPIRAPIOrder, ChainOf
<1>2. q = [i \in 1..n |-> q[i]] /\ \A i \in 1..n : q[i] = [op |-> "link", i |-> i - 1, m |-> ms[i]]
  OBVIOUS
<1>3. ASSUME NEW i \in 1..n PROVE IsStatement(q[i])
  <2> DEFINE s == [op |-> "link", i |-> i - 1, m |-> ms[i]]
  <2>1. q[i] = s
    BY <1>2
  <2>2. i - 1 \in Places
    <3>1. Cardinality(Models) \in Nat
      BY DefinitionsAssumption, FS_CardinalityType
    <3> QED
      BY <3>1 DEF Places
  <2>3. s.op = "link" /\ s.i \in Places
    BY <2>2
  <2> HIDE DEF s, q
  <2> QED
    BY <2>1, <2>3 DEF IsStatement
<1>4. IsStatement(x)
  BY DEF IsStatement
<1>5. x \in S /\ \A i \in 1..n : q[i] \in S
  OBVIOUS
<1>6. \A s \in S : IsStatement(s)
  BY <1>3, <1>4
<1>7. ChainOf(ms) = <<x>> \o q
  BY DEF ChainOf
<1> HIDE DEF q, x, S
<1>8. /\ <<x>> \o q \in Seq(S) /\ Len(<<x>> \o q) = n + 1 /\ (<<x>> \o q)[1] = x
      /\ \A i \in 1..n : (<<x>> \o q)[i + 1] = q[i]
      /\ <<x>> \o q # <<>>
  BY <1>2, <1>5, PutBefore
<1>9. \E T : ChainOf(ms) \in Seq(T) /\ \A s \in T : IsStatement(s)
  BY <1>6, <1>7, <1>8
<1>10. \A i \in 1..n : ChainOf(ms)[i + 1] = [op |-> "link", i |-> i - 1, m |-> ms[i]]
  BY <1>2, <1>7, <1>8
<1>11. ChainOf(ms) # <<>> /\ Len(ChainOf(ms)) = n + 1 /\ ChainOf(ms)[1] = [op |-> "clear chain"]
  BY <1>7, <1>8 DEF x
<1> QED
  BY <1>1, <1>9, <1>10, <1>11

\* Its statements, one by one.
LEMMA ChainAt ==
  ASSUME NEW n \in Nat, n <= Cardinality(Models), NEW ms, DOMAIN ms = 1..n
  PROVE  /\ Len(ChainOf(ms)) = n + 1
         /\ ChainOf(ms)[1] = [op |-> "clear chain"]
         /\ \A i \in 1..n : ChainOf(ms)[i + 1] = [op |-> "link", i |-> i - 1, m |-> ms[i]]
BY ChainOfIs, ZenonT(60)

\* A chain that was put down is the chain there is.
LEMMA ChainDone ==
  ASSUME NEW t, Whole(t), NEW n \in Nat, n <= Cardinality(Models), NEW ms, ms = [i \in 1..n |-> ms[i]],
         NEW g, Executed(g, t, ChainOf(ms)), NEW u, u = g[Len(ChainOf(ms))]
  PROVE  Whole(u) /\ Chain(u) = ms /\ u.at = t.at /\ u.route = t.route
<1>0. DOMAIN ms = 1..n
  <2>1. DOMAIN [i \in 1..n |-> ms[i]] = 1..n
    OBVIOUS
  <2> QED
    BY <2>1
<1>1. /\ Len(ChainOf(ms)) = n + 1 /\ ChainOf(ms)[1] = [op |-> "clear chain"]
      /\ \A i \in 1..n : ChainOf(ms)[i + 1] = [op |-> "link", i |-> i - 1, m |-> ms[i]]
  BY <1>0, ChainAt, ZenonT(60)
<1>2. g[0] = t /\ \A i \in 1..(n + 1) : g[i] = Apply(g[i - 1], ChainOf(ms)[i]) /\ g[i] # Violated
  BY <1>1 DEF Executed
<1>3. \A i \in 1..n : i - 1 \in Places
  <2>1. Cardinality(Models) \in Nat
    BY DefinitionsAssumption, FS_CardinalityType
  <2> QED
    BY <2>1 DEF Places
<1> DEFINE Put(k) == {<<j - 1, ms[j]>> : j \in 1..k}
           Fine(k) == /\ Whole(g[k + 1]) /\ g[k + 1].at = t.at /\ g[k + 1].route = t.route
                      /\ g[k + 1].order = Put(k)
                      /\ \A i \in 1..k : ms[i] \in Models
                      /\ \A i, j \in 1..k : ms[i] = ms[j] => i = j
           ok == {k \in 0..n : Fine(k)}
<1>4. 0 \in ok
  <2>1. g[1] = Apply(t, [op |-> "clear chain"])
    <3>1. 1 \in 1..(n + 1) /\ 1 - 1 = 0
      OBVIOUS
    <3>2. g[1] = Apply(g[1 - 1], ChainOf(ms)[1])
      BY <1>2, <3>1
    <3> QED
      BY <1>1, <1>2, <3>1, <3>2
  <2>2. g[1] = [t EXCEPT !.order = {}]
    BY <2>1 DEF Apply
  <2>3. Whole(g[1]) /\ g[1].at = t.at /\ g[1].route = t.route /\ g[1].order = {}
    BY <2>2, WholeChain
  <2>4. 0 + 1 = 1 /\ Put(0) = {} /\ 1..0 = {}
    OBVIOUS
  <2>5. Fine(0)
    BY <2>3, <2>4
  <2> QED
    BY <2>5
<1>5. ASSUME NEW k \in 0..n, k \in ok, k < n PROVE k + 1 \in ok
  <2> DEFINE v == g[k + 1]
             w == g[(k + 1) + 1]
             m == ms[k + 1]
  <2>1. /\ k + 1 \in 1..n /\ (k + 1) + 1 \in 1..(n + 1) /\ ((k + 1) + 1) - 1 = k + 1
        /\ (k + 1) - 1 = k /\ k + 1 \in 0..n
    BY <1>5
  <2>2. Fine(k)
    BY <1>5
  <2>3. w = Apply(v, [op |-> "link", i |-> k, m |-> m]) /\ w # Violated
    <3>1. w = Apply(g[((k + 1) + 1) - 1], ChainOf(ms)[(k + 1) + 1]) /\ w # Violated
      BY <1>2, <2>1
    <3>2. ChainOf(ms)[(k + 1) + 1] = [op |-> "link", i |-> (k + 1) - 1, m |-> ms[k + 1]]
      BY <1>1, <2>1
    <3> QED
      BY <2>1, <3>1, <3>2
  <2>4. w = Link(v, k, m)
    BY <2>3 DEF Apply
  <2>5. k \in Places
    BY <1>3, <2>1
  <2>6. /\ Whole(w) /\ m \in Models /\ w.at = v.at /\ w.route = v.route
        /\ w.order = v.order \cup {<<k, m>>}
        /\ \A x \in v.order : x[1] # k /\ x[2] # m
    <3>1. Whole(v) /\ Link(v, k, m) # Violated
      BY <2>2, <2>3, <2>4
    <3> HIDE DEF v, w, m
    <3>2. /\ Whole(Link(v, k, m)) /\ m \in Models /\ Link(v, k, m).at = v.at
          /\ Link(v, k, m).order = v.order \cup {<<k, m>>} /\ Link(v, k, m).route = v.route
          /\ \A x \in v.order : x[1] # k /\ x[2] # m
      BY <2>5, <3>1, LinkedOne
    <3> QED
      BY <2>4, <3>2
  <2>7. \A i \in 1..(k + 1) : i \in 1..k \/ i = k + 1
    BY <2>1
  <2>8. w.order = Put(k + 1)
    <3>1. Put(k + 1) = Put(k) \cup {<<k, m>>}
      <4>1. <<(k + 1) - 1, ms[k + 1]>> = <<k, m>> /\ k + 1 \in 1..(k + 1) /\ 1..k \subseteq 1..(k + 1)
        BY <2>1
      <4> HIDE DEF m
      <4> QED
        BY <2>7, <4>1
    <3> QED
      BY <2>2, <2>6, <3>1
  <2>9. \A i \in 1..k : ms[i] # m
    <3> TAKE i \in 1..k
    <3>1. <<i - 1, ms[i]>> \in v.order
      BY <2>2
    <3>2. <<i - 1, ms[i]>>[2] # m
      BY <2>6, <3>1
    <3> QED
      BY <3>2
  <2>10. Fine(k + 1)
    <3>1. \A i \in 1..(k + 1) : ms[i] \in Models
      BY <2>2, <2>6, <2>7
    <3>2. \A i, j \in 1..(k + 1) : ms[i] = ms[j] => i = j
      BY <2>2, <2>7, <2>9
    <3>3. w.at = t.at /\ w.route = t.route
      BY <2>2, <2>6
    <3> HIDE DEF Put
    <3> QED
      BY <2>6, <2>8, <3>1, <3>2, <3>3
  <2> QED
    BY <2>1, <2>10
<1> HIDE DEF ok
<1>6. 0..n \subseteq ok
  BY <1>4, <1>5, InductionUpTo
<1>7. Fine(n)
  <2>1. n \in ok
    <3>1. n \in 0..n
      OBVIOUS
    <3> QED
      BY <1>6, <3>1
  <2> HIDE DEF Fine
  <2> QED
    BY <2>1 DEF ok
<1>8. u = g[n + 1]
  BY <1>1
<1>9. ms \in [1..n -> Models]
  <2>1. \A i \in 1..n : ms[i] \in Models
    BY <1>7
  <2> QED
    BY <2>1
<1>10. Chain(u) = ms
  <2>1. /\ Whole(u) /\ u.order = {<<i - 1, ms[i]>> : i \in 1..n}
        /\ \A i, j \in 1..n : ms[i] = ms[j] => i = j
    BY <1>7, <1>8
  <2> QED
    BY <1>9, <2>1, ChainAsWritten
<1> QED
  BY <1>7, <1>8, <1>10

\* The statements for the bindings of a model, in either store.
LEMMA BindingsAre ==
  ASSUME NEW m \in Models, NEW p \in Platforms, NEW keys \in SUBSET Creds
  PROVE  /\ \E S : Bindings(m, p, keys) \in Seq(S) /\ \A s \in S : IsStatement(s)
         /\ backend = "local" =>
              /\ Len(Bindings(m, p, keys)) = 1
              /\ Bindings(m, p, keys)[1] = [op |-> "sync bindings", m |-> m, p |-> p, keys |-> keys]
         /\ backend # "local" =>
              /\ Len(Bindings(m, p, keys)) = Cardinality(keys) + 1
              /\ Bindings(m, p, keys)[1] = [op |-> "unbind rapi", m |-> m]
              /\ \A i \in 1..Cardinality(keys) :
                   Bindings(m, p, keys)[i + 1] = [op |-> "bind", m |-> m, k |-> SetToSeq(keys)[i]]
<1>1. CASE backend = "local"
  <2> DEFINE s == [op |-> "sync bindings", m |-> m, p |-> p, keys |-> keys]
             q == <<s>>
             S == {s}
  <2>1. Bindings(m, p, keys) = q
    BY <1>1 DEF Bindings
  <2>2. IsStatement(s)
    BY DEF IsStatement, ProperStatements
  <2>3. q \in Seq(S) /\ (\A x \in S : IsStatement(x)) /\ Len(q) = 1 /\ q[1] = s
    <3> HIDE DEF s
    <3> QED
      BY <2>2
  <2> HIDE DEF q, S
  <2>4. \E T : q \in Seq(T) /\ \A x \in T : IsStatement(x)
    BY <2>3
  <2> QED
    BY <1>1, <2>1, <2>3, <2>4
<1>2. CASE backend # "local"
  <2> DEFINE n == Cardinality(keys)
             q == [i \in 1..n |-> [op |-> "bind", m |-> m, k |-> SetToSeq(keys)[i]]]
             x == [op |-> "unbind rapi", m |-> m]
             S == {q[i] : i \in 1..n} \cup {x}
  <2>1. Bindings(m, p, keys) = <<x>> \o q
    BY <1>2 DEF Bindings
  <2>2. IsFiniteSet(keys)
    BY DefinitionsAssumption, FS_Subset
  <2>3. n \in Nat /\ SetToSeq(keys) \in [1..n -> keys]
    BY <2>2, Enumerated
  <2> HIDE DEF n
  <2>4. /\ q = [i \in 1..n |-> q[i]]
        /\ \A i \in 1..n : q[i] = [op |-> "bind", m |-> m, k |-> SetToSeq(keys)[i]]
    OBVIOUS
  <2>5. ASSUME NEW i \in 1..n PROVE IsStatement(q[i])
    <3> DEFINE k == SetToSeq(keys)[i]
    <3>1. k \in Creds /\ q[i] = [op |-> "bind", m |-> m, k |-> k]
      BY <2>3
    <3> HIDE DEF k, q
    <3>2. [op |-> "bind", m |-> m, k |-> k] \in ProperStatements
      BY <3>1 DEF ProperStatements
    <3> QED
      BY <3>1, <3>2 DEF IsStatement
  <2>6. IsStatement(x)
    BY DEF IsStatement, ProperStatements
  <2>7. x \in S /\ (\A i \in 1..n : q[i] \in S) /\ \A s \in S : IsStatement(s)
    BY <2>5, <2>6
  <2> HIDE DEF q, S, x
  <2>8. /\ <<x>> \o q \in Seq(S) /\ Len(<<x>> \o q) = n + 1 /\ (<<x>> \o q)[1] = x
        /\ \A i \in 1..n : (<<x>> \o q)[i + 1] = q[i]
    BY <2>3, <2>4, <2>7, PutBefore
  <2>9. \E T : Bindings(m, p, keys) \in Seq(T) /\ \A s \in T : IsStatement(s)
    BY <2>1, <2>7, <2>8
  <2>10. \A i \in 1..n :
           Bindings(m, p, keys)[i + 1] = [op |-> "bind", m |-> m, k |-> SetToSeq(keys)[i]]
    BY <2>1, <2>4, <2>8
  <2>11. Len(Bindings(m, p, keys)) = n + 1 /\ Bindings(m, p, keys)[1] = [op |-> "unbind rapi", m |-> m]
    BY <2>1, <2>8 DEF x
  <2> QED
    BY <1>2, <2>9, <2>10, <2>11 DEF n
<1> QED
  BY <1>1, <1>2

\* In the local store they are one statement, in the center one for each key.
LEMMA BindingsAt ==
  ASSUME NEW m \in Models, NEW p \in Platforms, NEW keys \in SUBSET Creds
  PROVE  /\ backend = "local" =>
              /\ Len(Bindings(m, p, keys)) = 1
              /\ Bindings(m, p, keys)[1] = [op |-> "sync bindings", m |-> m, p |-> p, keys |-> keys]
         /\ backend # "local" =>
              /\ Len(Bindings(m, p, keys)) = Cardinality(keys) + 1
              /\ Bindings(m, p, keys)[1] = [op |-> "unbind rapi", m |-> m]
              /\ \A i \in 1..Cardinality(keys) :
                   Bindings(m, p, keys)[i + 1] = [op |-> "bind", m |-> m, k |-> SetToSeq(keys)[i]]
BY BindingsAre, ZenonT(60)

\* In u the model is bound as the form says, which was sent when there was w.
AsNamed(u, w, m, p, keys) ==
  /\ backend = "local" =>
       u.column[m] = IF keys = {} THEN KeysAt(w, p) ELSE keys \cap KeysAt(w, p)
  /\ backend # "local" => Bound(u, m) = keys

\* The bindings of a model are those of the form once they are written.
LEMMA BindingsDone ==
  ASSUME NEW w, Whole(w), NEW m \in Models, NEW p \in Platforms, NEW keys \in SUBSET Creds,
         NEW g, Executed(g, w, Bindings(m, p, keys)), NEW u, u = g[Len(Bindings(m, p, keys))]
  PROVE  Whole(u) /\ ButBindings(w, u) /\ AsNamed(u, w, m, p, keys)
<1> DEFINE b == Bindings(m, p, keys)
<1>1. CASE backend = "local"
  <2>0. Len(b) = 1
    BY <1>1, BindingsAt, ZenonT(60)
  <2>1. b[1] = [op |-> "sync bindings", m |-> m, p |-> p, keys |-> keys]
    BY <1>1, BindingsAt, ZenonT(60)
  <2>2. g[1] = Apply(w, b[1]) /\ g[1] # Violated /\ u = g[1]
    <3> HIDE DEF b
    <3>0. /\ g[0] = w /\ \A i \in 1..Len(b) : g[i] = Apply(g[i - 1], b[i]) /\ g[i] # Violated
          /\ u = g[Len(b)]
      BY DEF Executed, b
    <3>1. 1 \in 1..Len(b) /\ 1 - 1 = 0
      BY <2>0
    <3>2. g[1] = Apply(g[1 - 1], b[1]) /\ g[1] # Violated
      BY <3>0, <3>1
    <3> QED
      BY <2>0, <3>0, <3>1, <3>2
  <2>3. u = WithBindings(w, m, p, keys) /\ u # Violated
    <3>1. Apply(w, [op |-> "sync bindings", m |-> m, p |-> p, keys |-> keys])
            = WithBindings(w, m, p, keys)
      BY DEF Apply
    <3> QED
      BY <2>1, <2>2, <3>1
  <2>4. /\ Whole(WithBindings(w, m, p, keys)) /\ ButBindings(w, WithBindings(w, m, p, keys))
        /\ WithBindings(w, m, p, keys).column[m]
             = IF keys = {} THEN KeysAt(w, p) ELSE keys \cap KeysAt(w, p)
    BY <2>3, SyncedBindings
  <2>5. AsNamed(u, w, m, p, keys)
    BY <1>1, <2>3, <2>4 DEF AsNamed
  <2> QED
    BY <2>3, <2>4, <2>5
<1>2. CASE backend # "local"
  <2> DEFINE n == Cardinality(keys)
             q == SetToSeq(keys)
  <2>1. IsFiniteSet(keys)
    BY DefinitionsAssumption, FS_Subset
  <2>2. n \in Nat /\ q \in [1..n -> keys] /\ \A x \in keys : \E i \in 1..n : q[i] = x
    BY <2>1, Enumerated
  <2>3. /\ Len(b) = n + 1 /\ b[1] = [op |-> "unbind rapi", m |-> m]
        /\ \A i \in 1..n : b[i + 1] = [op |-> "bind", m |-> m, k |-> q[i]]
    BY <1>2, BindingsAt, ZenonT(60)
  <2> HIDE DEF n, q
  <2>4. g[0] = w /\ \A i \in 1..(n + 1) : g[i] = Apply(g[i - 1], b[i]) /\ g[i] # Violated
    BY <2>3 DEF Executed
  <2>5. u = g[n + 1]
    BY <2>3
  <2> HIDE DEF b
  <2> DEFINE Fine(i) == /\ Whole(g[i + 1]) /\ ButBindings(w, g[i + 1])
                        /\ Bound(g[i + 1], m) = {q[j] : j \in 1..i}
             ok == {i \in 0..n : Fine(i)}
  <2>6. 0 \in ok
    <3>1. 1 \in 1..(n + 1) /\ 1 - 1 = 0
      BY <2>2
    <3>2. g[1] = Apply(g[1 - 1], b[1])
      BY <2>4, <3>1
    <3>3. g[1] = Apply(w, [op |-> "unbind rapi", m |-> m])
      BY <2>3, <2>4, <3>1, <3>2
    <3>4. g[1] = [w EXCEPT !.bound = {x \in w.bound : x[1] # m}]
      BY <3>3 DEF Apply
    <3>5. Whole(g[1]) /\ ButBindings(w, g[1]) /\ Bound(g[1], m) = {}
      BY <3>4, UnboundModel
    <3>6. 0 + 1 = 1 /\ {q[j] : j \in 1..0} = {} /\ 0 \in 0..n
      BY <2>2
    <3> QED
      BY <3>5, <3>6
  <2>7. ASSUME NEW i \in 0..n, i \in ok, i < n PROVE i + 1 \in ok
    <3> DEFINE v == g[i + 1]
               y == g[(i + 1) + 1]
               k == q[i + 1]
    <3>1. /\ i + 1 \in 1..n /\ (i + 1) + 1 \in 1..(n + 1) /\ ((i + 1) + 1) - 1 = i + 1
          /\ i + 1 \in 0..n
      BY <2>2, <2>7
    <3>2. Fine(i)
      BY <2>7
    <3>3. y = Apply(v, [op |-> "bind", m |-> m, k |-> k]) /\ y # Violated
      <4>1. y = Apply(g[((i + 1) + 1) - 1], b[(i + 1) + 1]) /\ y # Violated
        BY <2>4, <3>1
      <4>2. b[(i + 1) + 1] = [op |-> "bind", m |-> m, k |-> q[i + 1]]
        BY <2>3, <3>1
      <4> QED
        BY <3>1, <4>1, <4>2
    <3>4. y = Bind(v, m, k)
      BY <3>3 DEF Apply
    <3>5. k \in Creds
      BY <2>2, <3>1
    <3>6. Whole(y) /\ ButBindings(v, y) /\ Bound(y, m) = Bound(v, m) \cup {k}
      <4>1. Whole(v) /\ Bind(v, m, k) # Violated
        BY <3>2, <3>3, <3>4
      <4> HIDE DEF v, y, k
      <4>2. /\ Whole(Bind(v, m, k)) /\ ButBindings(v, Bind(v, m, k))
            /\ Bound(Bind(v, m, k), m) = Bound(v, m) \cup {k}
        BY <3>5, <4>1, BoundOne
      <4> QED
        BY <3>4, <4>2
    <3>7. {q[j] : j \in 1..(i + 1)} = {q[j] : j \in 1..i} \cup {k}
      <4>1. \A j \in 1..(i + 1) : j \in 1..i \/ j = i + 1
        BY <3>1
      <4>2. i + 1 \in 1..(i + 1) /\ 1..i \subseteq 1..(i + 1)
        BY <3>1
      <4> QED
        BY <4>1, <4>2
    <3>8. ButBindings(w, y)
      BY <3>2, <3>6 DEF ButBindings
    <3>9. Fine(i + 1)
      BY <3>2, <3>6, <3>7, <3>8
    <3> QED
      BY <3>1, <3>9
  <2> HIDE DEF ok
  <2>8. 0..n \subseteq ok
    BY <2>2, <2>6, <2>7, InductionUpTo
  <2>9. Fine(n)
    <3>1. n \in ok
      BY <2>2, <2>8
    <3> HIDE DEF Fine
    <3> QED
      BY <3>1 DEF ok
  <2>10. {q[j] : j \in 1..n} = keys
    BY <2>2
  <2>11. Bound(u, m) = keys
    BY <2>5, <2>9, <2>10
  <2>12. AsNamed(u, w, m, p, keys)
    BY <1>2, <2>11 DEF AsNamed
  <2> QED
    BY <2>5, <2>9, <2>12
<1> QED
  BY <1>1, <1>2

\* Keys that are inserted one by one are as many as the calls.
LEMMA KeysDone ==
  ASSUME NEW t, Whole(t), NEW p \in Platforms, NEW n \in Nat,
         NEW s, \A v : Apply(v, s) = InsertKey(v, p),
         NEW q, Len(q) = n, \A i \in 1..n : q[i] = s,
         NEW g, Executed(g, t, q), KeysAt(t, p) = {}
  PROVE  Cardinality(KeysAt(g[n], p)) = n
<1> DEFINE Fine(i) == Whole(g[i]) /\ Cardinality(KeysAt(g[i], p)) = i
           ok == {i \in 0..n : Fine(i)}
<1>1. g[0] = t /\ \A i \in 1..n : g[i] = Apply(g[i - 1], q[i]) /\ g[i] # Violated
  BY DEF Executed
<1>2. 0 \in ok
  <2>1. Fine(0)
    BY <1>1, FS_EmptySet
  <2> QED
    BY <2>1
<1>3. ASSUME NEW i \in 0..n, i \in ok, i < n PROVE i + 1 \in ok
  <2> DEFINE v == g[i]
             w == g[i + 1]
  <2>1. i + 1 \in 1..n /\ i + 1 \in 0..n /\ (i + 1) - 1 = i
    <3> HIDE DEF ok
    <3> QED
      BY <1>3
  <2>2. Fine(i)
    BY <1>3
  <2>3. w = Apply(v, s) /\ w # Violated
    <3>1. w = Apply(g[(i + 1) - 1], q[i + 1]) /\ w # Violated
      BY <1>1, <2>1
    <3> QED
      BY <2>1, <3>1
  <2>4. w = InsertKey(v, p)
    BY <2>3
  <2> HIDE DEF v, w
  <2>5. Whole(v) /\ Cardinality(KeysAt(v, p)) = i
    BY <2>2 DEF v
  <2>6. Whole(w) /\ \E k \in Creds : v.home[k] = Nil /\ KeysAt(w, p) = KeysAt(v, p) \cup {k}
    <3>1. /\ Whole(InsertKey(v, p))
          /\ \E k \in Creds : v.home[k] = Nil /\ KeysAt(InsertKey(v, p), p) = KeysAt(v, p) \cup {k}
      BY <2>3, <2>4, <2>5, WholeInsertKey
    <3> QED
      BY <2>4, <3>1
  <2>7. PICK k \in Creds : v.home[k] = Nil /\ KeysAt(w, p) = KeysAt(v, p) \cup {k}
    BY <2>6
  <2>8. k \notin KeysAt(v, p)
    <3>1. p # Nil
      BY DefinitionsAssumption
    <3> QED
      BY <2>7, <3>1 DEF KeysAt
  <2> DEFINE K == KeysAt(v, p)
  <2>9. IsFiniteSet(K)
    <3>1. K \subseteq Creds
      BY DEF KeysAt
    <3> HIDE DEF K
    <3> QED
      BY <3>1, DefinitionsAssumption, FS_Subset
  <2>10. Cardinality(K \cup {k}) = Cardinality(K) + 1
    <3>1. k \notin K
      BY <2>8
    <3> HIDE DEF K
    <3> QED
      BY <2>9, <3>1, FS_AddElement
  <2>11. Cardinality(KeysAt(w, p)) = i + 1
    BY <2>5, <2>7, <2>10
  <2>12. Fine(i + 1)
    BY <2>6, <2>11 DEF w
  <2> QED
    BY <2>1, <2>12
<1> HIDE DEF ok
<1>4. 0..n \subseteq ok
  BY <1>2, <1>3, InductionUpTo
<1>5. n \in ok
  BY <1>4
<1>6. Fine(n)
  <2> HIDE DEF Fine
  <2> QED
    BY <1>5 DEF ok
<1> QED
  BY <1>6

\* A statement that is a batch by itself.
LEMMA GoesOne ==
  ASSUME NEW t, Whole(t), NEW s, IsStatement(s), NEW u, Goes(t, <<s>>, u)
  PROVE  u = Apply(t, s) /\ Apply(t, s) # Violated /\ Whole(u)
<1>1. t # Violated
  BY WholeFields
<1>2. ~Reads(<<s>>)
  BY PlainFew, BatchWhole
<1>3. u = Applied(t, <<s>>) /\ u # Violated
  BY <1>2 DEF Goes, Does
<1>4. u = Apply(t, s)
  BY <1>1, <1>3, AppliedToOne
<1> QED
  BY <1>3, <1>4, EachWhole

\* A plan of one statement, carried out.
LEMMA OneDone ==
  ASSUME NEW t, Whole(t), NEW s, IsStatement(s), NEW f, Outcome(f, t, <<<<s>>>>)
  PROVE  /\ f[Len(<<<<s>>>>)] = Apply(t, s) /\ Apply(t, s) # Violated
         /\ Whole(f[Len(<<<<s>>>>)]) /\ PlainPlan(<<<<s>>>>)
<1> DEFINE p == <<<<s>>>>
<1>1. Len(p) = 1 /\ p[1] = <<s>>
  OBVIOUS
<1>2. f[0] = t /\ \A i \in 1..Len(p) : Goes(f[i - 1], p[i], f[i])
  BY DEF Outcome
<1> HIDE DEF p
<1>3. Goes(t, <<s>>, f[1])
  <2>1. 1 \in 1..Len(p) /\ 1 - 1 = 0
    BY <1>1
  <2>2. Goes(f[1 - 1], p[1], f[1])
    BY <1>2, <2>1
  <2> QED
    BY <1>1, <1>2, <2>1, <2>2
<1>4. f[1] = Apply(t, s) /\ Apply(t, s) # Violated /\ Whole(f[1])
  BY <1>3, GoesOne
<1>5. PlainPlan(<<<<s>>>>)
  BY PlainFew
<1> QED
  BY <1>1, <1>4, <1>5 DEF p

\* The batches of a plan of statements.
LEMMA PlainBatches ==
  ASSUME NEW p, PlainPlan(p)
  PROVE  \E S : p \in Seq(S) /\ \A b \in S : PlainBatch(b) /\ ~Reads(b)
<1>1. PICK S : p \in Seq(S) /\ \A b \in S : PlainBatch(b)
  BY DEF PlainPlan
<1>2. \A b \in S : PlainBatch(b) /\ ~Reads(b)
  BY <1>1, BatchWhole
<1> QED
  BY <1>1, <1>2

\* A reading goes on with a plan of statements.
LEMMA ReadingDone ==
  ASSUME NEW t, NEW b, Reads(b), NEW p, p = ReadOn(t, Head(b)), PlainPlan(p), NEW u, Goes(t, b, u)
  PROVE  \E g : Outcome(g, t, p) /\ u = g[Len(p)]
<1>1. PICK g : /\ g[0] = t /\ u = g[Len(p)]
               /\ \A i \in 1..Len(p) : Does(g[i - 1], p[i], g[i])
  BY DEF Goes
<1>2. PICK S : p \in Seq(S) /\ \A c \in S : PlainBatch(c) /\ ~Reads(c)
  BY PlainBatches
<1>3. ASSUME NEW i \in 1..Len(p) PROVE Goes(g[i - 1], p[i], g[i])
  <2>1. p[i] \in S
    BY <1>2
  <2> QED
    BY <1>1, <1>2, <2>1 DEF Goes
<1> QED
  BY <1>1, <1>3 DEF Outcome

\* A transaction of statements.
LEMMA TxDone ==
  ASSUME NEW S, NEW s \in Seq(S), s # <<>>, \A x \in S : IsStatement(x), NEW q, q = Tx(s),
         NEW t, Whole(t), NEW f, Outcome(f, t, q)
  PROVE  \E g : Executed(g, t, s) /\ g[Len(s)] = f[Len(q)]
<1>1. \A x \in S : Plain(x)
  BY StatementPlain
<1> QED
  BY <1>1, TxExecuted

\* A row and its bindings are statements.
LEMMA RowPlan ==
  ASSUME NEW x, IsStatement(x), NEW m \in Models, NEW p \in Platforms, NEW keys \in SUBSET Creds,
         NEW q, q = Tx(<<x>> \o Bindings(m, p, keys))
  PROVE  PlainPlan(q)
<1> DEFINE b == Bindings(m, p, keys)
           s == <<x>> \o b
<1>1. PICK S : b \in Seq(S) /\ \A y \in S : IsStatement(y)
  BY BindingsAre
<1> DEFINE T == S \cup {x}
<1>2. b \in Seq(T) /\ x \in T /\ \A y \in T : IsStatement(y)
  BY <1>1
<1> HIDE DEF T, b
<1>3. s \in Seq(T) /\ s # <<>>
  <2> DEFINE n == Len(b)
  <2>1. n \in Nat /\ b = [i \in 1..n |-> b[i]] /\ \A i \in 1..n : b[i] \in T
    BY <1>2
  <2> HIDE DEF n
  <2> QED
    BY <1>2, <2>1, PutBefore
<1> HIDE DEF s
<1>4. q = Tx(s)
  BY DEF s, b
<1> QED
  BY <1>2, <1>3, <1>4, PlainTx

\* They leave the row that was written, bound as the form says.
LEMMA RowAndBindings ==
  ASSUME NEW x, IsStatement(x), NEW m \in Models, NEW p \in Platforms, NEW keys \in SUBSET Creds,
         NEW q, q = Tx(<<x>> \o Bindings(m, p, keys)),
         NEW t, Whole(t), NEW f, Outcome(f, t, q), NEW w, w = Apply(t, x), NEW u, u = f[Len(q)]
  PROVE  w # Violated /\ Whole(u) /\ ButBindings(w, u) /\ AsNamed(u, w, m, p, keys)
<1> DEFINE b == Bindings(m, p, keys)
           s == <<x>> \o b
<1>1. PICK S : b \in Seq(S) /\ \A y \in S : IsStatement(y)
  BY BindingsAre
<1> DEFINE T == S \cup {x}
<1>2. b \in Seq(T) /\ x \in T /\ \A y \in T : IsStatement(y)
  BY <1>1
<1> HIDE DEF T, b
<1>3. s \in Seq(T) /\ s # <<>>
  <2> DEFINE n == Len(b)
  <2>1. n \in Nat /\ b = [i \in 1..n |-> b[i]] /\ \A i \in 1..n : b[i] \in T
    BY <1>2
  <2> HIDE DEF n
  <2> QED
    BY <1>2, <2>1, PutBefore
<1> HIDE DEF s
<1>4. q = Tx(s)
  BY DEF s, b
<1>5. PICK g : Executed(g, t, s) /\ g[Len(s)] = u
  BY <1>2, <1>3, <1>4, TxDone
<1>6. w # Violated /\ \E h : Executed(h, w, b) /\ h[Len(b)] = g[Len(s)]
  BY <1>2, <1>5, ExecutedOn DEF s
<1>7. PICK h : Executed(h, w, b) /\ u = h[Len(b)]
  BY <1>5, <1>6
<1>8. Whole(w)
  BY <1>6, EachWhole
<1>9. Executed(h, w, Bindings(m, p, keys)) /\ u = h[Len(Bindings(m, p, keys))]
  BY <1>7 DEF b
<1> QED
  BY <1>6, <1>8, <1>9, BindingsDone

\* The models of a form for the chain.
Listing(ms) == \E n \in Nat : n <= Cardinality(Models) /\ ms = [i \in 1..n |-> ms[i]]

\* A chain is put down by statements.
LEMMA ChainPlan ==
  ASSUME NEW ms, Listing(ms), NEW q, q = SetLAPIRAPIOrder(ms)
  PROVE  PlainPlan(q)
<1>1. PICK n \in Nat : n <= Cardinality(Models) /\ ms = [i \in 1..n |-> ms[i]]
  BY DEF Listing
<1>0. DOMAIN ms = 1..n
  <2>1. DOMAIN [i \in 1..n |-> ms[i]] = 1..n
    OBVIOUS
  <2> QED
    BY <1>1, <2>1
<1> DEFINE s == ChainOf(ms)
<1>2. q = Tx(s) /\ s # <<>> /\ \E S : s \in Seq(S) /\ \A x \in S : IsStatement(x)
  BY <1>0, <1>1, ChainOfIs
<1> HIDE DEF s
<1>3. PICK S : s \in Seq(S) /\ \A x \in S : IsStatement(x)
  BY <1>2
<1> QED
  BY <1>2, <1>3, PlainTx

\* It is the chain there is then.
LEMMA ChainPut ==
  ASSUME NEW ms, Listing(ms), NEW q, q = SetLAPIRAPIOrder(ms),
         NEW t, Whole(t), NEW f, Outcome(f, t, q), NEW u, u = f[Len(q)]
  PROVE  Whole(u) /\ Chain(u) = ms /\ u.at = t.at /\ u.route = t.route
<1> DEFINE s == ChainOf(ms)
<1>1. q = Tx(s) /\ s # <<>> /\ \E S : s \in Seq(S) /\ \A x \in S : IsStatement(x)
  <2>1. PICK n \in Nat : n <= Cardinality(Models) /\ ms = [i \in 1..n |-> ms[i]]
    BY DEF Listing
  <2>2. DOMAIN ms = 1..n
    <3>1. DOMAIN [i \in 1..n |-> ms[i]] = 1..n
      OBVIOUS
    <3> QED
      BY <2>1, <3>1
  <2> QED
    BY <2>1, <2>2, ChainOfIs
<1> HIDE DEF s
<1>2. PICK S : s \in Seq(S) /\ \A x \in S : IsStatement(x)
  BY <1>1
<1>3. PICK g : Executed(g, t, s) /\ g[Len(s)] = u
  BY <1>1, <1>2, TxDone
<1>4. PICK n \in Nat : n <= Cardinality(Models) /\ ms = [i \in 1..n |-> ms[i]]
  BY DEF Listing
<1> QED
  BY <1>3, <1>4, ChainDone DEF s

----------------------------------------------------------------------------
(* Each handler leaves what its request asks for, unless it fails.          *)

\* What the request is.
SavesModel(r) == r.op = "save rapi"
CreatesModel(r) == r.op = "create rapi"
SavesChain(r) == r.op = "save chain"
SavesKeys(r) == r.op = "save keys"
DeletesKey(r) == r.op = "delete key"
TogglesPlatform(r) == r.op = "toggle platform"

\* A part of a plan that puts a model on the route.
RouteStatement(s) == s.op = "clear chain" \/ (s.op = "link" /\ s.i \in Places)
MappingBatch(b) == b # <<>> /\ \E S : b \in Seq(S) /\ \A s \in S : RouteStatement(s)
MappingPlan(rest) == \E S : rest \in Seq(S) /\ \A b \in S : MappingBatch(b)

\* Before a handler comes to what it may fail in and yet answer with success, it has
\* done what was asked: the reading is its last batch; the mapping follows the row.
Beforehand(t, rest, r) ==
  \E c : \E y \in Readings :
    /\ PlainPlan(c) /\ rest = Append(c, <<y>>) /\ (y.op = "map" <=> r.op = "create rapi")
    /\ Leads(t, c, r, "asked")
Behind(t, rest, r) == r.op = "create rapi" /\ MappingPlan(rest) /\ Goal(t, r, "asked")
Strict(rest, r) == r.op # "create rapi" /\ PlainPlan(rest)
Basis(t, rest, r) == Beforehand(t, rest, r) \/ Behind(t, rest, r) \/ Strict(rest, r)

\* The request is handled by a plan that leads from t to what was asked.
Handled(t, r) ==
  ProperPlan(Handler(r)) /\ Leads(t, Handler(r), r, "all") /\ Basis(t, Handler(r), r)

\* The plan q, carried out from t, ends in u.
Finishes(t, q, u) == \E f : Outcome(f, t, q) /\ u = f[Len(q)]

\* A handler that is done has done what it ends in.
LEMMA HandledSo ==
  ASSUME NEW r, NEW q, q = Handler(r), ProperPlan(q), NEW t,
         \A u : Finishes(t, q, u) => Goal(u, r, "all"), Basis(t, q, r)
  PROVE  Handled(t, r)
BY DEF Handled, Leads, Finishes

\* So has one that reads nothing, of a request that nothing follows from.
LEMMA HandledStrictly ==
  ASSUME NEW r, r.op # "create rapi", r.op # "toggle platform", NEW q, q = Handler(r), PlainPlan(q),
         NEW t, \A u : Finishes(t, q, u) => Granted(u, r)
  PROVE  Handled(t, r)
<1>1. \A u : Followed(u, r)
  BY DEF Followed
<1>2. \A u : Finishes(t, q, u) => Goal(u, r, "all")
  BY <1>1 DEF Goal
<1>3. Basis(t, q, r)
  BY DEF Basis, Strict
<1>4. ProperPlan(q)
  BY PlainIsProper
<1> QED
  BY <1>2, <1>3, <1>4, HandledSo

\* One that reads when it has done what was asked.
LEMMA ReadsLast ==
  ASSUME NEW c, PlainPlan(c), NEW y \in Readings, NEW q, q = Append(c, <<y>>), NEW t, NEW r,
         y.op = "map" <=> r.op = "create rapi", \A v : Finishes(t, c, v) => Granted(v, r)
  PROVE  Basis(t, q, r)
<1>1. Leads(t, c, r, "asked")
  BY DEF Leads, Finishes, Goal
<1> QED
  BY <1>1 DEF Basis, Beforehand

\* The row of a model that is written over.
LEMMA PatchedAs ==
  ASSUME NEW t, Whole(t), NEW m \in Models, NEW p \in Platforms, NEW on \in BOOLEAN,
         NEW w, w = PatchRAPI(t, m, p, on), w # Violated
  PROVE  /\ t.at[m] = Nil => w.at[m] = Nil
         /\ t.at[m] # Nil => w.at[m] = p /\ (m \in w.enabled <=> on)
<1>1. PatchRAPI(t, m, p, on) # Violated
  OBVIOUS
<1>2. /\ t.at[m] = Nil => PatchRAPI(t, m, p, on).at[m] = Nil
      /\ t.at[m] # Nil => /\ PatchRAPI(t, m, p, on).at[m] = p
                          /\ m \in PatchRAPI(t, m, p, on).enabled <=> on
  BY <1>1, PatchedRow
<1> QED
  BY <1>2

\* If the model is in u, it is there as the form says.
IsSaved(u, m, p, keys, on) ==
  u.at[m] # Nil =>
    /\ u.at[m] = p
    /\ m \in u.enabled <=> on
    /\ PoolOf(u, m) = IF keys \cap KeysAt(u, p) = {} /\ (backend = "local" \/ keys = {})
                      THEN KeysAt(u, p) ELSE keys \cap KeysAt(u, p)

\* A model is saved: its row, and its pool.
LEMMA SaveGrants ==
  ASSUME NEW m \in Models, NEW p \in Platforms, NEW keys \in SUBSET Creds, NEW on \in BOOLEAN,
         NEW q, q = UpdateRAPI(m, p, keys, on),
         NEW t, Whole(t), NEW u, Finishes(t, q, u)
  PROVE  IsSaved(u, m, p, keys, on)
<1> DEFINE x == [op |-> "update rapi", m |-> m, p |-> p, on |-> on]
           w == Apply(t, x)
<1>1. q = Tx(<<x>> \o Bindings(m, p, keys))
  BY DEF UpdateRAPI
<1>2. x \in ProperStatements
  BY DEF ProperStatements
<1>3. IsStatement(x) /\ Apply(t, x) = PatchRAPI(t, m, p, on)
  BY <1>2 DEF IsStatement, Apply
<1> HIDE DEF x
<1>4. w = PatchRAPI(t, m, p, on)
  BY <1>3
<1>5. w = Apply(t, x)
  OBVIOUS
<1> HIDE DEF w
<1>0. PICK f : Outcome(f, t, q) /\ u = f[Len(q)]
  BY DEF Finishes
<1>6. w # Violated /\ Whole(u) /\ ButBindings(w, u) /\ AsNamed(u, w, m, p, keys)
  BY <1>0, <1>1, <1>3, <1>5, RowAndBindings
<1>7. /\ t.at[m] = Nil => w.at[m] = Nil
      /\ t.at[m] # Nil => w.at[m] = p /\ (m \in w.enabled <=> on)
  BY <1>4, <1>6, PatchedAs
<1>8. u.at = w.at /\ u.enabled = w.enabled /\ KeysAt(u, p) = KeysAt(w, p)
  BY <1>6 DEF ButBindings, KeysAt
<1>9. CASE u.at[m] = Nil
  BY <1>9 DEF IsSaved
<1>10. CASE u.at[m] # Nil
  <2> DEFINE K == KeysAt(u, p)
  <2>1. u.at[m] = p /\ (m \in u.enabled <=> on)
    BY <1>7, <1>8, <1>10
  <2>2. PoolOf(u, m) = IF KeyIDs(u, m) = {} THEN K ELSE K \cap KeyIDs(u, m)
    BY <2>1 DEF PoolOf
  <2>3. KeysAt(w, p) = K
    BY <1>8
  <2> HIDE DEF K
  <2>4. PoolOf(u, m) = IF keys \cap K = {} /\ (backend = "local" \/ keys = {})
                       THEN K ELSE keys \cap K
    <3>1. CASE backend = "local"
      <4>1. KeyIDs(u, m) = IF keys = {} THEN K ELSE keys \cap K
        BY <1>6, <2>3, <3>1 DEF KeyIDs, AsNamed
      <4> QED
        BY <2>2, <3>1, <4>1
    <3>2. CASE backend # "local"
      <4>1. KeyIDs(u, m) = keys
        BY <1>6, <3>2 DEF KeyIDs, AsNamed
      <4> QED
        BY <2>2, <3>2, <4>1
    <3> QED
      BY <3>1, <3>2
  <2> QED
    BY <2>1, <2>4 DEF K, IsSaved
<1> QED
  BY <1>9, <1>10

\* Its handler leads to that.
LEMMA SaveHandled ==
  ASSUME NEW r, SavesModel(r), NEW m \in Models, m = r.m, NEW p \in Platforms, p = r.p,
         NEW keys \in SUBSET Creds, keys = r.keys, NEW on \in BOOLEAN, on = r.on, NEW t, Whole(t)
  PROVE  Handled(t, r)
<1> DEFINE x == [op |-> "update rapi", m |-> m, p |-> p, on |-> on]
<1>0. PICK q : q = Handler(r)
  OBVIOUS
<1>1. q = UpdateRAPI(m, p, keys, on)
  BY <1>0 DEF SavesModel, Handler, PutRAPI
<1>2. PlainPlan(q)
  <2>1. q = Tx(<<x>> \o Bindings(m, p, keys))
    BY <1>1 DEF UpdateRAPI
  <2>2. x \in ProperStatements
    BY DEF ProperStatements
  <2>3. IsStatement(x)
    BY <2>2 DEF IsStatement
  <2> HIDE DEF x
  <2> QED
    BY <2>1, <2>3, RowPlan
<1> HIDE DEF x
<1>3. ASSUME NEW u, Finishes(t, q, u) PROVE Granted(u, r)
  <2>1. IsSaved(u, m, p, keys, on)
    BY <1>1, <1>3, SaveGrants
  <2> QED
    BY <2>1 DEF IsSaved, SavesModel, Granted
<1> QED
  BY <1>0, <1>2, <1>3, HandledStrictly DEF SavesModel

\* A chain that is saved is the chain there is.
LEMMA ChainLeft ==
  ASSUME NEW ms, Listing(ms), NEW q, q = SetLAPIRAPIOrder(ms), NEW t, Whole(t), NEW u, Finishes(t, q, u)
  PROVE  Whole(u) /\ Chain(u) = ms /\ u.at = t.at /\ u.route = t.route
<1>1. PICK f : Outcome(f, t, q) /\ u = f[Len(q)]
  BY DEF Finishes
<1> QED
  BY <1>1, ChainPut

\* A chain is saved.
LEMMA ChainHandled ==
  ASSUME NEW r, SavesChain(r), NEW ms, ms = r.ms, Listing(ms), NEW t, Whole(t)
  PROVE  Handled(t, r)
<1>0. PICK q : q = Handler(r)
  OBVIOUS
<1>1. q = SetLAPIRAPIOrder(ms)
  BY <1>0 DEF SavesChain, Handler
<1>2. \A u : Granted(u, r) <=> Chain(u) = ms
  BY DEF SavesChain, Granted
<1>3. PlainPlan(q)
  BY <1>1, ChainPlan
<1>4. ASSUME NEW u, Finishes(t, q, u) PROVE Granted(u, r)
  <2>1. Chain(u) = ms
    BY <1>1, <1>4, ChainLeft
  <2> QED
    BY <1>2, <2>1
<1> QED
  BY <1>0, <1>3, <1>4, HandledStrictly DEF SavesChain

\* A key is deleted.
LEMMA DropHandled ==
  ASSUME NEW r, DeletesKey(r), r.k \in Creds, NEW t, Whole(t)
  PROVE  Handled(t, r)
<1> DEFINE k == r.k
           x == [op |-> "detach", k |-> k]
           y == [op |-> "delete key", k |-> k]
           p == <<<<x>>>>
           b == <<y>>
           q == Handler(r)
<1>1. q = <<<<x>>, b>> /\ k \in Creds
  BY DEF DeletesKey, Handler, DropKey
<1>2. \A u : Granted(u, r) <=> u.home[k] = Nil
  BY DEF DeletesKey, Granted
<1> HIDE DEF k, q
<1>3. x \in ProperStatements /\ y \in ProperStatements
  BY <1>1 DEF ProperStatements, Statements
<1>4. IsStatement(x) /\ IsStatement(y) /\ \A v : Apply(v, y) = DeleteKeyRow(v, k)
  BY <1>3 DEF IsStatement, Apply
<1> HIDE DEF x, y
<1>5. q = Append(p, b)
  <2> DEFINE a == <<x>>
  <2>1. q = <<a, b>> /\ p = <<a>>
    BY <1>1
  <2> HIDE DEF a, b, p
  <2> QED
    BY <2>1, PairOf
<1>6. PlainPlan(p) /\ PlainBatch(b)
  BY <1>4, PlainFew
<1>7. PlainPlan(q)
  <2> HIDE DEF p, b
  <2> QED
    BY <1>5, <1>6, PlainAppended
<1>8. ASSUME NEW f, Outcome(f, t, q) PROVE Granted(f[Len(q)], r)
  <2>1. PICK S : p \in Seq(S)
    BY <1>6 DEF PlainPlan
  <2>2. /\ Outcome(f, t, p) /\ Len(p) \in Nat /\ Len(q) = Len(p) + 1
        /\ Goes(f[Len(p)], b, f[Len(p) + 1])
    <3> HIDE DEF p, b
    <3> QED
      BY <1>5, <1>8, <2>1, OutcomeAppended
  <2>3. Whole(f[Len(p)])
    BY <1>4, <2>2, OneDone
  <2> DEFINE v == f[Len(p)]
             u == f[Len(q)]
  <2>4. Goes(v, <<y>>, u)
    BY <2>2
  <2>5. Whole(v)
    BY <2>3
  <2> HIDE DEF v, u
  <2>6. u = Apply(v, y) /\ Apply(v, y) # Violated
    BY <1>4, <2>4, <2>5, GoesOne
  <2>7. u = DeleteKeyRow(v, k) /\ DeleteKeyRow(v, k) # Violated
    BY <1>4, <2>6
  <2>8. u.home[k] = Nil
    BY <1>1, <2>5, <2>7, WholeDeleteKey
  <2> QED
    BY <1>2, <2>8 DEF u
<1>9. ASSUME NEW u, Finishes(t, q, u) PROVE Granted(u, r)
  BY <1>8, <1>9 DEF Finishes
<1>10. q = Handler(r)
  BY DEF q
<1> QED
  BY <1>7, <1>9, <1>10, HandledStrictly DEF DeletesKey

\* A plan that was lengthened ends where its last batch goes.
LEMMA EndsAppended ==
  ASSUME NEW p, PlainPlan(p), NEW b, NEW q, q = Append(p, b), NEW t, NEW u, Finishes(t, q, u)
  PROVE  \E v : Finishes(t, p, v) /\ Goes(v, b, u)
<1>1. PICK S : p \in Seq(S)
  BY DEF PlainPlan
<1>2. PICK f : Outcome(f, t, q) /\ u = f[Len(q)]
  BY DEF Finishes
<1>3. /\ Outcome(f, t, p) /\ Len(p) \in Nat /\ Len(q) = Len(p) + 1
      /\ Goes(f[Len(p)], b, f[Len(p) + 1])
  BY <1>1, <1>2, OutcomeAppended
<1>4. Goes(f[Len(p)], b, u)
  BY <1>2, <1>3
<1> QED
  BY <1>3, <1>4 DEF Finishes

\* A plan of one statement.
LEMMA EndsOne ==
  ASSUME NEW s, IsStatement(s), NEW q, q = <<<<s>>>>, NEW t, Whole(t), NEW u, Finishes(t, q, u)
  PROVE  u = Apply(t, s) /\ u # Violated /\ Whole(u)
<1>1. PICK f : Outcome(f, t, q) /\ u = f[Len(q)]
  BY DEF Finishes
<1>2. Outcome(f, t, <<<<s>>>>) /\ u = f[Len(<<<<s>>>>)]
  BY <1>1
<1>3. /\ f[Len(<<<<s>>>>)] = Apply(t, s) /\ Apply(t, s) # Violated
      /\ Whole(f[Len(<<<<s>>>>)])
  BY <1>2, OneDone
<1> QED
  BY <1>2, <1>3

\* No plan at all ends where it begins.
LEMMA EndsNone ==
  ASSUME NEW q, q = <<>>, NEW t, NEW u, Finishes(t, q, u)
  PROVE  u = t
<1>1. PICK f : Outcome(f, t, q) /\ u = f[Len(q)]
  BY DEF Finishes
<1>2. Len(q) = 0
  OBVIOUS
<1> QED
  BY <1>1, <1>2 DEF Outcome

\* A reading ends where that ends which it goes on with.
LEMMA EndsRead ==
  ASSUME NEW t, NEW b, Reads(b), NEW p, p = ReadOn(t, Head(b)), PlainPlan(p), NEW u, Goes(t, b, u)
  PROVE  Finishes(t, p, u)
BY ReadingDone DEF Finishes

\* A sequence is the function it is.
LEMMA SequenceIs ==
  ASSUME NEW T, NEW s \in Seq(T), NEW n, n = Len(s)
  PROVE  n \in Nat /\ s = [i \in 1..n |-> s[i]]
OBVIOUS

\* A model that is put behind the chain.
LEMMA ListingBehind ==
  ASSUME NEW t, Whole(t), NEW m \in Models, m \notin OnChain(t), NEW ms, ms = Append(Chain(t), m)
  PROVE  Listing(ms) /\ Last(ms) = m
<1> DEFINE C == OnChain(t)
           c == Chain(t)
           n == Cardinality(C)
<1>1. n \in Nat /\ c \in [1..n -> C]
  BY ChainIs
<1>2. C \subseteq Models
  BY PlaceIs
<1>3. n + 1 <= Cardinality(Models)
  <2>1. IsFiniteSet(C) /\ m \notin C
    BY RankIs
  <2> HIDE DEF C
  <2>2. Cardinality(C \cup {m}) = Cardinality(C) + 1
    BY <2>1, FS_AddElement
  <2>3. C \cup {m} \subseteq Models
    BY <1>2
  <2>4. Cardinality(C \cup {m}) <= Cardinality(Models)
    BY <2>3, DefinitionsAssumption, FS_Subset
  <2> QED
    BY <2>2, <2>4
<1> HIDE DEF C, c, n
<1>4. ms = Append(c, m)
  BY DEF c
<1> DEFINE T == C \cup {m}
<1>5. c \in Seq(T) /\ Len(c) = n /\ m \in T
  BY <1>1
<1> HIDE DEF T
<1>6. ms \in Seq(T) /\ Len(ms) = n + 1 /\ ms[n + 1] = m
  BY <1>1, <1>4, <1>5, AppendProperties
<1>7. ms = [i \in 1..(n + 1) |-> ms[i]]
  BY <1>6, SequenceIs
<1>8. Last(ms) = m
  BY <1>6 DEF Last
<1>9. n + 1 \in Nat
  BY <1>1
<1> QED
  BY <1>3, <1>7, <1>8, <1>9 DEF Listing, n

\* The part of a handler that puts a model on the route.
TellsOf(y, m) == y = [op |-> "map", m |-> m]

\* The model is at its platform, and last on the route if there is one.
IsCreated(u, m, p) == u.at[m] = p /\ (u.route => m = Last(Chain(u)))

\* A model that is created: its row, and its place on the route.
LEMMA CreateGrants ==
  ASSUME NEW m \in Models, NEW p \in Platforms, NEW keys \in SUBSET Creds,
         NEW y, TellsOf(y, m), NEW c, c = CreateRAPI(m, p, keys),
         NEW q, q = Append(c, <<y>>), NEW t, Whole(t), NEW u, Finishes(t, q, u)
  PROVE  IsCreated(u, m, p)
<1> DEFINE x == [op |-> "insert rapi", m |-> m, p |-> p]
           w == Apply(t, x)
           b == <<y>>
<1>1. c = Tx(<<x>> \o Bindings(m, p, keys))
  BY DEF CreateRAPI
<1>2. x \in ProperStatements
  BY DEF ProperStatements
<1>3. IsStatement(x) /\ Apply(t, x) = InsertRAPI(t, m, p)
  BY <1>2 DEF IsStatement, Apply
<1>4. Head(b) = y /\ ~Plain(y) /\ \A v : ReadOn(v, y) = MapToRoute(v, m)
  BY DEF Plain, ReadOn, TellsOf
<1> HIDE DEF x
<1>5. w = Apply(t, x) /\ w = InsertRAPI(t, m, p)
  BY <1>3
<1>6. q = Append(c, b)
  OBVIOUS
<1> HIDE DEF w, b
<1>7. PlainPlan(c)
  BY <1>1, <1>3, RowPlan
<1>8. PICK v : Finishes(t, c, v) /\ Goes(v, b, u)
  BY <1>6, <1>7, EndsAppended
<1>9. PICK f : Outcome(f, t, c) /\ v = f[Len(c)]
  BY <1>8 DEF Finishes
<1>10. w # Violated /\ Whole(v) /\ ButBindings(w, v)
  BY <1>1, <1>3, <1>5, <1>9, RowAndBindings
<1>11. m \notin OnChain(t) /\ w.at[m] = p /\ w.order = t.order
  <2>1. InsertRAPI(t, m, p) # Violated
    BY <1>5, <1>10
  <2>2. /\ Whole(InsertRAPI(t, m, p)) /\ m \notin OnChain(t)
        /\ InsertRAPI(t, m, p).at[m] = p /\ InsertRAPI(t, m, p).order = t.order
    BY <2>1, InsertedRow
  <2> QED
    BY <1>5, <2>2
<1>12. v.at[m] = p /\ OnChain(v) = OnChain(t)
  BY <1>10, <1>11 DEF ButBindings, OnChain
<1>13. m \notin Range(Chain(v))
  BY <1>10, <1>11, <1>12, ChainIs
<1>14. PICK d : d = MapToRoute(v, m)
  OBVIOUS
<1>15. d = ReadOn(v, Head(b)) /\ Reads(b)
  BY <1>4, <1>14 DEF Reads
<1>16. CASE ~v.route
  <2>1. d = <<>>
    BY <1>14, <1>16 DEF MapToRoute
  <2>2. PlainPlan(d)
    BY <2>1, PlainFew
  <2>3. Finishes(v, d, u)
    BY <1>8, <1>15, <2>2, EndsRead
  <2>4. u = v
    BY <2>1, <2>3, EndsNone
  <2> QED
    BY <1>12, <1>16, <2>4 DEF IsCreated
<1>17. CASE v.route
  <2>1. PICK ms : ms = Append(Chain(v), m)
    OBVIOUS
  <2>2. d = SetLAPIRAPIOrder(ms)
    BY <1>13, <1>14, <1>17, <2>1 DEF MapToRoute
  <2>3. m \notin OnChain(v)
    BY <1>11, <1>12
  <2>4. Listing(ms) /\ Last(ms) = m
    BY <1>10, <2>1, <2>3, ListingBehind
  <2>5. PlainPlan(d)
    BY <2>2, <2>4, ChainPlan
  <2>6. Finishes(v, d, u)
    BY <1>8, <1>15, <2>5, EndsRead
  <2>7. Chain(u) = ms /\ u.at = v.at
    BY <1>10, <2>2, <2>4, <2>6, ChainLeft
  <2> QED
    BY <1>12, <2>4, <2>7 DEF IsCreated
<1> QED
  BY <1>16, <1>17

\* The keys of a platform are saved.
LEMMA KeysGrants ==
  ASSUME NEW p \in Platforms, NEW kept \in SUBSET Creds, NEW new \in Nat,
         NEW q, q = SetPlatformKeys(p, kept, new), NEW t, Whole(t), NEW u, Finishes(t, q, u)
  PROVE  Cardinality(KeysAt(u, p)) = Cardinality(kept) + new
<1>1. CASE backend = "local"
  <2> DEFINE x == [op |-> "set keys", p |-> p, keys |-> kept, n |-> new]
  <2>1. q = <<<<x>>>>
    BY <1>1 DEF SetPlatformKeys
  <2>2. x \in ProperStatements
    BY DEF ProperStatements, Statements
  <2>3. IsStatement(x) /\ Apply(t, x) = ReplaceKeys(t, p, kept, new)
    BY <2>2 DEF IsStatement, Apply
  <2> HIDE DEF x
  <2>4. u = Apply(t, x) /\ u # Violated
    BY <2>1, <2>3, EndsOne
  <2>5. ReplaceKeys(t, p, kept, new) # Violated
    BY <2>3, <2>4
  <2>6. /\ Whole(ReplaceKeys(t, p, kept, new))
        /\ Cardinality(KeysAt(ReplaceKeys(t, p, kept, new), p)) = Cardinality(kept) + new
    BY <2>5, WholeReplaceKeys
  <2> QED
    BY <2>3, <2>4, <2>6
<1>2. CASE backend # "local"
  <2> DEFINE x == [op |-> "delete keys", p |-> p]
             y == [op |-> "insert key", p |-> p]
             N == Cardinality(kept) + new
             ins == [i \in 1..N |-> y]
             s == <<x>> \o ins
             w == Apply(t, x)
             S == {x, y}
  <2>1. q = Tx(s)
    BY <1>2 DEF SetPlatformKeys
  <2>2. x \in ProperStatements /\ y \in ProperStatements
    BY DEF ProperStatements
  <2>3. /\ IsStatement(x) /\ IsStatement(y)
        /\ Apply(t, x) = WithoutKeys(t, KeysAt(t, p))
        /\ \A v : Apply(v, y) = InsertKey(v, p)
    BY <2>2 DEF IsStatement, Apply
  <2>4. Cardinality(kept) \in Nat
    BY DefinitionsAssumption, FS_Subset, FS_CardinalityType
  <2>5. N \in Nat
    BY <2>4
  <2> HIDE DEF N, x, y
  <2>6. ins = [i \in 1..N |-> ins[i]] /\ \A i \in 1..N : ins[i] = y
    OBVIOUS
  <2>7. x \in S /\ y \in S /\ \A z \in S : IsStatement(z)
    BY <2>3
  <2> HIDE DEF S, ins
  <2>8. /\ s \in Seq(S) /\ ins \in Seq(S) /\ Len(ins) = N /\ s # <<>>
    BY <2>5, <2>6, <2>7, PutBefore
  <2>9. PICK f : Outcome(f, t, q) /\ u = f[Len(q)]
    BY DEF Finishes
  <2>10. PICK g : Executed(g, t, s) /\ g[Len(s)] = u
    <3> HIDE DEF s
    <3> QED
      BY <2>1, <2>7, <2>8, <2>9, TxDone
  <2>11. w # Violated /\ \E h : Executed(h, w, ins) /\ h[Len(ins)] = g[Len(s)]
    BY <2>7, <2>8, <2>10, ExecutedOn
  <2> HIDE DEF w
  <2>12. PICK h : Executed(h, w, ins) /\ h[N] = u
    BY <2>8, <2>10, <2>11
  <2>13. w = WithoutKeys(t, KeysAt(t, p))
    BY <2>3 DEF w
  <2>14. Whole(w)
    BY <2>13, WholeWithoutKeys
  <2>15. KeysAt(w, p) = {}
    <3>1. t \in TableRows
      BY WholeFields
    <3>2. \A k \in Creds : w.home[k] = IF k \in KeysAt(t, p) THEN Nil ELSE t.home[k]
      BY <2>13, <3>1 DEF WithoutKeys, TableRows
    <3>3. p # Nil
      BY DefinitionsAssumption
    <3> QED
      BY <3>2, <3>3 DEF KeysAt
  <2>16. Cardinality(KeysAt(h[N], p)) = N
    BY <2>3, <2>5, <2>6, <2>8, <2>12, <2>14, <2>15, KeysDone
  <2> QED
    BY <2>12, <2>16 DEF N
<1> QED
  BY <1>1, <1>2

\* A function on 1..n is a sequence.
LEMMA RowIsSequence ==
  ASSUME NEW n \in Nat, NEW s, s = [i \in 1..n |-> s[i]], NEW S, \A i \in 1..n : s[i] \in S
  PROVE  s \in Seq(S) /\ Len(s) = n
OBVIOUS

\* The first n of e are the members of S.
Lists(e, n, S) == (\A i \in 1..n : e[i] \in S) /\ \A x \in S : \E i \in 1..n : e[i] = x

\* The batches that enable the models e, or disable them.
Enables(d, n, e, on) ==
  /\ Len(d) = n
  /\ \A i \in 1..n : IsStatement([op |-> "enable", x |-> e[i], on |-> on])
  /\ \A i \in 1..n : d[i] = <<[op |-> "enable", x |-> e[i], on |-> on]>>

\* What toggles a platform goes on with.
LEMMA ToggledAre ==
  ASSUME NEW t, Whole(t), NEW p \in Platforms, NEW on \in BOOLEAN,
         NEW d, d = ToggleModels(t, p, on), NEW n, n = Cardinality(ModelsAt(t, p)),
         NEW e, e = SetToSeq(ModelsAt(t, p))
  PROVE  PlainPlan(d) /\ Enables(d, n, e, on) /\ n \in Nat /\ Lists(e, n, ModelsAt(t, p))
<1> DEFINE M == ModelsAt(t, p)
<1>1. IsFiniteSet(M) /\ M \subseteq Models
  <2>1. M \subseteq Models
    BY DEF ModelsAt
  <2> HIDE DEF M
  <2> QED
    BY <2>1, DefinitionsAssumption, FS_Subset
<1>2. d = [i \in 1..n |-> <<[op |-> "enable", x |-> e[i], on |-> on]>>]
  BY DEF ToggleModels
<1>3. n = Cardinality(M) /\ e = SetToSeq(M)
  OBVIOUS
<1> HIDE DEF M
<1>4. /\ n \in Nat /\ e \in [1..n -> M]
      /\ \A m \in M : \E i \in 1..n : e[i] = m
  BY <1>1, <1>3, Enumerated
<1>5. ASSUME NEW i \in 1..n PROVE IsStatement([op |-> "enable", x |-> e[i], on |-> on])
  <2>1. e[i] \in Models
    BY <1>1, <1>4
  <2>2. [op |-> "enable", x |-> e[i], on |-> on] \in Statements
    BY <2>1 DEF Statements
  <2> QED
    BY <2>2 DEF IsStatement, ProperStatements
<1>6. \A i \in 1..n : d[i] = <<[op |-> "enable", x |-> e[i], on |-> on]>>
  BY <1>2
<1>7. d = [i \in 1..n |-> d[i]]
  BY <1>2
<1>8. \A i \in 1..n : PlainBatch(d[i])
  BY <1>5, <1>6, PlainFew
<1>9. PlainPlan(d) /\ Len(d) = n
  <2> DEFINE S == {d[i] : i \in 1..n}
  <2>1. \A b \in S : PlainBatch(b)
    BY <1>8
  <2>2. \A i \in 1..n : d[i] \in S
    OBVIOUS
  <2> HIDE DEF S
  <2>3. d \in Seq(S) /\ Len(d) = n
    BY <1>4, <1>7, <2>2, RowIsSequence
  <2> QED
    BY <2>1, <2>3 DEF PlainPlan
<1>10. Enables(d, n, e, on)
  BY <1>5, <1>6, <1>9 DEF Enables
<1> QED
  BY <1>4, <1>9, <1>10 DEF M, Lists

\* What was enabled is.
IsToggled(u, S, on) == \A x \in S : x \in u.enabled <=> on

\* They leave what was toggled as it is to be.
LEMMA ToggleDone ==
  ASSUME NEW t, Whole(t), NEW p \in Platforms, NEW on \in BOOLEAN, NEW n \in Nat, NEW e,
         NEW d, Enables(d, n, e, on), NEW S, S \subseteq Models, Lists(e, n, S),
         NEW P, P = {p}, IsToggled(t, P, on), NEW u, Finishes(t, d, u)
  PROVE  u.at = t.at /\ IsToggled(u, P, on) /\ IsToggled(u, S, on)
<1> DEFINE done(i) == {p} \cup {e[j] : j \in 1..i}
<1>1. PICK f : Outcome(f, t, d) /\ u = f[Len(d)]
  BY DEF Finishes
<1>2. /\ f[0] = t /\ u = f[n]
      /\ \A i \in 1..n : Goes(f[i - 1], d[i], f[i])
  BY <1>1 DEF Outcome, Enables
<1> DEFINE Fine(i) == Whole(f[i]) /\ f[i].at = t.at /\ IsToggled(f[i], done(i), on)
           ok == {i \in 0..n : Fine(i)}
<1>3. 0 \in ok
  <2>1. done(0) = {p}
    OBVIOUS
  <2> HIDE DEF done
  <2>2. Fine(0)
    BY <1>2, <2>1
  <2> QED
    BY <2>2
<1>4. ASSUME NEW i \in 0..n, i \in ok, i < n PROVE i + 1 \in ok
  <2> DEFINE v == f[i]
             w == f[i + 1]
             x == e[i + 1]
             s == [op |-> "enable", x |-> x, on |-> on]
  <2>1. i + 1 \in 1..n /\ (i + 1) - 1 = i /\ i + 1 \in 0..n
    <3> HIDE DEF ok
    <3> QED
      BY <1>4
  <2>2. Fine(i)
    BY <1>4
  <2>3. Goes(v, d[i + 1], w)
    BY <1>2, <2>1
  <2>4. d[i + 1] = <<s>> /\ IsStatement(s)
    BY <2>1 DEF Enables
  <2>5. Apply(v, s) = SetEnabled(v, x, on)
    BY DEF Apply
  <2>6. x \in Platforms \cup Models \cup {Route}
    BY <2>1 DEF Lists
  <2>7. Whole(v) /\ v.at = t.at /\ IsToggled(v, done(i), on)
    BY <2>2
  <2>8. done(i + 1) = done(i) \cup {x}
    <3>1. \A j \in 1..(i + 1) : j \in 1..i \/ j = i + 1
      BY <2>1
    <3>2. i + 1 \in 1..(i + 1) /\ 1..i \subseteq 1..(i + 1)
      BY <2>1
    <3> QED
      BY <3>1, <3>2
  <2> HIDE DEF v, w, x, s, done
  <2>9. w = Apply(v, s) /\ Whole(w)
    BY <2>3, <2>4, <2>7, GoesOne
  <2>10. w = SetEnabled(v, x, on)
    BY <2>5, <2>9
  <2>11. /\ SetEnabled(v, x, on).at = v.at
         /\ \A y : y # x => (y \in SetEnabled(v, x, on).enabled <=> y \in v.enabled)
         /\ x \in SetEnabled(v, x, on).enabled <=> on
    BY <2>6, <2>7, WholeOthers
  <2>12. w.at = t.at
    BY <2>7, <2>10, <2>11
  <2>13. IsToggled(w, done(i + 1), on)
    BY <2>7, <2>8, <2>10, <2>11 DEF IsToggled
  <2>14. Fine(i + 1)
    BY <2>9, <2>12, <2>13 DEF w
  <2> QED
    BY <2>1, <2>14
<1> HIDE DEF ok
<1>5. 0..n \subseteq ok
  BY <1>3, <1>4, InductionUpTo
<1>6. Fine(n)
  <2>1. n \in ok
    BY <1>5
  <2> HIDE DEF Fine
  <2> QED
    BY <2>1 DEF ok
<1>7. S \subseteq done(n) /\ P \subseteq done(n)
  BY DEF Lists
<1> HIDE DEF done
<1> QED
  BY <1>2, <1>6, <1>7 DEF IsToggled

\* The part of a handler that toggles the models it finds.
TellsAll(y, p, on) == y = [op |-> "toggle models", p |-> p, on |-> on]

\* A platform that is toggled, and its models.
LEMMA ToggleGrants ==
  ASSUME NEW p \in Platforms, NEW on \in BOOLEAN,
         NEW y, TellsAll(y, p, on), NEW c, c = Enable(p, on),
         NEW q, q = Append(c, <<y>>), NEW t, Whole(t), NEW u, Finishes(t, q, u)
  PROVE  IsToggled(u, {p} \cup ModelsAt(u, p), on)
<1> DEFINE x == [op |-> "enable", x |-> p, on |-> on]
           b == <<y>>
<1>1. c = <<<<x>>>>
  BY DEF Enable
<1>2. x \in Statements
  BY DEF Statements
<1>3. IsStatement(x) /\ Apply(t, x) = SetEnabled(t, p, on)
  BY <1>2 DEF IsStatement, ProperStatements, Apply
<1>4. Head(b) = y /\ ~Plain(y) /\ \A v : ReadOn(v, y) = ToggleModels(v, p, on)
  <2>1. Head(b) = y
    OBVIOUS
  <2>2. y.op = "toggle models" /\ y.p = p /\ y.on = on
    BY DEF TellsAll
  <2> QED
    BY <2>1, <2>2 DEF Plain, ReadOn
<1>5. q = Append(c, b)
  OBVIOUS
<1> HIDE DEF x, b
<1>6. PlainPlan(c)
  BY <1>1, <1>3, PlainFew
<1>7. PICK v : Finishes(t, c, v) /\ Goes(v, b, u)
  BY <1>5, <1>6, EndsAppended
<1>8. v = Apply(t, x) /\ Whole(v)
  BY <1>1, <1>3, <1>7, EndsOne
<1>9. IsToggled(v, {p}, on)
  <2>1. p \in SetEnabled(t, p, on).enabled <=> on
    BY WholeOthers
  <2> QED
    BY <1>3, <1>8, <2>1 DEF IsToggled
<1>10. PICK d : d = ToggleModels(v, p, on)
  OBVIOUS
<1>11. PICK n, e : n = Cardinality(ModelsAt(v, p)) /\ e = SetToSeq(ModelsAt(v, p))
  OBVIOUS
<1>12. PlainPlan(d) /\ Enables(d, n, e, on) /\ n \in Nat /\ Lists(e, n, ModelsAt(v, p))
  BY <1>8, <1>10, <1>11, ToggledAre
<1>13. d = ReadOn(v, Head(b)) /\ Reads(b)
  BY <1>4, <1>10 DEF Reads
<1>14. Finishes(v, d, u)
  BY <1>7, <1>12, <1>13, EndsRead
<1>15. PICK S, P : S = ModelsAt(v, p) /\ P = {p}
  OBVIOUS
<1>16. u.at = v.at /\ IsToggled(u, P, on) /\ IsToggled(u, S, on)
  <2>1. S \subseteq Models
    BY <1>15 DEF ModelsAt
  <2> QED
    BY <1>8, <1>9, <1>12, <1>14, <1>15, <2>1, ToggleDone
<1>17. ModelsAt(u, p) = S
  BY <1>15, <1>16 DEF ModelsAt
<1> QED
  BY <1>15, <1>16, <1>17 DEF IsToggled

\* The row of a model that is created, before its place on the route.
LEMMA RowGrants ==
  ASSUME NEW m \in Models, NEW p \in Platforms, NEW keys \in SUBSET Creds,
         NEW c, c = CreateRAPI(m, p, keys), NEW t, Whole(t), NEW v, Finishes(t, c, v)
  PROVE  v.at[m] = p
<1> DEFINE x == [op |-> "insert rapi", m |-> m, p |-> p]
           w == Apply(t, x)
<1>1. c = Tx(<<x>> \o Bindings(m, p, keys))
  BY DEF CreateRAPI
<1>2. x \in ProperStatements
  BY DEF ProperStatements
<1>3. IsStatement(x) /\ Apply(t, x) = InsertRAPI(t, m, p)
  BY <1>2 DEF IsStatement, Apply
<1> HIDE DEF x
<1>4. w = Apply(t, x) /\ w = InsertRAPI(t, m, p)
  BY <1>3
<1> HIDE DEF w
<1>5. PICK f : Outcome(f, t, c) /\ v = f[Len(c)]
  BY DEF Finishes
<1>6. w # Violated /\ ButBindings(w, v)
  BY <1>1, <1>3, <1>4, <1>5, RowAndBindings
<1>7. w.at[m] = p
  BY <1>4, <1>6, InsertedRow
<1> QED
  BY <1>6, <1>7 DEF ButBindings

\* The platform that is toggled, before its models.
LEMMA EnableGrants ==
  ASSUME NEW p \in Platforms, NEW on \in BOOLEAN, NEW c, c = Enable(p, on),
         NEW t, Whole(t), NEW v, Finishes(t, c, v)
  PROVE  p \in v.enabled <=> on
<1> DEFINE x == [op |-> "enable", x |-> p, on |-> on]
<1>1. c = <<<<x>>>>
  BY DEF Enable
<1>2. x \in Statements
  BY DEF Statements
<1>3. IsStatement(x) /\ Apply(t, x) = SetEnabled(t, p, on)
  BY <1>2 DEF IsStatement, ProperStatements, Apply
<1> HIDE DEF x
<1>4. v = SetEnabled(t, p, on)
  BY <1>1, <1>3, EndsOne
<1>5. p \in SetEnabled(t, p, on).enabled <=> on
  BY WholeOthers
<1> QED
  BY <1>4, <1>5

\* A model is created.
LEMMA CreateHandled ==
  ASSUME NEW r, CreatesModel(r), NEW m \in Models, m = r.m, NEW p \in Platforms, p = r.p,
         NEW keys \in SUBSET Creds, keys = r.keys, NEW t, Whole(t)
  PROVE  Handled(t, r)
<1>0. PICK q : q = Handler(r)
  OBVIOUS
<1>1. PICK y, c : TellsOf(y, m) /\ c = CreateRAPI(m, p, keys)
  BY DEF TellsOf
<1>2. q = Append(c, <<y>>)
  BY <1>0, <1>1 DEF CreatesModel, Handler, PostRAPI, TellsOf
<1>3. PlainPlan(c)
  <2> DEFINE x == [op |-> "insert rapi", m |-> m, p |-> p]
  <2>1. c = Tx(<<x>> \o Bindings(m, p, keys))
    BY <1>1 DEF CreateRAPI
  <2>2. x \in ProperStatements
    BY DEF ProperStatements
  <2>3. IsStatement(x)
    BY <2>2 DEF IsStatement
  <2> HIDE DEF x
  <2> QED
    BY <2>1, <2>3, RowPlan
<1>4. ProperPlan(q)
  <2>1. y \in Readings
    BY <1>1 DEF Readings, TellsOf
  <2>2. ProperBatch(<<y>>)
    BY <2>1 DEF ProperBatch
  <2> QED
    BY <1>2, <1>3, <2>2, PlainIsProper, ProperAppended
<1>5. ASSUME NEW u, Finishes(t, q, u) PROVE Goal(u, r, "all")
  <2>1. IsCreated(u, m, p)
    BY <1>1, <1>2, <1>5, CreateGrants
  <2>2. Granted(u, r) /\ Followed(u, r)
    BY <2>1 DEF CreatesModel, Granted, Followed, IsCreated
  <2> QED
    BY <2>2 DEF Goal
<1>6. Basis(t, q, r)
  <2>1. y \in Readings /\ (y.op = "map" <=> r.op = "create rapi")
    BY <1>1 DEF Readings, TellsOf, CreatesModel
  <2>2. ASSUME NEW v, Finishes(t, c, v) PROVE Granted(v, r)
    <3>1. v.at[m] = p
      BY <1>1, <2>2, RowGrants
    <3> QED
      BY <3>1 DEF CreatesModel, Granted
  <2> QED
    BY <1>2, <1>3, <2>1, <2>2, ReadsLast
<1> QED
  BY <1>0, <1>4, <1>5, <1>6, HandledSo

\* The keys of a platform are set by statements.
LEMMA KeysPlain ==
  ASSUME NEW p \in Platforms, NEW kept \in SUBSET Creds, NEW new \in Nat,
         NEW q, q = SetPlatformKeys(p, kept, new)
  PROVE  PlainPlan(q)
<1>1. CASE backend = "local"
  <2> DEFINE x == [op |-> "set keys", p |-> p, keys |-> kept, n |-> new]
  <2>1. q = <<<<x>>>>
    BY <1>1 DEF SetPlatformKeys
  <2>2. x \in ProperStatements
    BY DEF ProperStatements, Statements
  <2>3. IsStatement(x)
    BY <2>2 DEF IsStatement
  <2> HIDE DEF x
  <2> QED
    BY <2>1, <2>3, PlainFew
<1>2. CASE backend # "local"
  <2> DEFINE x == [op |-> "delete keys", p |-> p]
             y == [op |-> "insert key", p |-> p]
             N == Cardinality(kept) + new
             ins == [i \in 1..N |-> y]
             s == <<x>> \o ins
             S == {x, y}
  <2>1. q = Tx(s)
    BY <1>2 DEF SetPlatformKeys
  <2>2. x \in ProperStatements /\ y \in ProperStatements
    BY DEF ProperStatements
  <2>3. Cardinality(kept) \in Nat
    BY DefinitionsAssumption, FS_Subset, FS_CardinalityType
  <2>4. N \in Nat
    BY <2>3
  <2> HIDE DEF N, x, y
  <2>5. ins = [i \in 1..N |-> ins[i]] /\ \A i \in 1..N : ins[i] = y
    OBVIOUS
  <2>6. x \in S /\ y \in S /\ \A z \in S : IsStatement(z)
    BY <2>2 DEF IsStatement
  <2> HIDE DEF S, ins
  <2>7. s \in Seq(S) /\ s # <<>>
    BY <2>4, <2>5, <2>6, PutBefore
  <2> HIDE DEF s
  <2> QED
    BY <2>1, <2>6, <2>7, PlainTx
<1> QED
  BY <1>1, <1>2

\* The keys of a platform are saved.
LEMMA KeysHandled ==
  ASSUME NEW r, SavesKeys(r), NEW p \in Platforms, p = r.p, NEW kept \in SUBSET Creds, kept = r.kept,
         NEW new \in Nat, new = r.new, NEW t, Whole(t)
  PROVE  Handled(t, r)
<1>0. PICK q : q = Handler(r)
  OBVIOUS
<1>1. q = SetPlatformKeys(p, kept, new)
  BY <1>0 DEF SavesKeys, Handler
<1>2. PlainPlan(q)
  BY <1>1, KeysPlain
<1>3. ASSUME NEW u, Finishes(t, q, u) PROVE Granted(u, r)
  <2>1. Cardinality(KeysAt(u, p)) = Cardinality(kept) + new
    BY <1>1, <1>3, KeysGrants
  <2> QED
    BY <2>1 DEF SavesKeys, Granted
<1> QED
  BY <1>0, <1>2, <1>3, HandledStrictly DEF SavesKeys

\* A platform is toggled.
LEMMA ToggleHandled ==
  ASSUME NEW r, TogglesPlatform(r), NEW p \in Platforms, p = r.p, NEW on \in BOOLEAN, on = r.on,
         NEW t, Whole(t)
  PROVE  Handled(t, r)
<1>0. PICK q : q = Handler(r)
  OBVIOUS
<1>1. PICK y, c : TellsAll(y, p, on) /\ c = Enable(p, on)
  BY DEF TellsAll
<1>2. q = Append(c, <<y>>)
  BY <1>0, <1>1 DEF TogglesPlatform, Handler, TogglePlatform, TellsAll
<1>3. PlainPlan(c)
  <2> DEFINE x == [op |-> "enable", x |-> p, on |-> on]
  <2>1. c = <<<<x>>>>
    BY <1>1 DEF Enable
  <2>2. x \in Statements
    BY DEF Statements
  <2>3. IsStatement(x)
    BY <2>2 DEF IsStatement, ProperStatements
  <2> HIDE DEF x
  <2> QED
    BY <2>1, <2>3, PlainFew
<1>4. ProperPlan(q)
  <2>1. y \in Readings
    BY <1>1 DEF Readings, TellsAll
  <2>2. ProperBatch(<<y>>)
    BY <2>1 DEF ProperBatch
  <2> QED
    BY <1>2, <1>3, <2>2, PlainIsProper, ProperAppended
<1>5. ASSUME NEW u, Finishes(t, q, u) PROVE Goal(u, r, "all")
  <2>1. IsToggled(u, {p} \cup ModelsAt(u, p), on)
    BY <1>1, <1>2, <1>5, ToggleGrants
  <2>2. (p \in u.enabled <=> on) /\ \A m \in ModelsAt(u, p) : m \in u.enabled <=> on
    BY <2>1 DEF IsToggled
  <2>3. Granted(u, r) /\ Followed(u, r)
    BY <2>2 DEF TogglesPlatform, Granted, Followed
  <2> QED
    BY <2>3 DEF Goal
<1>6. Basis(t, q, r)
  <2>1. y \in Readings /\ (y.op = "map" <=> r.op = "create rapi")
    BY <1>1 DEF Readings, TellsAll, TogglesPlatform
  <2>2. ASSUME NEW v, Finishes(t, c, v) PROVE Granted(v, r)
    <3>1. p \in v.enabled <=> on
      BY <1>1, <2>2, EnableGrants
    <3> QED
      BY <3>1 DEF TogglesPlatform, Granted
  <2> QED
    BY <1>2, <1>3, <2>1, <2>2, ReadsLast
<1> QED
  BY <1>0, <1>4, <1>5, <1>6, HandledSo

\* What a request asks for that is one statement, and nothing besides.
LEMMA OtherHandled ==
  ASSUME NEW r, NEW s, IsStatement(s), Handler(r) = <<<<s>>>>,
         ~SavesModel(r), ~CreatesModel(r), ~SavesKeys(r), ~DeletesKey(r), ~TogglesPlatform(r),
         ~SavesChain(r), NEW t
  PROVE  Handled(t, r)
<1>0. PICK q : q = Handler(r)
  OBVIOUS
<1>1. PlainPlan(q)
  BY <1>0, PlainFew
<1>2. \A u : Granted(u, r)
  BY DEF Granted, SavesModel, CreatesModel, SavesKeys, DeletesKey, TogglesPlatform, SavesChain
<1> QED
  BY <1>0, <1>1, <1>2, HandledStrictly DEF CreatesModel, TogglesPlatform

\* The request is one statement, and asks for nothing besides.
OneStatement(r) ==
  /\ \E s \in ProperStatements : Handler(r) = <<<<s>>>>
  /\ r.op \notin {"save rapi", "create rapi", "save keys", "delete key", "toggle platform",
                  "save chain"}

\* Such a request is handled.
LEMMA StatementHandled ==
  ASSUME NEW r, OneStatement(r), NEW t
  PROVE  Handled(t, r)
<1>1. PICK s \in ProperStatements : Handler(r) = <<<<s>>>>
  BY DEF OneStatement
<1>2. IsStatement(s)
  BY DEF IsStatement
<1>3. /\ ~SavesModel(r) /\ ~CreatesModel(r) /\ ~SavesKeys(r) /\ ~DeletesKey(r)
      /\ ~TogglesPlatform(r) /\ ~SavesChain(r)
  BY DEF OneStatement, SavesModel, CreatesModel, SavesKeys, DeletesKey, TogglesPlatform, SavesChain
<1> QED
  BY <1>1, <1>2, <1>3, OtherHandled

\* The statements of a chain are statements.
LEMMA MappingIsPlain ==
  /\ \A b : MappingBatch(b) => PlainBatch(b)
  /\ \A p : MappingPlan(p) => PlainPlan(p)
<1>1. \A s : RouteStatement(s) => IsStatement(s)
  BY DEF RouteStatement, IsStatement
<1>2. \A b : MappingBatch(b) => PlainBatch(b)
  BY <1>1 DEF MappingBatch, PlainBatch
<1> QED
  BY <1>2 DEF MappingPlan, PlainPlan

\* They come as a transaction, or as the calls that stand for it.
LEMMA MappingTx ==
  ASSUME NEW S, NEW s \in Seq(S), s # <<>>, \A x \in S : RouteStatement(x)
  PROVE  MappingPlan(Tx(s))
<1>1. CASE backend = "local"
  <2> DEFINE B == {s}
             p == <<s>>
  <2>1. \A b \in B : MappingBatch(b)
    BY DEF MappingBatch
  <2>2. p \in Seq(B) /\ Tx(s) = p
    BY <1>1 DEF Tx
  <2> HIDE DEF B, p
  <2> QED
    BY <2>1, <2>2 DEF MappingPlan
<1>2. CASE backend # "local"
  <2> DEFINE n == Len(s)
             B == {<<x>> : x \in S}
             p == [i \in 1..n |-> <<s[i]>>]
  <2>1. n \in Nat /\ DOMAIN s = 1..n /\ \A i \in 1..n : s[i] \in S
    OBVIOUS
  <2>2. Tx(s) = p
    BY <1>2, <2>1 DEF Tx
  <2>3. ASSUME NEW b \in B PROVE MappingBatch(b)
    <3>1. PICK x \in S : b = <<x>>
      BY <2>3
    <3> DEFINE X == {x}
    <3>2. b \in Seq(X) /\ b # <<>> /\ \A y \in X : RouteStatement(y)
      BY <3>1
    <3> HIDE DEF X
    <3> QED
      BY <3>2 DEF MappingBatch
  <2>4. \A i \in 1..n : p[i] \in B
    BY <2>1
  <2>5. p \in Seq(B)
    <3>1. p = [i \in 1..n |-> p[i]]
      OBVIOUS
    <3> HIDE DEF p, B, n
    <3> QED
      BY <2>1, <2>4, <3>1
  <2> HIDE DEF p, B
  <2> QED
    BY <2>2, <2>3, <2>5 DEF MappingPlan
<1> QED
  BY <1>1, <1>2

\* Whatever they leave of the chain, the models stay where they are.
LEMMA MappingKeeps ==
  ASSUME NEW t, Whole(t), NEW b, MappingBatch(b), NEW u, u = Applied(t, b), u # Violated
  PROVE  u.at = t.at
<1>1. PICK S : b \in Seq(S) /\ \A s \in S : RouteStatement(s)
  BY DEF MappingBatch
<1> DEFINE n == Len(b)
<1>2. n \in Nat /\ \A i \in 1..n : RouteStatement(b[i]) /\ IsStatement(b[i])
  <2>1. n \in Nat /\ \A i \in 1..n : b[i] \in S
    BY <1>1
  <2>2. \A s : RouteStatement(s) => IsStatement(s)
    BY DEF RouteStatement, IsStatement
  <2> QED
    BY <1>1, <2>1, <2>2
<1>3. t # Violated
  BY WholeFields
<1>4. PICK g : Executed(g, t, b) /\ g[n] = u
  BY <1>2, <1>3, BatchExecuted
<1>5. \A i \in 0..n : Whole(g[i])
  BY <1>2, <1>4, ExecutedWhole
<1> DEFINE ok == {i \in 0..n : g[i].at = t.at}
<1>6. 0 \in ok
  BY <1>2, <1>4 DEF Executed
<1>7. ASSUME NEW i \in 0..n, i \in ok, i < n PROVE i + 1 \in ok
  <2>1. i + 1 \in 1..n /\ i + 1 \in 0..n /\ (i + 1) - 1 = i
    BY <1>2, <1>7
  <2>2. g[i + 1] = Apply(g[i], b[i + 1]) /\ g[i + 1] # Violated /\ RouteStatement(b[i + 1])
    BY <1>2, <1>4, <2>1 DEF Executed
  <2>3. g[i] \in TableRows
    BY <1>5, <1>7, WholeFields
  <2>4. CASE b[i + 1].op = "clear chain"
    <3>1. g[i + 1] = [g[i] EXCEPT !.order = {}]
      BY <2>2, <2>4 DEF Apply
    <3>2. g[i + 1].at = g[i].at
      BY <2>3, <3>1 DEF TableRows
    <3> QED
      BY <1>7, <2>1, <3>2
  <2>5. CASE b[i + 1].op = "link"
    <3>1. g[i + 1] = Link(g[i], b[i + 1].i, b[i + 1].m)
      BY <2>2, <2>5 DEF Apply
    <3>2. g[i + 1].at = g[i].at
      BY <2>2, <2>3, <3>1 DEF Link, Unless, TableRows
    <3> QED
      BY <1>7, <2>1, <3>2
  <2> QED
    BY <2>2, <2>4, <2>5 DEF RouteStatement
<1>8. 0..n \subseteq ok
  <2> HIDE DEF ok, n
  <2> QED
    BY <1>2, <1>6, <1>7, InductionUpTo
<1>9. n \in 0..n
  BY <1>2
<1> QED
  BY <1>4, <1>8, <1>9

\* A chain is put down by the statements of a chain.
LEMMA ChainMaps ==
  ASSUME NEW ms, Listing(ms), NEW q, q = SetLAPIRAPIOrder(ms)
  PROVE  MappingPlan(q)
<1>1. PICK n \in Nat : n <= Cardinality(Models) /\ ms = [i \in 1..n |-> ms[i]]
  BY DEF Listing
<1>2. DOMAIN ms = 1..n
  <2>1. DOMAIN [i \in 1..n |-> ms[i]] = 1..n
    OBVIOUS
  <2> QED
    BY <1>1, <2>1
<1> DEFINE s == ChainOf(ms)
           S == {s[i] : i \in 1..(n + 1)}
           x == [op |-> "clear chain"]
           link(i) == [op |-> "link", i |-> i - 1, m |-> ms[i]]
<1>3. q = Tx(s) /\ s # <<>> /\ \E T : s \in Seq(T)
  BY <1>1, <1>2, ChainOfIs
<1>4. /\ Len(s) = n + 1 /\ s[1] = x
      /\ \A i \in 1..n : s[i + 1] = link(i)
  BY <1>1, <1>2, ChainAt, ZenonT(60)
<1>41. RouteStatement(x)
  BY DEF RouteStatement
<1>42. \A i \in 1..n : RouteStatement(link(i))
  <2>1. \A i \in 1..n : i - 1 \in Places
    <3>1. Cardinality(Models) \in Nat
      BY DefinitionsAssumption, FS_CardinalityType
    <3> QED
      BY <1>1, <3>1 DEF Places
  <2> QED
    BY <2>1 DEF RouteStatement
<1> HIDE DEF s, x, link
<1>5. s \in Seq(S)
  <2>1. PICK T : s \in Seq(T)
    BY <1>3
  <2>2. PICK k : k = Len(s)
    OBVIOUS
  <2>3. k = n + 1 /\ k \in Nat /\ s = [i \in 1..k |-> s[i]]
    BY <1>4, <2>1, <2>2, SequenceIs
  <2>4. \A i \in 1..k : s[i] \in S
    BY <2>3
  <2> HIDE DEF S
  <2> QED
    BY <2>3, <2>4
<1>6. ASSUME NEW i \in 1..(n + 1) PROVE RouteStatement(s[i])
  <2>1. CASE i = 1
    BY <1>4, <1>41, <2>1
  <2>2. CASE i # 1
    <3>1. i - 1 \in 1..n /\ i = (i - 1) + 1
      BY <2>2
    <3>2. s[i] = link(i - 1)
      BY <1>4, <3>1
    <3> QED
      BY <1>42, <3>1, <3>2
  <2> QED
    BY <2>1, <2>2
<1>7. \A z \in S : RouteStatement(z)
  BY <1>6
<1> HIDE DEF S
<1> QED
  BY <1>3, <1>5, <1>7, MappingTx

\* A model is put behind the chain by them, if it is.
LEMMA MapMaps ==
  ASSUME NEW t, Whole(t), NEW m \in Models, NEW q, q = MapToRoute(t, m)
  PROVE  MappingPlan(q)
<1>1. CASE q = <<>>
  <2> DEFINE S == {}
  <2>1. q \in Seq(S) /\ \A b \in S : MappingBatch(b)
    BY <1>1
  <2> HIDE DEF S
  <2> QED
    BY <2>1 DEF MappingPlan
<1>2. CASE q # <<>>
  <2>1. PICK ms : ms = Append(Chain(t), m)
    OBVIOUS
  <2>2. q = SetLAPIRAPIOrder(ms) /\ m \notin Range(Chain(t))
    BY <1>2, <2>1 DEF MapToRoute
  <2>3. m \notin OnChain(t)
    BY <2>2, ChainIs
  <2>4. Listing(ms)
    BY <2>1, <2>3, ListingBehind
  <2> QED
    BY <2>2, <2>4, ChainMaps
<1> QED
  BY <1>1, <1>2

\* Whatever a form asks for, its handler leads there from any tables.
LEMMA HandlerHandled ==
  ASSUME NEW r \in Requests, NEW t, Whole(t)
  PROVE  Handled(t, r)
<1> DEFINE Listed == {ks \in SUBSET Known(Creds) : Cardinality(ks) <= FormKeys}
<1>0. /\ Known(Platforms) \subseteq Platforms /\ Known(Models) \subseteq Models
      /\ Known(Creds) \subseteq Creds
      /\ Listed \subseteq SUBSET Creds
  BY DEF Known
<1>00. r \in
    [op : {"create platform"}, p : Platforms \ tables.used]
    \cup [op : {"create rapi"}, m : Models \ tables.used, p : Known(Platforms), keys : Listed]
    \cup [op : {"save rapi"}, m : Known(Models), p : Known(Platforms), keys : Listed, on : BOOLEAN]
    \cup [op : {"delete rapi"}, m : Known(Models), force : BOOLEAN]
    \cup [op : {"delete platform"}, p : Known(Platforms), force : BOOLEAN]
    \cup [op : {"save keys"}, p : Known(Platforms), kept : Listed, new : 0..1]
    \cup [op : {"add key"}, p : Known(Platforms)]
    \cup [op : {"delete key"}, k : Known(Creds)]
    \cup [op : {"toggle platform"}, p : Known(Platforms), on : BOOLEAN]
    \cup [op : {"toggle"}, x : Known(Models) \cup {Route}, on : BOOLEAN]
    \cup [op : {"create route", "delete route"}]
    \cup [op : {"save chain"}, ms : SeqOf(Known(Models), Cardinality(Models))]
  BY DEF Requests
<1> HIDE DEF Listed
<1>1. CASE r \in [op : {"create platform"}, p : Platforms \ tables.used]
  <2>1. /\ Handler(r) = <<<<[op |-> "insert platform", p |-> r.p]>>>> /\ r.p \in Platforms
        /\ r.op = "create platform"
    BY <1>1, <1>0 DEF Handler
  <2>2. [op |-> "insert platform", p |-> r.p] \in Statements
    BY <2>1 DEF Statements
  <2>3. OneStatement(r)
    BY <2>1, <2>2 DEF OneStatement, ProperStatements
  <2> QED
    BY <2>3, StatementHandled
<1>2. CASE r \in [op : {"create rapi"}, m : Models \ tables.used, p : Known(Platforms), keys : Listed]
  <2>1. CreatesModel(r) /\ r.m \in Models /\ r.p \in Platforms /\ r.keys \in SUBSET Creds
    BY <1>0, <1>2 DEF CreatesModel
  <2> QED
    BY <2>1, CreateHandled
<1>3. CASE r \in [op : {"save rapi"}, m : Known(Models), p : Known(Platforms), keys : Listed, on : BOOLEAN]
  <2>1. /\ SavesModel(r) /\ r.m \in Models /\ r.p \in Platforms /\ r.keys \in SUBSET Creds
        /\ r.on \in BOOLEAN
    BY <1>0, <1>3 DEF SavesModel
  <2> QED
    BY <2>1, SaveHandled
<1>4. CASE r \in [op : {"delete rapi"}, m : Known(Models), force : BOOLEAN]
  <2>1. /\ Handler(r) = <<<<[op |-> "delete rapi", m |-> r.m, kept |-> ~r.force /\ backend = "local"]>>>>
        /\ r.m \in Models /\ r.op = "delete rapi"
    BY <1>4, <1>0 DEF Handler, DeleteRAPI
  <2>2. [op |-> "delete rapi", m |-> r.m, kept |-> ~r.force /\ backend = "local"] \in Statements
    BY <2>1 DEF Statements
  <2>3. OneStatement(r)
    BY <2>1, <2>2 DEF OneStatement, ProperStatements
  <2> QED
    BY <2>3, StatementHandled
<1>5. CASE r \in [op : {"delete platform"}, p : Known(Platforms), force : BOOLEAN]
  <2>1. /\ Handler(r) = <<<<[op |-> "delete platform", p |-> r.p, kept |-> ~r.force /\ backend = "local"]>>>>
        /\ r.p \in Platforms /\ r.op = "delete platform"
    BY <1>5, <1>0 DEF Handler, DeletePlatform
  <2>2. [op |-> "delete platform", p |-> r.p, kept |-> ~r.force /\ backend = "local"] \in Statements
    BY <2>1 DEF Statements
  <2>3. OneStatement(r)
    BY <2>1, <2>2 DEF OneStatement, ProperStatements
  <2> QED
    BY <2>3, StatementHandled
<1>6. CASE r \in [op : {"save keys"}, p : Known(Platforms), kept : Listed, new : 0..1]
  <2>1. SavesKeys(r) /\ r.p \in Platforms /\ r.kept \in SUBSET Creds /\ r.new \in Nat
    <3>1. r.op = "save keys" /\ r.p \in Known(Platforms) /\ r.kept \in Listed
      BY <1>6
    <3>2. r.new \in 0..1
      BY <1>6
    <3>3. r.new \in Nat
      BY <3>2
    <3> QED
      BY <1>0, <3>1, <3>3 DEF SavesKeys
  <2> QED
    BY <2>1, KeysHandled
<1>7. CASE r \in [op : {"add key"}, p : Known(Platforms)]
  <2>1. r.p \in Platforms /\ r.op = "add key" /\ Handler(r) = AddPlatformKey(r.p)
    BY <1>7, <1>0 DEF Handler
  <2>2. [op |-> "add key", p |-> r.p] \in ProperStatements
    BY <2>1 DEF ProperStatements, Statements
  <2>3. [op |-> "insert key", p |-> r.p] \in ProperStatements
    BY <2>1 DEF ProperStatements
  <2>4. CASE backend = "local"
    <3>1. Handler(r) = <<<<[op |-> "add key", p |-> r.p]>>>>
      BY <2>1, <2>4 DEF AddPlatformKey
    <3>2. OneStatement(r)
      BY <2>1, <2>2, <3>1 DEF OneStatement, ProperStatements
    <3> QED
      BY <3>2, StatementHandled
  <2>5. CASE backend # "local"
    <3>1. Handler(r) = <<<<[op |-> "insert key", p |-> r.p]>>>>
      BY <2>1, <2>5 DEF AddPlatformKey
    <3>2. OneStatement(r)
      BY <2>1, <2>3, <3>1 DEF OneStatement, ProperStatements
    <3> QED
      BY <3>2, StatementHandled
  <2> QED
    BY <2>4, <2>5
<1>8. CASE r \in [op : {"delete key"}, k : Known(Creds)]
  <2>1. DeletesKey(r) /\ r.k \in Creds
    BY <1>0, <1>8 DEF DeletesKey
  <2> QED
    BY <2>1, DropHandled
<1>9. CASE r \in [op : {"toggle platform"}, p : Known(Platforms), on : BOOLEAN]
  <2>1. TogglesPlatform(r) /\ r.p \in Platforms /\ r.on \in BOOLEAN
    BY <1>0, <1>9 DEF TogglesPlatform
  <2> QED
    BY <2>1, ToggleHandled
<1>10. CASE r \in [op : {"toggle"}, x : Known(Models) \cup {Route}, on : BOOLEAN]
  <2>1. /\ Handler(r) = <<<<[op |-> "enable", x |-> r.x, on |-> r.on]>>>>
        /\ r.x \in Models \cup {Route} /\ r.on \in BOOLEAN /\ r.op = "toggle"
    BY <1>10, <1>0 DEF Handler, Enable
  <2>2. [op |-> "enable", x |-> r.x, on |-> r.on] \in Statements
    BY <2>1 DEF Statements
  <2>3. OneStatement(r)
    BY <2>1, <2>2 DEF OneStatement, ProperStatements
  <2> QED
    BY <2>3, StatementHandled
<1>11. CASE r \in [op : {"create route", "delete route"}]
  <2>1. r.op \in {"create route", "delete route"}
    BY <1>11
  <2>2. /\ [op |-> "insert route"] \in Statements
        /\ [op |-> "delete route"] \in Statements
    BY DEF Statements
  <2>3. CASE r.op = "create route"
    <3>1. Handler(r) = <<<<[op |-> "insert route"]>>>>
      BY <2>3 DEF Handler
    <3>2. OneStatement(r)
      BY <2>2, <2>3, <3>1 DEF OneStatement, ProperStatements
    <3> QED
      BY <3>2, StatementHandled
  <2>4. CASE r.op = "delete route"
    <3>1. Handler(r) = <<<<[op |-> "delete route"]>>>>
      BY <2>4 DEF Handler
    <3>2. OneStatement(r)
      BY <2>2, <2>4, <3>1 DEF OneStatement, ProperStatements
    <3> QED
      BY <3>2, StatementHandled
  <2> QED
    BY <2>1, <2>3, <2>4
<1>12. CASE r \in [op : {"save chain"}, ms : SeqOf(Known(Models), Cardinality(Models))]
  <2>1. SavesChain(r) /\ r.ms \in SeqOf(Known(Models), Cardinality(Models))
    BY <1>12 DEF SavesChain
  <2>2. PICK n \in 0..Cardinality(Models) : r.ms \in [1..n -> Known(Models)]
    BY <2>1 DEF SeqOf
  <2>3. Listing(r.ms)
    <3>1. Cardinality(Models) \in Nat
      BY DefinitionsAssumption, FS_CardinalityType
    <3>2. n \in Nat /\ n <= Cardinality(Models) /\ r.ms = [i \in 1..n |-> r.ms[i]]
      BY <2>2, <3>1
    <3> QED
      BY <3>2 DEF Listing
  <2> QED
    BY <2>1, <2>3, ChainHandled
<1> QED
  BY <1>00, <1>1, <1>2, <1>3, <1>4, <1>5, <1>6, <1>7, <1>8, <1>9, <1>10, <1>11, <1>12

\* What a handler goes on with is a plan of statements.
LEMMA ReadOnPlain ==
  ASSUME NEW t, Whole(t), NEW s \in Readings, NEW q, q = ReadOn(t, s)
  PROVE  PlainPlan(q)
<1>1. CASE s \in [op : {"map"}, m : Models]
  <2>1. PICK m \in Models : m = s.m
    BY <1>1
  <2>2. q = MapToRoute(t, m)
    BY <1>1, <2>1 DEF ReadOn
  <2> QED
    BY <2>2, MapMaps, MappingIsPlain
<1>2. CASE s \in [op : {"toggle models"}, p : Platforms, on : BOOLEAN]
  <2>1. PICK p \in Platforms, on \in BOOLEAN : p = s.p /\ on = s.on
    BY <1>2
  <2>2. q = ToggleModels(t, p, on)
    BY <1>2, <2>1 DEF ReadOn
  <2>3. PICK n, e : n = Cardinality(ModelsAt(t, p)) /\ e = SetToSeq(ModelsAt(t, p))
    OBVIOUS
  <2> QED
    BY <2>2, <2>3, ToggledAre
<1> QED
  BY <1>1, <1>2 DEF Readings

----------------------------------------------------------------------------
(* What may fail and be answered with success.                              *)

\* A plan that was lengthened by a batch, before that is its turn.
LEMMA AppendedGoesOn ==
  ASSUME NEW c, PlainPlan(c), NEW b, NEW rest, rest = Append(c, b)
  PROVE  /\ c = <<>> => rest = <<b>> /\ Head(rest) = b /\ Tail(rest) = <<>>
         /\ c # <<>> => Head(rest) = Head(c) /\ Tail(rest) = Append(Tail(c), b)
         /\ Len(c) + 1 \in DOMAIN rest /\ rest[Len(c) + 1] = b
<1>1. PICK S : c \in Seq(S)
  BY DEF PlainPlan
<1> DEFINE T == S \cup {b}
<1>2. c \in Seq(T) /\ b \in T
  BY <1>1
<1> HIDE DEF T
<1>3. c = <<>> => rest = <<b>> /\ Head(rest) = b /\ Tail(rest) = <<>>
  BY <1>2
<1>4. c # <<>> => Head(rest) = Head(c) /\ Tail(rest) = Append(Tail(c), b)
  BY <1>2
<1>5. Len(c) + 1 \in DOMAIN rest /\ rest[Len(c) + 1] = b
  BY <1>2
<1> QED
  BY <1>3, <1>4, <1>5

\* The first batch of a mapping, and the rest of it.
LEMMA MappingGoesOn ==
  ASSUME NEW rest, MappingPlan(rest), rest # <<>>
  PROVE  MappingBatch(Head(rest)) /\ MappingPlan(Tail(rest))
<1>1. PICK S : rest \in Seq(S) /\ \A b \in S : MappingBatch(b)
  BY DEF MappingPlan
<1>2. Head(rest) \in S /\ Tail(rest) \in Seq(S)
  BY <1>1, HeadTailProperties
<1> QED
  BY <1>1, <1>2 DEF MappingPlan

\* A mapping leaves the model that was asked for where it is.
LEMMA MappingLeaves ==
  ASSUME NEW t, Whole(t), NEW rest, NEW r, Behind(t, rest, r), rest # <<>>,
         NEW u, u = Applied(t, Head(rest)), u # Violated
  PROVE  Behind(u, Tail(rest), r)
<1>1. MappingBatch(Head(rest)) /\ MappingPlan(Tail(rest))
  BY MappingGoesOn DEF Behind
<1>2. u.at = t.at
  BY <1>1, MappingKeeps
<1>3. Goal(u, r, "asked")
  BY <1>2 DEF Behind, Goal, Granted
<1> QED
  BY <1>1, <1>3 DEF Behind

\* A reading is read, a plan of statements has none.
LEMMA ReadingReads ==
  /\ \A y \in Readings : Reads(<<y>>)
  /\ \A rest : PlainPlan(rest) /\ rest # <<>> => ~Reads(Head(rest))
<1>1. ASSUME NEW y \in Readings PROVE Reads(<<y>>)
  <2>1. y.op \in {"map", "toggle models"}
    BY DEF Readings
  <2>2. Head(<<y>>) = y
    OBVIOUS
  <2> QED
    BY <2>1, <2>2 DEF Reads, Plain
<1>2. ASSUME NEW rest, PlainPlan(rest), rest # <<>> PROVE ~Reads(Head(rest))
  BY <1>2, PlainGoesOn, BatchWhole
<1> QED
  BY <1>1, <1>2

\* A batch that is executed.
LEMMA BasisRuns ==
  ASSUME NEW t, Whole(t), NEW rest, rest # <<>>, NEW r, Basis(t, rest, r), ~Reads(Head(rest)),
         NEW u, u = Applied(t, Head(rest)), u # Violated
  PROVE  Basis(u, Tail(rest), r)
<1>1. CASE Beforehand(t, rest, r)
  <2>1. PICK c : \E y \in Readings :
          /\ PlainPlan(c) /\ rest = Append(c, <<y>>) /\ (y.op = "map" <=> r.op = "create rapi")
          /\ Leads(t, c, r, "asked")
    BY <1>1 DEF Beforehand
  <2>2. PICK y \in Readings :
          /\ PlainPlan(c) /\ rest = Append(c, <<y>>) /\ (y.op = "map" <=> r.op = "create rapi")
          /\ Leads(t, c, r, "asked")
    BY <2>1
  <2>0. PICK b : b = <<y>>
    OBVIOUS
  <2>00. PlainPlan(c) /\ rest = Append(c, b)
    BY <2>0, <2>2
  <2>3. c # <<>>
    <3>1. Reads(b)
      BY <2>0, ReadingReads
    <3>2. c = <<>> => Head(rest) = b
      BY <2>00, AppendedGoesOn
    <3> QED
      BY <3>1, <3>2
  <2>4. Head(rest) = Head(c) /\ Tail(rest) = Append(Tail(c), <<y>>)
    BY <2>0, <2>00, <2>3, AppendedGoesOn
  <2>5. PlainPlan(Tail(c)) /\ \E S : c \in Seq(S)
    BY <2>2, <2>3, PlainGoesOn
  <2>6. Goes(t, Head(c), u)
    BY <2>4 DEF Goes, Does
  <2>7. Leads(u, Tail(c), r, "asked")
    BY <2>2, <2>3, <2>5, <2>6, LeadsOn
  <2> QED
    BY <2>2, <2>4, <2>5, <2>7 DEF Basis, Beforehand
<1>2. CASE Behind(t, rest, r)
  BY <1>2, MappingLeaves DEF Basis
<1>3. CASE Strict(rest, r)
  BY <1>3, PlainGoesOn DEF Basis, Strict
<1> QED
  BY <1>1, <1>2, <1>3 DEF Basis

\* A reading comes last, when what was asked is done.
LEMMA BasisReads ==
  ASSUME NEW t, NEW rest, rest # <<>>, NEW r, Basis(t, rest, r), Reads(Head(rest))
  PROVE  /\ Tail(rest) = <<>> /\ Goal(t, r, "asked")
         /\ \E y \in Readings : Head(Head(rest)) = y /\ (y.op = "map" <=> r.op = "create rapi")
<1>1. Beforehand(t, rest, r)
  <2>1. ~Behind(t, rest, r)
    BY ReadingReads, MappingIsPlain DEF Behind
  <2>2. ~Strict(rest, r)
    BY ReadingReads DEF Strict
  <2> QED
    BY <2>1, <2>2 DEF Basis
<1>2. PICK c : \E y \in Readings :
        /\ PlainPlan(c) /\ rest = Append(c, <<y>>) /\ (y.op = "map" <=> r.op = "create rapi")
        /\ Leads(t, c, r, "asked")
  BY <1>1 DEF Beforehand
<1>3. PICK y \in Readings :
        /\ PlainPlan(c) /\ rest = Append(c, <<y>>) /\ (y.op = "map" <=> r.op = "create rapi")
        /\ Leads(t, c, r, "asked")
  BY <1>2
<1>0. PICK b : b = <<y>>
  OBVIOUS
<1>00. PlainPlan(c) /\ rest = Append(c, b)
  BY <1>0, <1>3
<1>4. c = <<>>
  <2>1. c # <<>> => Head(rest) = Head(c)
    BY <1>00, AppendedGoesOn
  <2>2. c # <<>> => ~Reads(Head(c))
    BY <1>00, ReadingReads
  <2> QED
    BY <2>1, <2>2
<1>5. Head(rest) = <<y>> /\ Tail(rest) = <<>>
  BY <1>0, <1>00, <1>4, AppendedGoesOn
<1>6. Head(Head(rest)) = y
  BY <1>5
<1>7. Goal(t, r, "asked")
  <2> DEFINE f == [i \in {0} |-> t]
  <2>1. Len(c) = 0 /\ f[0] = t
    BY <1>4
  <2>2. Outcome(f, t, c)
    BY <2>1 DEF Outcome
  <2> HIDE DEF f
  <2>3. Goal(f[Len(c)], r, "asked")
    BY <1>3, <2>2 DEF Leads
  <2> QED
    BY <2>1, <2>3
<1> QED
  BY <1>3, <1>5, <1>6, <1>7

\* What the handler goes on with is a mapping, or fails with an error.
LEMMA BasisReadOn ==
  ASSUME NEW t, Whole(t), NEW rest, rest # <<>>, NEW r, Basis(t, rest, r), Reads(Head(rest)),
         NEW found, found = ReadOn(t, Head(Head(rest)))
  PROVE  Basis(t, found, r)
<1>1. PICK y \in Readings : Head(Head(rest)) = y /\ (y.op = "map" <=> r.op = "create rapi")
  BY BasisReads
<1>2. Goal(t, r, "asked")
  BY BasisReads
<1>3. CASE y.op = "map"
  <2>1. PICK m \in Models : m = y.m
    BY <1>3 DEF Readings
  <2>2. found = MapToRoute(t, m)
    BY <1>1, <1>3, <2>1 DEF ReadOn
  <2>3. MappingPlan(found)
    BY <2>2, MapMaps
  <2> QED
    BY <1>1, <1>2, <1>3, <2>3 DEF Basis, Behind
<1>4. CASE y.op # "map"
  <2>1. found = ReadOn(t, y)
    BY <1>1
  <2>2. PlainPlan(found)
    BY <2>1, ReadOnPlain
  <2> QED
    BY <1>1, <1>4, <2>2 DEF Basis, Strict
<1> QED
  BY <1>3, <1>4

\* Once the chain is read, the rest of a handler that creates a model is a mapping.
LEMMA BasisMapped ==
  ASSUME NEW t, NEW rest, NEW r, Basis(t, rest, r), CreatesModel(r),
         \A i \in DOMAIN rest : Head(rest[i]).op # "map"
  PROVE  Behind(t, rest, r)
<1>1. ~Beforehand(t, rest, r)
  <2> SUFFICES ASSUME NEW c, NEW y \in Readings, PlainPlan(c), rest = Append(c, <<y>>), y.op = "map"
               PROVE  FALSE
    BY DEF Beforehand, CreatesModel
  <2>1. PICK b : b = <<y>>
    OBVIOUS
  <2>2. Len(c) + 1 \in DOMAIN rest /\ rest[Len(c) + 1] = b
    BY <2>1, AppendedGoesOn
  <2>3. Head(b) = y
    BY <2>1
  <2> QED
    BY <2>2, <2>3
<1>2. ~Strict(rest, r)
  BY DEF Strict, CreatesModel
<1> QED
  BY <1>1, <1>2 DEF Basis

\* All this is the same before a step and after it.
LEMMA BasisRigid ==
  ASSUME NEW t, NEW rest, NEW r, backend' = backend
  PROVE  Basis(t, rest, r)' <=> Basis(t, rest, r)
<1>1. \A c : Leads(t, c, r, "asked")' <=> Leads(t, c, r, "asked")
  BY LeadsRigid
<1>2. Goal(t, r, "asked")' <=> Goal(t, r, "asked")
  BY GoalRigid
<1>3. Beforehand(t, rest, r)' <=> Beforehand(t, rest, r)
  BY <1>1 DEF Beforehand
<1>4. Behind(t, rest, r)' <=> Behind(t, rest, r)
  BY <1>2 DEF Behind
<1>5. Strict(rest, r)' <=> Strict(rest, r)
  BY DEF Strict
<1> QED
  BY <1>3, <1>4, <1>5 DEF Basis

----------------------------------------------------------------------------
(* What is asked for is saved.                                              *)

\* A handler that has swallowed an error is done, and so is what was asked.  What is
\* left of any other leads, carried out on the tables as they are, to that and all
\* that follows from it.
Lost(t, rest, r) == rest = <<>> /\ Goal(t, r, "asked")
Owes(t, rest, r) == Leads(t, rest, r, "all") /\ Basis(t, rest, r)

\* What is left of o's handler, if nobody came in between.
InHand(o) ==
  /\ ProperPlan(plan[o])
  /\ alone[o] /\ o \in swallowed => Lost(tables, plan[o], asked[o])
  /\ alone[o] /\ o \notin swallowed => Owes(tables, plan[o], asked[o])

\* The tables are what operators can define, and every handler is in hand.
SavedInv ==
  /\ backend \in Backends
  /\ Whole(tables)
  /\ plan = [o \in Operators |-> plan[o]] /\ asked = [o \in Operators |-> asked[o]]
  /\ alone \in [Operators -> BOOLEAN] /\ swallowed \subseteq Operators
  /\ \A o \in Operators : InHand(o)

\* At first nobody has asked, and the rows refer to rows there are.
LEMMA SavedInvInit == DefinitionsInit => SavedInv
<1> SUFFICES ASSUME DefinitionsInit PROVE SavedInv
  OBVIOUS
<1>1. Whole(tables)
  BY FirstRowsAssumption DEF DefinitionsInit, Whole
<1>2. ASSUME NEW o \in Operators PROVE InHand(o)
  <2>1. plan[o] = <<>> /\ alone[o] = FALSE
    BY DEF DefinitionsInit
  <2> QED
    BY <2>1, PlainFew, PlainIsProper DEF InHand
<1>3. backend \in Backends /\ alone \in [Operators -> BOOLEAN] /\ swallowed \subseteq Operators
  BY DEF DefinitionsInit
<1>4. plan = [o \in Operators |-> plan[o]] /\ asked = [o \in Operators |-> asked[o]]
  BY DEF DefinitionsInit
<1> QED
  BY <1>1, <1>2, <1>3, <1>4 DEF SavedInv

\* A plan in hand before a step, and one after it.
LEMMA InHandAfter ==
  ASSUME NEW q, backend' = backend, NEW u, u = tables', NEW p, p = plan'[q], NEW r, r = asked'[q],
         ProperPlan(p),
         alone'[q] /\ q \in swallowed' => Lost(u, p, r),
         alone'[q] /\ q \notin swallowed' => Owes(u, p, r)
  PROVE  InHand(q)'
<1>1. \A x, y, z : Lost(x, y, z)' <=> Lost(x, y, z)
  BY GoalRigid DEF Lost
<1>2. \A x, y, z : Owes(x, y, z)' <=> Owes(x, y, z)
  BY LeadsRigid, BasisRigid DEF Owes
<1> QED
  BY <1>1, <1>2 DEF InHand

\* A handler that the step does not go on with, and whose tables it does not change.
LEMMA StillInHand ==
  ASSUME NEW q, InHand(q), backend' = backend, plan'[q] = plan[q], asked'[q] = asked[q],
         q \in swallowed' <=> q \in swallowed, alone'[q] => alone[q] /\ tables' = tables
  PROVE  InHand(q)'
<1>1. PICK u, p, r : u = tables' /\ p = plan'[q] /\ r = asked'[q]
  OBVIOUS
<1>2. /\ ProperPlan(p)
      /\ alone'[q] /\ q \in swallowed' => Lost(u, p, r)
      /\ alone'[q] /\ q \notin swallowed' => Owes(u, p, r)
  BY <1>1 DEF InHand
<1> QED
  BY <1>1, <1>2, InHandAfter

\* A step of the operator o.
LEMMA OneInHand ==
  ASSUME SavedInv, NEW o \in Operators, NEW p, plan' = [plan EXCEPT ![o] = p],
         NEW r, asked' = [asked EXCEPT ![o] = r], NEW u, u = tables', Whole(u),
         backend' = backend, alone' \in [Operators -> BOOLEAN],
         swallowed' \in {swallowed, swallowed \ {o}, swallowed \cup {o}}, ProperPlan(p),
         alone'[o] /\ o \in swallowed' => Lost(u, p, r),
         alone'[o] /\ o \notin swallowed' => Owes(u, p, r),
         \A q \in Operators : q # o /\ alone'[q] => alone[q] /\ tables' = tables
  PROVE  SavedInv'
<1>1. /\ backend' \in Backends /\ Whole(tables') /\ alone' \in [Operators -> BOOLEAN]
      /\ swallowed' \subseteq Operators
  BY DEF SavedInv
<1>2. /\ plan' = [q \in Operators |-> plan'[q]] /\ asked' = [q \in Operators |-> asked'[q]]
      /\ plan'[o] = p /\ asked'[o] = r
      /\ \A q \in Operators : q # o => plan'[q] = plan[q] /\ asked'[q] = asked[q]
  BY DEF SavedInv
<1>3. ASSUME NEW q \in Operators PROVE InHand(q)'
  <2>1. CASE q = o
    BY <1>2, <2>1, InHandAfter
  <2>2. CASE q # o
    <3>1. InHand(q)
      BY DEF SavedInv
    <3>2. /\ plan'[q] = plan[q] /\ asked'[q] = asked[q] /\ (q \in swallowed' <=> q \in swallowed)
          /\ alone'[q] => alone[q] /\ tables' = tables
      BY <1>2, <2>2
    <3> QED
      BY <3>1, <3>2, StillInHand
  <2> QED
    BY <2>1, <2>2
<1> QED
  BY <1>1, <1>2, <1>3 DEF SavedInv

\* A request is handled, from whatever tables it finds.
LEMMA SavedRequest == ASSUME SavedInv, NEW o \in Operators, Request(o) PROVE SavedInv'
<1>1. PICK r \in Requests : asked' = [asked EXCEPT ![o] = r] /\ plan' = [plan EXCEPT ![o] = Handler(r)]
  BY DEF Request
<1>2. /\ backend' = backend /\ tables' = tables /\ alone' = [alone EXCEPT ![o] = TRUE]
      /\ swallowed' = swallowed \ {o}
  BY DEF Request
<1>3. Whole(tables) /\ alone \in [Operators -> BOOLEAN]
  BY DEF SavedInv
<1>4. Handled(tables, r)
  BY <1>3, HandlerHandled
<1>5. PICK u, p : u = tables' /\ p = Handler(r)
  OBVIOUS
<1>6. Whole(u) /\ ProperPlan(p) /\ Owes(u, p, r) /\ o \notin swallowed'
  BY <1>2, <1>3, <1>4, <1>5 DEF Handled, Owes
<1>7. /\ alone' \in [Operators -> BOOLEAN]
      /\ \A q \in Operators : q # o /\ alone'[q] => alone[q] /\ tables' = tables
  BY <1>2, <1>3
<1>8. plan' = [plan EXCEPT ![o] = p]
  BY <1>1, <1>5
<1> QED
  BY <1>1, <1>2, <1>5, <1>6, <1>7, <1>8, OneInHand

\* What was read leads where reading it leads.
LEMMA SavedRead == ASSUME SavedInv, NEW o \in Operators, Read(o) PROVE SavedInv'
<1>1. PICK rest, r : rest = plan[o] /\ r = asked[o]
  OBVIOUS
<1>2. PICK found : found = ReadOn(tables, Head(Head(rest)))
  OBVIOUS
<1>3. /\ rest # <<>> /\ Head(Head(rest)).op \in {"map", "toggle models"}
      /\ plan' = [plan EXCEPT ![o] = found \o Tail(rest)]
      /\ backend' = backend /\ tables' = tables /\ asked' = asked /\ alone' = alone
      /\ swallowed' = swallowed
  BY <1>1, <1>2 DEF Read, ReadsNext, SavedInv
<1>4. Whole(tables) /\ ProperPlan(rest) /\ (alone[o] => o \notin swallowed /\ Owes(tables, rest, r))
  BY <1>1, <1>3 DEF SavedInv, InHand, Lost
<1>5. ProperBatch(Head(rest)) /\ ProperPlan(Tail(rest)) /\ \E S : rest \in Seq(S)
  BY <1>3, <1>4, ProperGoesOn
<1>6. Reads(Head(rest))
  BY <1>3 DEF Reads, Plain
<1>7. PICK s \in Readings : Head(Head(rest)) = s
  <2>1. PICK s \in Readings : Head(rest) = <<s>>
    BY <1>5, <1>6, BatchWhole DEF ProperBatch
  <2> QED
    BY <2>1
<1>8. PlainPlan(found)
  BY <1>2, <1>4, <1>7, ReadOnPlain
<1>9. PICK T : found \in Seq(T) /\ \A b \in T : PlainBatch(b) /\ ~Reads(b)
  BY <1>8, PlainBatches
<1>10. PICK p, u : p = found \o Tail(rest) /\ u = tables'
  OBVIOUS
<1>11. ProperPlan(p)
  BY <1>5, <1>8, <1>10, PlainIsProper, ProperJoined
<1>12. ASSUME alone[o] PROVE o \notin swallowed /\ Owes(tables, p, r)
  <2>1. PICK S : rest \in Seq(S)
    BY <1>5
  <2>2. /\ o \notin swallowed /\ Leads(tables, rest, r, "all") /\ Basis(tables, rest, r)
        /\ \A b \in T : ~Reads(b)
    BY <1>4, <1>9, <1>12 DEF Owes
  <2>3. rest # <<>>
    BY <1>3
  <2>4. Leads(tables, found \o Tail(rest), r, "all")
    BY <1>2, <1>6, <1>9, <2>1, <2>2, <2>3, LeadsReadOn
  <2>5. Tail(rest) = <<>>
    BY <1>6, <2>2, <2>3, BasisReads
  <2>6. found \o Tail(rest) = found
    <3>1. found \o <<>> = found
      BY <1>9, ConcatEmptySeq
    <3> QED
      BY <2>5, <3>1
  <2>7. Basis(tables, found, r)
    BY <1>2, <1>4, <1>6, <2>2, <2>3, BasisReadOn
  <2> QED
    BY <1>10, <2>2, <2>4, <2>6, <2>7 DEF Owes
<1>13. asked' = [asked EXCEPT ![o] = r] /\ alone' \in [Operators -> BOOLEAN]
  BY <1>1, <1>3 DEF SavedInv
<1>14. Whole(u) /\ (alone'[o] => o \notin swallowed' /\ Owes(u, p, r))
  BY <1>3, <1>4, <1>10, <1>12
<1>15. /\ plan' = [plan EXCEPT ![o] = p]
       /\ backend' = backend /\ swallowed' = swallowed
       /\ \A q \in Operators : q # o /\ alone'[q] => alone[q] /\ tables' = tables
  BY <1>3, <1>10
<1> QED
  BY <1>10, <1>11, <1>13, <1>14, <1>15, OneInHand

\* What could not be read was the last that was left.
LEMMA SavedMisread == ASSUME SavedInv, NEW o \in Operators, Misread(o) PROVE SavedInv'
<1>1. PICK rest, r, u : rest = plan[o] /\ r = asked[o] /\ u = tables'
  OBVIOUS
<1>2. PICK p : p = Tail(rest)
  OBVIOUS
<1>3. /\ rest # <<>> /\ Head(Head(rest)).op \in {"map", "toggle models"}
      /\ plan' = [plan EXCEPT ![o] = p]
      /\ backend' = backend /\ tables' = tables /\ asked' = asked /\ alone' = alone
      /\ swallowed' = swallowed \cup {o}
  BY <1>1, <1>2 DEF Misread, ReadsNext, SavedInv
<1>4. Whole(tables) /\ ProperPlan(rest) /\ (alone[o] => Owes(tables, rest, r))
  BY <1>1, <1>3 DEF SavedInv, InHand, Lost
<1>5. ProperPlan(p)
  BY <1>2, <1>3, <1>4, ProperGoesOn
<1>6. Reads(Head(rest))
  BY <1>3 DEF Reads, Plain
<1>7. ASSUME alone[o] PROVE Lost(u, p, r)
  <2>1. Basis(tables, rest, r)
    BY <1>4, <1>7 DEF Owes
  <2>2. Tail(rest) = <<>> /\ Goal(tables, r, "asked")
    BY <1>3, <1>6, <2>1, BasisReads
  <2> QED
    BY <1>1, <1>2, <1>3, <2>2 DEF Lost
<1>8. asked' = [asked EXCEPT ![o] = r] /\ alone' \in [Operators -> BOOLEAN]
  BY <1>1, <1>3 DEF SavedInv
<1>9. /\ Whole(u) /\ o \in swallowed' /\ (alone'[o] => Lost(u, p, r))
      /\ \A q \in Operators : q # o /\ alone'[q] => alone[q] /\ tables' = tables
  BY <1>1, <1>3, <1>4, <1>7
<1> QED
  BY <1>1, <1>3, <1>5, <1>8, <1>9, OneInHand

\* A batch that is executed leaves the rest of its handler in hand.
LEMMA SavedRuns == ASSUME SavedInv, NEW o \in Operators, Runs(o) PROVE SavedInv'
<1>1. PICK rest, r : rest = plan[o] /\ r = asked[o]
  OBVIOUS
<1>2. PICK u : u = Applied(tables, Head(rest))
  OBVIOUS
<1>3. /\ rest # <<>> /\ Head(Head(rest)).op \notin {"map", "toggle models"}
      /\ u # Violated /\ tables' = u
      /\ alone' = [q \in Operators |-> alone[q] /\ (q = o \/ tables' = tables)]
      /\ plan' = [plan EXCEPT ![o] = Tail(rest)]
      /\ backend' = backend /\ asked' = asked /\ swallowed' = swallowed
  BY <1>1, <1>2 DEF Runs, Pending, ReadsNext, Result, SavedInv
<1>4. Whole(tables) /\ ProperPlan(rest) /\ (alone[o] => o \notin swallowed /\ Owes(tables, rest, r))
  BY <1>1, <1>3 DEF SavedInv, InHand, Lost
<1>5. ProperBatch(Head(rest)) /\ ProperPlan(Tail(rest)) /\ \E S : rest \in Seq(S)
  BY <1>3, <1>4, ProperGoesOn
<1>6. ~Reads(Head(rest))
  BY <1>3 DEF Reads, Plain
<1>7. Whole(u)
  BY <1>2, <1>3, <1>4, <1>5, <1>6, PendingWhole
<1>8. Goes(tables, Head(rest), u)
  BY <1>2, <1>3, <1>6 DEF Goes, Does
<1>9. PICK p : p = Tail(rest)
  OBVIOUS
<1>10. ASSUME alone[o] PROVE o \notin swallowed /\ Owes(u, p, r)
  <2>1. PICK S : rest \in Seq(S)
    BY <1>5
  <2>2. Leads(tables, rest, r, "all") /\ Basis(tables, rest, r) /\ rest # <<>> /\ o \notin swallowed
    BY <1>3, <1>4, <1>10 DEF Owes
  <2>3. Leads(u, p, r, "all")
    BY <1>8, <1>9, <2>1, <2>2, LeadsOn
  <2>4. Basis(u, p, r)
    BY <1>2, <1>3, <1>4, <1>6, <1>9, <2>2, BasisRuns
  <2> QED
    BY <2>2, <2>3, <2>4 DEF Owes
<1>11. asked' = [asked EXCEPT ![o] = r]
  BY <1>1, <1>3 DEF SavedInv
<1>12. /\ alone' \in [Operators -> BOOLEAN] /\ (alone'[o] => alone[o])
       /\ \A q \in Operators : q # o /\ alone'[q] => alone[q] /\ tables' = tables
  BY <1>3 DEF SavedInv
<1>13. /\ u = tables' /\ plan' = [plan EXCEPT ![o] = p] /\ backend' = backend
       /\ swallowed' = swallowed
  BY <1>3, <1>9
<1>14. alone'[o] => o \notin swallowed' /\ Owes(u, p, r)
  BY <1>10, <1>12, <1>13
<1> QED
  BY <1>5, <1>7, <1>9, <1>11, <1>12, <1>13, <1>14, OneInHand

\* What puts a model on the route comes when the model is there.
LEMMA MappingBehind ==
  ASSUME SavedInv, NEW o \in Operators, alone[o], Mapping(o), NEW rest, rest = plan[o], rest # <<>>,
         NEW r, r = asked[o]
  PROVE  Behind(tables, rest, r)
<1>1. Basis(tables, rest, r)
  BY DEF SavedInv, InHand, Lost, Owes
<1>2. CreatesModel(r) /\ \A i \in DOMAIN rest : Head(rest[i]).op # "map"
  BY DEF Mapping, CreatesModel
<1> QED
  BY <1>1, <1>2, BasisMapped

\* A handler that gives up has nothing left, and answers with the error, unless it
\* was about to put the model on the route.
LEMMA SavedGivesUp == ASSUME SavedInv, NEW o \in Operators, GivesUp(o) PROVE SavedInv'
<1>1. PICK rest, p, r, u : rest = plan[o] /\ p = <<>> /\ r = asked[o] /\ u = tables'
  OBVIOUS
<1>2. /\ rest # <<>>
      /\ plan' = [plan EXCEPT ![o] = p] /\ asked' = [asked EXCEPT ![o] = r]
      /\ backend' = backend /\ tables' = tables
  BY <1>1 DEF GivesUp, Pending, SavedInv
<1>3. Whole(u) /\ ProperPlan(p)
  BY <1>1, <1>2, PlainFew, PlainIsProper DEF SavedInv
<1>4. /\ alone' = [alone EXCEPT ![o] = alone[o] /\ Mapping(o)]
      /\ swallowed' = swallowed \cup {q \in {o} : Mapping(q)}
  BY DEF GivesUp
<1>5. /\ alone' \in [Operators -> BOOLEAN] /\ (alone'[o] => alone[o] /\ Mapping(o))
      /\ \A q \in Operators : q # o /\ alone'[q] => alone[q] /\ tables' = tables
  BY <1>2, <1>4 DEF SavedInv
<1>6. /\ swallowed' \in {swallowed, swallowed \ {o}, swallowed \cup {o}}
      /\ Mapping(o) => o \in swallowed'
  BY <1>4
<1>7. ASSUME alone[o], Mapping(o) PROVE Lost(u, p, r)
  <2>1. Behind(tables, rest, r)
    BY <1>1, <1>2, <1>7, MappingBehind
  <2> QED
    BY <1>1, <1>2, <2>1 DEF Lost, Behind
<1>8. alone'[o] => o \in swallowed' /\ Lost(u, p, r)
  BY <1>5, <1>6, <1>7
<1> QED
  BY <1>1, <1>2, <1>3, <1>5, <1>6, <1>8, OneInHand

\* So has one whose answer is lost, though the store has done it.
LEMMA SavedAnswerLost == ASSUME SavedInv, NEW o \in Operators, AnswerLost(o) PROVE SavedInv'
<1>1. PICK rest, p, r : rest = plan[o] /\ p = <<>> /\ r = asked[o]
  OBVIOUS
<1>2. PICK u : u = Applied(tables, Head(rest))
  OBVIOUS
<1>3. /\ rest # <<>> /\ Head(Head(rest)).op \notin {"map", "toggle models"}
      /\ u # Violated /\ tables' = u
      /\ alone' = [q \in Operators |-> alone[q] /\ (IF q = o THEN Mapping(o) ELSE tables' = tables)]
      /\ swallowed' = swallowed \cup {q \in {o} : Mapping(q)}
      /\ plan' = [plan EXCEPT ![o] = p]
      /\ backend' = backend /\ asked' = asked
  BY <1>1, <1>2 DEF AnswerLost, Pending, ReadsNext, Result, SavedInv
<1>4. Whole(tables) /\ ProperPlan(rest)
  BY <1>1 DEF SavedInv, InHand
<1>5. ProperBatch(Head(rest))
  BY <1>3, <1>4, ProperGoesOn
<1>6. ~Reads(Head(rest))
  BY <1>3 DEF Reads, Plain
<1>7. Whole(u)
  BY <1>2, <1>3, <1>4, <1>5, <1>6, PendingWhole
<1>8. ProperPlan(p)
  BY <1>1, PlainFew, PlainIsProper
<1>9. asked' = [asked EXCEPT ![o] = r]
  BY <1>1, <1>3 DEF SavedInv
<1>10. /\ alone' \in [Operators -> BOOLEAN] /\ (alone'[o] => alone[o] /\ Mapping(o))
       /\ \A q \in Operators : q # o /\ alone'[q] => alone[q] /\ tables' = tables
  BY <1>3 DEF SavedInv
<1>11. u = tables' /\ plan' = [plan EXCEPT ![o] = p] /\ backend' = backend
  BY <1>3
<1>12. /\ swallowed' \in {swallowed, swallowed \ {o}, swallowed \cup {o}}
       /\ Mapping(o) => o \in swallowed'
  BY <1>3
<1>13. ASSUME alone[o], Mapping(o) PROVE Lost(u, p, r)
  <2>1. Behind(tables, rest, r)
    BY <1>1, <1>3, <1>13, MappingBehind
  <2>2. Behind(u, Tail(rest), r)
    BY <1>2, <1>3, <1>4, <2>1, MappingLeaves
  <2> QED
    BY <1>1, <2>2 DEF Lost, Behind
<1>14. alone'[o] => o \in swallowed' /\ Lost(u, p, r)
  BY <1>10, <1>12, <1>13
<1> QED
  BY <1>7, <1>8, <1>9, <1>10, <1>11, <1>12, <1>14, OneInHand

\* Nothing else changes what is in hand.
LEMMA SavedStep == SavedInv /\ [DefinitionsNext]_definitionVars => SavedInv'
<1> SUFFICES ASSUME SavedInv, [DefinitionsNext]_definitionVars PROVE SavedInv'
  OBVIOUS
<1>1. CASE UNCHANGED definitionVars
  <2>1. /\ backend' = backend /\ tables' = tables /\ plan' = plan /\ asked' = asked /\ alone' = alone
        /\ swallowed' = swallowed
    BY <1>1 DEF definitionVars
  <2>2. ASSUME NEW q \in Operators PROVE InHand(q)'
    <3>1. InHand(q) /\ plan'[q] = plan[q] /\ asked'[q] = asked[q]
      BY <2>1 DEF SavedInv
    <3>2. (q \in swallowed' <=> q \in swallowed) /\ (alone'[q] => alone[q] /\ tables' = tables)
      BY <2>1
    <3> QED
      BY <2>1, <3>1, <3>2, StillInHand
  <2> QED
    BY <2>1, <2>2 DEF SavedInv
<1>2. CASE DefinitionsNext
  BY <1>2, SavedRequest, SavedRead, SavedMisread, SavedRuns, SavedGivesUp, SavedAnswerLost
     DEF DefinitionsNext
<1> QED
  BY <1>1, <1>2

\* However operators and failures interleave, the tables stay what operators can
\* define; what is left of a handler nobody came in between of leads, from the tables
\* as they are, to what its request asked and what follows from it; and one that has
\* swallowed an error (autoMapRAPItoLAPI, /api/platforms/toggle) had done before what
\* was asked.
THEOREM HandlersInHand == DefinitionsSpec => []SavedInv
<1> QED
  BY SavedInvInit, SavedStep, PTL DEF DefinitionsSpec

\* The tables are of their type: keys and models at platforms there may be, in
\* places there are.
THEOREM DefinitionsTypeCorrect == DefinitionsSpec => []DefinitionsTypeOK
<1>1. SavedInv => DefinitionsTypeOK
  BY DEF SavedInv, DefinitionsTypeOK, Whole
<1> QED
  BY <1>1, HandlersInHand, PTL

\* An operation that answers with success, and that nobody came in between of, has
\* left what was asked, in either store: the handlers of service.go over the methods
\* of store.go, whatever the operations before it left half done, and whatever error
\* the handler itself has swallowed; if it has swallowed none, what follows from the
\* request is done too.
THEOREM OperationsSaved == DefinitionsSpec => []SavedAsAsked
<1>1. SavedInv => SavedAsAsked
  <2> SUFFICES ASSUME SavedInv, NEW o \in Operators, alone[o], plan[o] = <<>>
               PROVE  Granted(tables, asked[o]) /\ (o \notin swallowed => Followed(tables, asked[o]))
    BY DEF SavedAsAsked
  <2>1. PICK p, r : p = plan[o] /\ r = asked[o]
    OBVIOUS
  <2>2. CASE o \in swallowed
    <3>1. Lost(tables, p, r)
      BY <2>1, <2>2 DEF SavedInv, InHand
    <3> QED
      BY <2>1, <2>2, <3>1 DEF Lost, Goal
  <2>3. CASE o \notin swallowed
    <3>1. Leads(tables, p, r, "all")
      BY <2>1, <2>3 DEF SavedInv, InHand, Owes
    <3> DEFINE f == [i \in {0} |-> tables]
    <3>2. Len(p) = 0 /\ f[0] = tables
      BY <2>1
    <3>3. Outcome(f, tables, p)
      BY <3>2 DEF Outcome
    <3> HIDE DEF f
    <3>4. Goal(f[Len(p)], r, "all")
      BY <3>1, <3>3 DEF Leads
    <3> QED
      BY <2>1, <3>2, <3>4 DEF Goal
  <2> QED
    BY <2>2, <2>3
<1> QED
  BY <1>1, HandlersInHand, PTL
=============================================================================
