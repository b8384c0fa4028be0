-------------------------- MODULE SeedCommandProofs --------------------------
(***************************************************************************)
(* Seeds, prunings, syncs and edits over any YAML that passes the gate and  *)
(* any parent edges, cycles included: references stay closed, groups and    *)
(* families keep to one developer, and names follow the YAML.               *)
(***************************************************************************)
EXTENDS SeedCommand, FiniteSetTheorems, NaturalsInduction, WellFoundedInduction, TLAPS

(* The columns of the tables, and that a seedless row names no model.       *)
Typed ==
  /\ WellFormed(yaml)
  /\ models \in [DOMAIN models -> Rows] /\ DOMAIN models \subseteq Models
  /\ draftOrgs \subseteq orgs /\ orgs \subseteq Orgs
  /\ aliases \in [Keys -> [target : Models \cup {NoModel}, seeded : BOOLEAN]]
  /\ \A k \in Keys : aliases[k].target = NoModel => aliases[k] = NoAlias
  /\ cited \subseteq Models
  /\ last \in {"seed", "prune", "other"} /\ edits \in 0 .. MaxEdits /\ syncs \in 0 .. MaxSyncs

(* After a seed that prunes nothing the tables are what it would make of    *)
(* them again.                                                              *)
Seeded ==
  last = "seed" =>
    /\ models = Derived(Upserted) /\ aliases = ClaimedAliases(Claims)
    /\ yaml.orgs \cup PrefixOrgsUsed(Upserted) \subseteq orgs /\ draftOrgs \cap yaml.orgs = {}

(* The inductive invariant.                                                 *)
IInv == Typed /\ ReferencesClosed /\ Curated /\ OneDeveloper /\ NamesFollowCuration /\ Seeded
-----------------------------------------------------------------------------
(* The walk along next that starts anywhere with anything visited.          *)
Walks(next, f) ==
  f = [visited \in SUBSET DOMAIN next |->
         [at \in DOMAIN next |->
            IF next[at] \in visited \cup {NoModel} THEN at
            ELSE f[visited \cup {next[at]}][next[at]]]]

Follows(next, f) ==
  \A visited \in SUBSET DOMAIN next : \A at \in DOMAIN next :
    f[visited][at] = IF next[at] \in visited \cup {NoModel} THEN at
                     ELSE f[visited \cup {next[at]}][next[at]]

WalksTo(next, f) ==
  Walks(next, f) /\ \A m \in DOMAIN next : DeepestOf(next, m) = f[{m}][m]

(* f is the walk along next, at least once all but n models are visited.    *)
Steps(next, f, n) ==
  /\ f \in [SUBSET DOMAIN next -> [DOMAIN next -> DOMAIN next]]
  /\ \A visited \in SUBSET DOMAIN next, at \in DOMAIN next :
       Cardinality(DOMAIN next \ visited) <= n =>
         f[visited][at] = IF next[at] \in visited \cup {NoModel} THEN at
                          ELSE f[visited \cup {next[at]}][next[at]]

\* An element visited is one less to visit.
LEMMA OneLess ==
  ASSUME NEW D, IsFiniteSet(D), NEW V \in SUBSET D, NEW x \in D \ V
  PROVE  /\ Cardinality(D \ V) \in Nat /\ Cardinality(D \ (V \cup {x})) \in Nat
         /\ Cardinality(D \ V) = Cardinality(D \ (V \cup {x})) + 1
<1>1. IsFiniteSet(D \ V) /\ x \in D \ V
  BY FS_Subset
<1>2. (D \ V) \ {x} = D \ (V \cup {x})
  OBVIOUS
<1>3. IsFiniteSet((D \ V) \ {x}) /\ Cardinality((D \ V) \ {x}) = Cardinality(D \ V) - 1
  BY <1>1, FS_RemoveElement
<1>4. Cardinality(D \ V) \in Nat /\ Cardinality((D \ V) \ {x}) \in Nat
  BY <1>1, <1>3, FS_CardinalityType
<1> QED BY <1>2, <1>3, <1>4

\* A set of numbers has a least one.
LEMMA LeastExists ==
  ASSUME NEW S, S \subseteq Nat, S # {}
  PROVE  \E n \in S : \A k \in S : n <= k
<1>1. PICK n \in S : \A k \in S : <<k, n>> \notin OpToRel(<, Nat)
  BY NatLessThanWellFounded, WFMin
<1>2. \A k \in S : ~(k < n)
  BY <1>1 DEF OpToRel
<1> QED BY <1>2

\* A function that computes the walk exists, by the number of models not yet
\* visited: a least number without one would have a walk one step shorter.
LEMMA StepsExist ==
  ASSUME NEW D, IsFiniteSet(D), NEW next \in [D -> D \cup {NoModel}]
  PROVE  \E f : Steps(next, f, Cardinality(D))
<1> DEFINE Fails == {n \in Nat : ~ \E f : Steps(next, f, n)}
<1>1. SUFFICES ASSUME Fails # {} PROVE FALSE
  BY FS_CardinalityType
<1>2. PICK n \in Fails : \A k \in Fails : n <= k
  BY <1>1, LeastExists
<1>3. CASE n = 0
  <2> DEFINE f == [V \in SUBSET D |-> [a \in D |-> a]]
  <2>1. ASSUME NEW V \in SUBSET D, NEW a \in D, Cardinality(D \ V) <= 0
        PROVE  next[a] \in V \cup {NoModel}
    <3>1. CASE next[a] \in D \ V
      <4>1. Cardinality(D \ V) \in Nat /\ IsFiniteSet(D \ V)
        BY FS_Subset, FS_CardinalityType
      <4>2. D \ V = {}
        BY <2>1, <4>1, FS_EmptySet
      <4> QED BY <3>1, <4>2
    <3> QED BY <3>1
  <2>2. Steps(next, f, 0)
    BY <2>1 DEF Steps
  <2> QED BY <1>3, <2>2
<1>4. CASE n # 0
  <2>1. n - 1 \in Nat /\ n - 1 \notin Fails
    BY <1>2, <1>4
  <2>2. PICK f : Steps(next, f, n - 1)
    BY <2>1
  <2> DEFINE g == [V \in SUBSET D |->
                    IF Cardinality(D \ V) <= n - 1 THEN f[V]
                    ELSE [a \in D |-> IF next[a] \in V \cup {NoModel} THEN a
                                      ELSE f[V \cup {next[a]}][next[a]]]]
  <2>3. f \in [SUBSET D -> [D -> D]]
    BY <2>2 DEF Steps
  <2>4. ASSUME NEW V \in SUBSET D, NEW a \in D, next[a] \notin V \cup {NoModel}
        PROVE  next[a] \in D \ V /\ V \cup {next[a]} \in SUBSET D
    BY <2>4
  <2>5. g \in [SUBSET D -> [D -> D]]
    <3>1. ASSUME NEW V \in SUBSET D
          PROVE  [a \in D |-> IF next[a] \in V \cup {NoModel} THEN a
                              ELSE f[V \cup {next[a]}][next[a]]] \in [D -> D]
      BY <2>3, <2>4
    <3> QED BY <2>3, <3>1
  <2>6. ASSUME NEW V \in SUBSET D, NEW a \in D, Cardinality(D \ V) <= n
        PROVE  g[V][a] = IF next[a] \in V \cup {NoModel} THEN a
                         ELSE g[V \cup {next[a]}][next[a]]
    <3>1. CASE next[a] \in V \cup {NoModel}
      BY <2>2, <3>1 DEF Steps
    <3>2. CASE next[a] \notin V \cup {NoModel}
      <4>1. PICK b \in D \ V : b = next[a]
        BY <2>4, <3>2
      <4>2. Cardinality(D \ (V \cup {b})) <= n - 1 /\ Cardinality(D \ (V \cup {b})) \in Nat
        BY <1>2, <2>6, <4>1, OneLess
      <4>3. g[V \cup {b}] = f[V \cup {b}]
        BY <4>1, <4>2
      <4>4. g[V][a] = f[V \cup {b}][b]
        BY <2>2, <3>2, <4>1, <4>2 DEF Steps
      <4> HIDE DEF g
      <4> QED BY <3>2, <4>1, <4>3, <4>4
    <3> QED BY <3>1, <3>2
  <2> HIDE DEF g
  <2>7. Steps(next, g, n)
    BY <2>5, <2>6 DEF Steps
  <2> QED BY <1>2, <2>7
<1> QED BY <1>3, <1>4

\* The walk's function satisfies its equation at every point.
LEMMA WalkStep ==
  ASSUME NEW D, NEW next \in [D -> D \cup {NoModel}], NEW f, Walks(next, f)
  PROVE  Follows(next, f)
<1> DEFINE Row(W) == [at \in D |-> IF next[at] \in W \cup {NoModel} THEN at
                                   ELSE f[W \cup {next[at]}][next[at]]]
<1>1. f = [W \in SUBSET D |-> Row(W)]
  <2>1. DOMAIN next = D
    OBVIOUS
  <2> QED BY <2>1 DEF Walks
<1>2. \A U \in SUBSET D : \A a \in D :
        Row(U)[a] = IF next[a] \in U \cup {NoModel} THEN a ELSE f[U \cup {next[a]}][next[a]]
  OBVIOUS
<1> HIDE DEF Row
<1>3. \A U \in SUBSET D : f[U] = Row(U)
  BY <1>1
<1>4. DOMAIN next = D
  OBVIOUS
<1> QED BY <1>2, <1>3, <1>4 DEF Follows

(* A set the walk's next model does not leave holds its last one.           *)
LEMMA WalkStays ==
  ASSUME NEW D, IsFiniteSet(D), NEW next \in [D -> D \cup {NoModel}],
         NEW S \in SUBSET D, \A x \in S : next[x] \in S \cup {NoModel},
         NEW f, Walks(next, f), NEW V \in SUBSET D, NEW m \in S
  PROVE  f[V][m] \in S
<1> DEFINE Left(U) == Cardinality(D \ U)
           Bad == {k \in Nat : \E U \in SUBSET D : \E a \in S : Left(U) = k /\ f[U][a] \notin S}
<1>1. \A U \in SUBSET D : Left(U) \in Nat
  BY FS_Subset, FS_CardinalityType
<1>2. ASSUME NEW U \in SUBSET D, NEW a \in S, f[U][a] \notin S
      PROVE  \E b \in D \ U : b \in S /\ f[U \cup {b}][b] \notin S
  <2>1. f[U][a] = IF next[a] \in U \cup {NoModel} THEN a ELSE f[U \cup {next[a]}][next[a]]
    <3>1. \A W \in SUBSET D : \A z \in D :
            f[W][z] = IF next[z] \in W \cup {NoModel} THEN z ELSE f[W \cup {next[z]}][next[z]]
      <4>1. Follows(next, f) /\ DOMAIN next = D
        BY WalkStep
      <4> QED BY <4>1 DEF Follows
    <3>2. U \in SUBSET D /\ a \in D
      OBVIOUS
    <3> QED BY <3>1, <3>2
  <2> QED BY <1>2, <2>1
<1>3. SUFFICES ASSUME Bad # {} PROVE FALSE
  BY <1>1
<1>4. PICK n \in Bad : \A k \in Bad : n <= k
  BY <1>3, LeastExists
<1>5. PICK U \in SUBSET D, a \in S : Left(U) = n /\ f[U][a] \notin S
  BY <1>4
<1>6. PICK b \in D \ U : b \in S /\ f[U \cup {b}][b] \notin S
  BY <1>2, <1>5
<1>7. U \cup {b} \in SUBSET D /\ Left(U \cup {b}) \in Nat /\ n = Left(U \cup {b}) + 1
  BY <1>5, OneLess
<1>8. Left(U \cup {b}) \in Bad
  BY <1>6, <1>7
<1>9. n <= Left(U \cup {b})
  BY <1>4, <1>8
<1> HIDE DEF Left, Bad
<1> QED BY <1>7, <1>9

\* DeepestOf is computed by such a function.
LEMMA DeepestWalks ==
  ASSUME NEW D, IsFiniteSet(D), NEW next \in [D -> D \cup {NoModel}]
  PROVE  \E f : WalksTo(next, f)
<1>1. \A m \in D : DeepestOf(next, m) = (CHOOSE f : Walks(next, f))[{m}][m]
  BY Zenon DEF DeepestOf, Walks
<1>2. PICK f : Steps(next, f, Cardinality(D))
  BY StepsExist
<1>3. Walks(next, f)
  <2>1. \A V \in SUBSET D : Cardinality(D \ V) <= Cardinality(D)
    BY FS_Subset, FS_CardinalityType
  <2>2. f = [V \in SUBSET D |-> f[V]]
    BY <1>2 DEF Steps
  <2>3. \A V \in SUBSET D : f[V] = [a \in D |-> f[V][a]]
    BY <1>2 DEF Steps
  <2>4. \A V \in SUBSET D : \A a \in D :
          f[V][a] = IF next[a] \in V \cup {NoModel} THEN a ELSE f[V \cup {next[a]}][next[a]]
    BY <1>2, <2>1 DEF Steps
  <2>5. \A V \in SUBSET D :
          f[V] = [a \in D |-> IF next[a] \in V \cup {NoModel} THEN a
                              ELSE f[V \cup {next[a]}][next[a]]]
    <3> SUFFICES ASSUME NEW V \in SUBSET D
                 PROVE  f[V] = [a \in D |-> IF next[a] \in V \cup {NoModel} THEN a
                                            ELSE f[V \cup {next[a]}][next[a]]]
      OBVIOUS
    <3> QED BY <2>3, <2>4
  <2> QED BY <2>2, <2>5 DEF Walks
<1>4. Walks(next, CHOOSE h : Walks(next, h))
  BY <1>3
<1> QED BY <1>1, <1>4 DEF WalksTo

\* A walk that cannot leave a set of models ends in it.
LEMMA DeepestStays ==
  ASSUME NEW D, IsFiniteSet(D), NEW next \in [D -> D \cup {NoModel}],
         NEW S \in SUBSET D, \A x \in S : next[x] \in S \cup {NoModel}, NEW m \in S
  PROVE  DeepestOf(next, m) \in S
<1>1. PICK f : Walks(next, f) /\ \A x \in D : DeepestOf(next, x) = f[{x}][x]
  <2>1. PICK f : WalksTo(next, f)
    BY DeepestWalks
  <2> QED BY <2>1 DEF WalksTo
<1>2. {m} \in SUBSET D /\ m \in D /\ f[{m}][m] \in S
  BY <1>1, WalkStays
<1> QED BY <1>1, <1>2

(* A walk ends where nothing follows, or has run into a cycle: a set that   *)
(* next maps into itself.                                                   *)
LEMMA WalkEnds ==
  ASSUME NEW D, IsFiniteSet(D), NEW next \in [D -> D \cup {NoModel}],
         NEW f, Walks(next, f), NEW V \in SUBSET D, NEW m \in V, \A x \in V \ {m} : next[x] \in V
  PROVE  \/ next[f[V][m]] = NoModel
         \/ \E W \in SUBSET D : V \subseteq W /\ f[V][m] \in W /\ \A x \in W : next[x] \in W
<1> DEFINE Left(U) == Cardinality(D \ U)
           Ends(U, a) == \/ next[f[U][a]] = NoModel
                         \/ \E W \in SUBSET D : U \subseteq W /\ f[U][a] \in W /\ \A x \in W : next[x] \in W
           Bad == {k \in Nat : \E U \in SUBSET D : \E a \in U :
                     Left(U) = k /\ (\A x \in U \ {a} : next[x] \in U) /\ ~Ends(U, a)}
<1>1. \A U \in SUBSET D : Left(U) \in Nat
  BY FS_Subset, FS_CardinalityType
<1>2. ASSUME NEW U \in SUBSET D, NEW a \in U, \A x \in U \ {a} : next[x] \in U, ~Ends(U, a)
      PROVE  \E b \in D \ U : (\A x \in (U \cup {b}) \ {b} : next[x] \in U \cup {b}) /\ ~Ends(U \cup {b}, b)
  <2>1. f[U][a] = IF next[a] \in U \cup {NoModel} THEN a ELSE f[U \cup {next[a]}][next[a]]
    <3>1. \A W \in SUBSET D : \A z \in D :
            f[W][z] = IF next[z] \in W \cup {NoModel} THEN z ELSE f[W \cup {next[z]}][next[z]]
      <4>1. Follows(next, f) /\ DOMAIN next = D
        BY WalkStep
      <4> QED BY <4>1 DEF Follows
    <3>2. U \in SUBSET D /\ a \in D
      OBVIOUS
    <3> QED BY <3>1, <3>2
  <2>2. next[a] \notin U \cup {NoModel}
    <3>1. next[a] = NoModel => Ends(U, a)
      BY <2>1
    <3>2. next[a] \in U => (f[U][a] = a /\ \A x \in U : next[x] \in U)
      BY <1>2, <2>1
    <3>3. next[a] \in U => Ends(U, a)
      BY <3>2
    <3> QED BY <1>2, <3>1, <3>3
  <2>3. PICK b \in D \ U : b = next[a]
    BY <2>2
  <2>4. f[U][a] = f[U \cup {b}][b]
    BY <2>1, <2>2, <2>3
  <2>5. Ends(U \cup {b}, b) => Ends(U, a)
    BY <2>4
  <2>6. \A x \in (U \cup {b}) \ {b} : next[x] \in U \cup {b}
    BY <1>2, <2>3
  <2> QED BY <1>2, <2>5, <2>6
<1> SUFFICES ASSUME ~Ends(V, m) PROVE FALSE
  OBVIOUS
<1>3. Bad # {}
  <2> HIDE DEF Ends
  <2>1. Left(V) \in Nat
    BY <1>1
  <2>2. Left(V) \in Bad
    BY <2>1
  <2> QED BY <2>2
<1>4. PICK n \in Bad : \A k \in Bad : n <= k
  BY <1>3, LeastExists
<1>5. PICK U \in SUBSET D : \E a \in U :
        Left(U) = n /\ (\A x \in U \ {a} : next[x] \in U) /\ ~Ends(U, a)
  BY <1>4
<1> HIDE DEF Ends
<1>6. PICK a \in U, b \in D \ U :
        Left(U) = n /\ (\A x \in (U \cup {b}) \ {b} : next[x] \in U \cup {b}) /\ ~Ends(U \cup {b}, b)
  BY <1>2, <1>5
<1>7. U \cup {b} \in SUBSET D /\ Left(U \cup {b}) \in Nat /\ n = Left(U \cup {b}) + 1
  BY <1>6, OneLess
<1>8. Left(U \cup {b}) \in Bad
  BY <1>6, <1>7
<1>9. n <= Left(U \cup {b})
  BY <1>4, <1>8
<1> HIDE DEF Left, Bad
<1> QED BY <1>7, <1>9

\* A walk ends at a model without a next one, or ran into models that only lead
\* to each other.
LEMMA DeepestEnds ==
  ASSUME NEW D, IsFiniteSet(D), NEW next \in [D -> D \cup {NoModel}], NEW m \in D
  PROVE  /\ DeepestOf(next, m) \in D
         /\ \/ next[DeepestOf(next, m)] = NoModel
            \/ \E W \in SUBSET D : {m, DeepestOf(next, m)} \subseteq W /\ \A x \in W : next[x] \in W
<1>1. PICK f : Walks(next, f) /\ \A x \in D : DeepestOf(next, x) = f[{x}][x]
  <2>1. PICK f : WalksTo(next, f)
    BY DeepestWalks
  <2> QED BY <2>1 DEF WalksTo
<1>2. D \in SUBSET D /\ \A x \in D : next[x] \in D \cup {NoModel}
  OBVIOUS
<1>3. DeepestOf(next, m) \in D
  BY <1>2, DeepestStays
<1>4. {m} \in SUBSET D /\ m \in {m} /\ \A x \in {m} \ {m} : next[x] \in {m}
  OBVIOUS
<1>5. \/ next[f[{m}][m]] = NoModel
      \/ \E W \in SUBSET D : {m} \subseteq W /\ f[{m}][m] \in W /\ \A x \in W : next[x] \in W
  BY <1>1, <1>4, WalkEnds
<1> QED BY <1>1, <1>3, <1>5

(* A model and the one it goes on to end at the same place, unless both     *)
(* walks run into a cycle.                                                  *)
LEMMA StepEnd ==
  ASSUME NEW D, IsFiniteSet(D), NoModel \notin D, NEW next \in [D -> D \cup {NoModel}],
         NEW x \in D, NEW y \in D, y = next[x],
         NoModel \in {next[DeepestOf(next, x)], next[DeepestOf(next, y)]}
  PROVE  DeepestOf(next, y) = DeepestOf(next, x)
<1> DEFINE Closed(C) == \A u \in C : next[u] \in C \cup {NoModel}
           Reach(z, t) == \A C \in SUBSET D : z \in C /\ Closed(C) => t \in C
<1>1. PICK e \in D, d \in D : e = DeepestOf(next, x) /\ d = DeepestOf(next, y)
  BY DeepestEnds
<1>2. Reach(x, e) /\ Reach(y, d)
  BY <1>1, DeepestStays
<1>3. ASSUME NEW z \in D, NEW t \in D, Reach(z, t), t # z
      PROVE  next[z] \in D /\ Reach(next[z], t)
  <2>1. next[z] # NoModel
    <3>1. {z} \in SUBSET D /\ (next[z] = NoModel => Closed({z}))
      OBVIOUS
    <3> QED BY <1>3, <3>1
  <2>2. ASSUME NEW C \in SUBSET D, next[z] \in C, Closed(C) PROVE t \in C
    <3>1. C \cup {z} \in SUBSET D /\ Closed(C \cup {z})
      BY <2>2
    <3> QED BY <1>3, <3>1
  <2> QED BY <2>1, <2>2
<1>4. Reach(x, d)
  BY <1>2
<1>5. next[e] = NoModel /\ next[d] = NoModel
  <2>1. CASE next[e] = NoModel
    <3>1. e # x /\ Reach(y, e)
      BY <1>1, <1>2, <1>3, <2>1
    <3>2. \A W \in SUBSET D : y \in W /\ (\A u \in W : next[u] \in W) => e \in W
      BY <3>1
    <3> QED BY <1>1, <2>1, <3>2, DeepestEnds
  <2>2. CASE next[d] = NoModel
    <3>1. \A W \in SUBSET D : x \in W /\ (\A u \in W : next[u] \in W) => d \in W
      BY <1>4
    <3> QED BY <1>1, <2>2, <3>1, DeepestEnds
  <2> QED BY <1>1, <2>1, <2>2
<1>6. SUFFICES ASSUME e # d PROVE FALSE
  BY <1>1
<1> DEFINE Q == {z \in D : Reach(z, e) /\ Reach(z, d)}
<1>7. Reach(x, e) /\ Reach(x, d) /\ x \in Q
  BY <1>2, <1>4
<1>8. ASSUME NEW z \in Q PROVE next[z] \in Q
  <2>1. Reach(z, e) /\ Reach(z, d) /\ z \in D
    BY <1>8
  <2>2. {z} \in SUBSET D /\ (next[z] = NoModel => Closed({z}))
    OBVIOUS
  <2>3. next[z] = NoModel => e = z /\ d = z
    BY <2>1, <2>2
  <2>4. z # e /\ z # d
    BY <1>5, <1>6, <2>3
  <2> HIDE DEF Reach
  <2> QED BY <1>3, <2>1, <2>4
<1> HIDE DEF Q, Reach
<1>9. Q \in SUBSET D /\ \A z \in Q : next[z] \in Q \cup {NoModel}
  BY <1>8 DEF Q
<1>10. e \in Q
  BY <1>1, <1>7, <1>9, DeepestStays
<1> QED BY <1>5, <1>8, <1>9, <1>10

(* Where every walk along next ends, so does one along a part of it.        *)
LEMMA PartEnds ==
  ASSUME NEW D, IsFiniteSet(D), NoModel \notin D,
         NEW next \in [D -> D \cup {NoModel}], \A x \in D : next[DeepestOf(next, x)] = NoModel,
         NEW part \in [D -> D \cup {NoModel}], \A x \in D : part[x] \in {next[x], NoModel},
         NEW m \in D
  PROVE  part[DeepestOf(part, m)] = NoModel
<1>1. SUFFICES ASSUME NEW W \in SUBSET D, m \in W, \A x \in W : part[x] \in W PROVE FALSE
  BY DeepestEnds
<1>2. \A x \in W : next[x] \in W /\ next[x] # NoModel
  BY <1>1
<1>3. DeepestOf(next, m) \in W
  BY <1>1, <1>2, DeepestStays
<1> QED BY <1>2, <1>3

(* And the walk from the end of a part ends where the whole one does.       *)
LEMMA PartNests ==
  ASSUME NEW D, IsFiniteSet(D), NoModel \notin D,
         NEW next \in [D -> D \cup {NoModel}], \A x \in D : next[DeepestOf(next, x)] = NoModel,
         NEW part \in [D -> D \cup {NoModel}], \A x \in D : part[x] \in {next[x], NoModel},
         NEW m \in D
  PROVE  DeepestOf(next, DeepestOf(part, m)) = DeepestOf(next, m)
<1> DEFINE S == {x \in D : DeepestOf(next, x) = DeepestOf(next, m)}
<1>1. S \in SUBSET D /\ m \in S
  OBVIOUS
<1>2. ASSUME NEW x \in S, part[x] # NoModel PROVE part[x] \in S
  <2>1. PICK y \in D : y = part[x] /\ y = next[x]
    BY <1>2
  <2>2. DeepestOf(next, y) = DeepestOf(next, x)
    BY <2>1, StepEnd
  <2> QED BY <2>1, <2>2
<1>3. \A x \in S : part[x] \in S \cup {NoModel}
  BY <1>2
<1> HIDE DEF S
<1>4. DeepestOf(part, m) \in S
  BY <1>1, <1>3, DeepestStays
<1> QED BY <1>4 DEF S

\* A model without a next one is its own end.
LEMMA DeepestHere ==
  ASSUME NEW D, IsFiniteSet(D), NEW next \in [D -> D \cup {NoModel}], NEW m \in D, next[m] = NoModel
  PROVE  DeepestOf(next, m) = m
<1>1. {m} \in SUBSET D /\ \A x \in {m} : next[x] \in {m} \cup {NoModel}
  OBVIOUS
<1>2. DeepestOf(next, m) \in {m}
  BY <1>1, DeepestStays
<1> QED BY <1>2
-----------------------------------------------------------------------------
(* The derivation.                                                          *)

\* The least of some numbers is one of them.
LEMMA MinHolds ==
  ASSUME NEW S, S \subseteq Nat, S # {}
  PROVE  Min(S) \in S
BY LeastExists DEF Min

\* The next model is one of the rows', among the allowed.
LEMMA NextFacts ==
  ASSUME NEW D \in SUBSET Models, NEW rows \in [D -> Rows], NEW kinds, NEW allowed
  PROVE  /\ NextOf(rows, kinds, allowed) \in [D -> D \cup {NoModel}]
         /\ \A m \in D : NextOf(rows, kinds, allowed)[m] \in allowed[m] \cup {NoModel}
<1> DEFINE Ids(m) == {e.id : e \in {x \in EdgesOf(rows, m) : x.kind \in kinds /\ x.id \in allowed[m]}}
           next == NextOf(rows, kinds, allowed)
<1>1. next = [m \in D |-> IF Ids(m) = {} \/ Min(Ids(m)) \notin D THEN NoModel ELSE Min(Ids(m))]
  BY DEF NextOf
<1>2. ASSUME NEW m \in D PROVE Ids(m) \subseteq Nat /\ Ids(m) \subseteq allowed[m]
  <2>1. rows[m].parents \subseteq [id : Models, kind : Kinds]
    BY DEF Rows
  <2>2. \A e \in EdgesOf(rows, m) : e.id \in Models
    BY <2>1 DEF EdgesOf
  <2> QED BY <2>2, ModelsAssumption
<1>3. ASSUME NEW m \in D PROVE next[m] \in D \cup {NoModel} /\ next[m] \in allowed[m] \cup {NoModel}
  <2>1. Ids(m) # {} => Min(Ids(m)) \in Ids(m)
    BY <1>2, MinHolds
  <2> HIDE DEF Ids, next
  <2> QED BY <1>1, <1>2, <2>1
<1> HIDE DEF Ids
<1> QED BY <1>1, <1>3

(* The walks of the derivation.                                             *)
SameOrg(rows) == [m \in DOMAIN rows |-> {p \in Models : SameDeveloper(DeveloperOf(rows), m, p)}]
AnyOrg(rows) == [m \in DOMAIN rows |-> Models]
GroupNext(rows) == NextOf(rows, GroupKinds, SameOrg(rows))
FamilyNext(rows) == NextOf(rows, FamilyKinds, SameOrg(rows))
LineageNext(rows) == NextOf(rows, LineageKinds, AnyOrg(rows))
OpenNext(rows) == NextOf(rows, OpennessKinds, AnyOrg(rows))
UnsetNext(rows) == [x \in DOMAIN OpenNext(rows) |->
                      IF rows[x].open = "unset" THEN OpenNext(rows)[x] ELSE NoModel]
Ancestor(rows, m) == DeepestOf(LineageNext(rows), m)

\* The types of the walks of the derivation; those to groups and families stay
\* with one developer.
LEMMA WalkTypes ==
  ASSUME NEW D \in SUBSET Models, NEW rows \in [D -> Rows]
  PROVE  /\ IsFiniteSet(D) /\ NoModel \notin D /\ DOMAIN rows = D
         /\ DeveloperOf(rows) \in [D -> Orgs \cup {NoOrg}]
         /\ GroupNext(rows) \in [D -> D \cup {NoModel}] /\ FamilyNext(rows) \in [D -> D \cup {NoModel}]
         /\ LineageNext(rows) \in [D -> D \cup {NoModel}] /\ OpenNext(rows) \in [D -> D \cup {NoModel}]
         /\ UnsetNext(rows) \in [D -> D \cup {NoModel}]
         /\ \A m \in D : {GroupNext(rows)[m], FamilyNext(rows)[m]} \subseteq SameOrg(rows)[m] \cup {NoModel}
<1>1. IsFiniteSet(D) /\ DOMAIN rows = D /\ NoModel \notin D
  BY ModelsAssumption, FS_Subset DEF NoModel
<1>2. DeveloperOf(rows) \in [D -> Orgs \cup {NoOrg}]
  BY ModelsAssumption DEF DeveloperOf, Rows
<1>3. /\ GroupNext(rows) \in [D -> D \cup {NoModel}] /\ FamilyNext(rows) \in [D -> D \cup {NoModel}]
      /\ LineageNext(rows) \in [D -> D \cup {NoModel}] /\ OpenNext(rows) \in [D -> D \cup {NoModel}]
  BY NextFacts DEF GroupNext, FamilyNext, LineageNext, OpenNext
<1>4. UnsetNext(rows) \in [D -> D \cup {NoModel}]
  BY <1>3 DEF UnsetNext
<1>5. \A m \in D : GroupNext(rows)[m] \in SameOrg(rows)[m] \cup {NoModel}
  BY NextFacts DEF GroupNext
<1>6. \A m \in D : FamilyNext(rows)[m] \in SameOrg(rows)[m] \cup {NoModel}
  BY NextFacts DEF FamilyNext
<1> QED BY <1>1, <1>2, <1>3, <1>4, <1>5, <1>6

\* What each column of a derived row is.
LEMMA DerivedColumns ==
  ASSUME NEW D \in SUBSET Models, NEW rows \in [D -> Rows]
  PROVE  /\ Derived(rows) \in [D -> Rows]
         /\ \A m \in D :
              /\ Derived(rows)[m].parents = rows[m].parents
              /\ Derived(rows)[m].reviewed = rows[m].reviewed
              /\ Derived(rows)[m].org = DeveloperOf(rows)[m]
              /\ Derived(rows)[m].group = DeepestOf(GroupNext(rows), m)
              /\ Derived(rows)[m].family = DeepestOf(FamilyNext(rows), m)
              /\ Derived(rows)[m].origin = IF Ancestor(rows, m) = m THEN NoModel ELSE Ancestor(rows, m)
              /\ Derived(rows)[m].originOrg = IF DeveloperOf(rows)[Ancestor(rows, m)] # NoOrg
                                              THEN DeveloperOf(rows)[Ancestor(rows, m)]
                                              ELSE DeveloperOf(rows)[m]
              /\ Derived(rows)[m].open = IF rows[m].open # "unset" THEN rows[m].open
                                         ELSE rows[DeepestOf(UnsetNext(rows), m)].open
<1>1. /\ IsFiniteSet(D) /\ DOMAIN rows = D
      /\ DeveloperOf(rows) \in [D -> Orgs \cup {NoOrg}]
      /\ GroupNext(rows) \in [D -> D \cup {NoModel}] /\ FamilyNext(rows) \in [D -> D \cup {NoModel}]
      /\ LineageNext(rows) \in [D -> D \cup {NoModel}] /\ UnsetNext(rows) \in [D -> D \cup {NoModel}]
  BY WalkTypes
<1>2. SUFFICES ASSUME NEW m \in D
      PROVE  /\ Derived(rows)[m] \in Rows
             /\ Derived(rows)[m].parents = rows[m].parents
             /\ Derived(rows)[m].reviewed = rows[m].reviewed
             /\ Derived(rows)[m].org = DeveloperOf(rows)[m]
             /\ Derived(rows)[m].group = DeepestOf(GroupNext(rows), m)
             /\ Derived(rows)[m].family = DeepestOf(FamilyNext(rows), m)
             /\ Derived(rows)[m].origin = IF Ancestor(rows, m) = m THEN NoModel ELSE Ancestor(rows, m)
             /\ Derived(rows)[m].originOrg = IF DeveloperOf(rows)[Ancestor(rows, m)] # NoOrg
                                             THEN DeveloperOf(rows)[Ancestor(rows, m)]
                                             ELSE DeveloperOf(rows)[m]
             /\ Derived(rows)[m].open = IF rows[m].open # "unset" THEN rows[m].open
                                        ELSE rows[DeepestOf(UnsetNext(rows), m)].open
  <2>1. Derived(rows) = [m \in D |-> Derived(rows)[m]]
    BY <1>1 DEF Derived, Columns
  <2> QED BY <1>2, <2>1
<1>3. PICK g \in D, f \in D, a \in D, o \in D :
        /\ g = DeepestOf(GroupNext(rows), m) /\ f = DeepestOf(FamilyNext(rows), m)
        /\ a = Ancestor(rows, m) /\ o = DeepestOf(UnsetNext(rows), m)
  BY <1>1, DeepestEnds DEF Ancestor
<1>4. PICK r \in Rows : r = rows[m]
  OBVIOUS
<1>5. PICK v : v = IF r.open # "unset" THEN r.open ELSE rows[o].open
  OBVIOUS
<1>6. PICK origin : origin = IF a = m THEN NoModel ELSE a
  OBVIOUS
<1>7. PICK org \in Orgs \cup {NoOrg} : org = DeveloperOf(rows)[m]
  BY <1>1
<1>8. PICK from \in Orgs \cup {NoOrg} :
        from = IF DeveloperOf(rows)[a] # NoOrg THEN DeveloperOf(rows)[a] ELSE DeveloperOf(rows)[m]
  BY <1>1
<1>9. Derived(rows)[m] =
        [r EXCEPT !.org = org, !.group = g, !.family = f, !.origin = origin,
                  !.originOrg = from, !.open = v]
  BY <1>1, <1>3, <1>4, <1>5, <1>6, <1>7, <1>8
     DEF Derived, Columns, InheritedOpenness, GroupNext, FamilyNext, LineageNext, OpenNext,
         UnsetNext, SameOrg, AnyOrg, Ancestor
<1>10. v \in Openness /\ origin \in Models \cup {NoModel}
  BY <1>5, <1>6 DEF Rows
<1>11. PICK row : row = Derived(rows)[m]
  OBVIOUS
<1>12. /\ row \in Rows /\ row.org = org /\ row.reviewed = r.reviewed /\ row.parents = r.parents
       /\ row.group = g /\ row.family = f /\ row.origin = origin /\ row.originOrg = from /\ row.open = v
  BY <1>9, <1>10, <1>11 DEF Rows
<1> QED BY <1>3, <1>4, <1>5, <1>6, <1>7, <1>8, <1>11, <1>12

(* A group or family lies in one developer, an origin is a row, and only    *)
(* an ancestor's or the prefix's organisation is used.                      *)
LEMMA DerivedFacts ==
  ASSUME NEW D \in SUBSET Models, NEW rows \in [D -> Rows]
  PROVE  LET org == DeveloperOf(rows) IN
         /\ Derived(rows) \in [D -> Rows]
         /\ \A m \in D :
              /\ Derived(rows)[m].org = org[m] /\ Derived(rows)[m].reviewed = rows[m].reviewed
              /\ Derived(rows)[m].group \in D /\ org[Derived(rows)[m].group] = org[m]
              /\ Derived(rows)[m].family \in D /\ org[Derived(rows)[m].family] = org[m]
              /\ \E x \in D : Derived(rows)[m].originOrg = org[x]
<1> DEFINE org == DeveloperOf(rows)
<1>1. /\ IsFiniteSet(D) /\ DOMAIN rows = D /\ org \in [D -> Orgs \cup {NoOrg}]
      /\ GroupNext(rows) \in [D -> D \cup {NoModel}] /\ FamilyNext(rows) \in [D -> D \cup {NoModel}]
      /\ LineageNext(rows) \in [D -> D \cup {NoModel}]
      /\ \A m \in D : {GroupNext(rows)[m], FamilyNext(rows)[m]} \subseteq SameOrg(rows)[m] \cup {NoModel}
  BY WalkTypes
<1>2. \A x \in D : SameOrg(rows)[x] = {p \in Models : SameDeveloper(org, x, p)}
  BY <1>1 DEF SameOrg
<1> HIDE DEF org
<1>3. ASSUME NEW next \in [D -> D \cup {NoModel}], NEW m \in D,
             \A x \in D : next[x] \in SameOrg(rows)[x] \cup {NoModel}
      PROVE  DeepestOf(next, m) \in D /\ org[DeepestOf(next, m)] = org[m]
  <2> DEFINE S == {x \in D : org[x] = org[m]}
  <2>1. S \in SUBSET D /\ m \in S
    OBVIOUS
  <2>2. \A x \in S : next[x] \in S \cup {NoModel}
    BY <1>1, <1>2, <1>3 DEF SameDeveloper
  <2> HIDE DEF S
  <2>3. DeepestOf(next, m) \in S
    BY <1>1, <2>1, <2>2, DeepestStays
  <2> QED BY <2>3 DEF S
<1>4. ASSUME NEW m \in D
      PROVE  /\ DeepestOf(GroupNext(rows), m) \in D /\ org[DeepestOf(GroupNext(rows), m)] = org[m]
             /\ DeepestOf(FamilyNext(rows), m) \in D /\ org[DeepestOf(FamilyNext(rows), m)] = org[m]
             /\ Ancestor(rows, m) \in D
  <2>1. /\ \A x \in D : GroupNext(rows)[x] \in SameOrg(rows)[x] \cup {NoModel}
        /\ \A x \in D : FamilyNext(rows)[x] \in SameOrg(rows)[x] \cup {NoModel}
    BY <1>1
  <2>2. DeepestOf(GroupNext(rows), m) \in D /\ org[DeepestOf(GroupNext(rows), m)] = org[m]
    BY <1>1, <1>3, <2>1
  <2>3. DeepestOf(FamilyNext(rows), m) \in D /\ org[DeepestOf(FamilyNext(rows), m)] = org[m]
    BY <1>1, <1>3, <2>1
  <2>4. Ancestor(rows, m) \in D
    BY <1>1, DeepestEnds DEF Ancestor
  <2> QED BY <2>2, <2>3, <2>4
<1>5. ASSUME NEW m \in D
      PROVE  /\ Derived(rows)[m].org = org[m] /\ Derived(rows)[m].reviewed = rows[m].reviewed
             /\ Derived(rows)[m].group \in D /\ org[Derived(rows)[m].group] = org[m]
             /\ Derived(rows)[m].family \in D /\ org[Derived(rows)[m].family] = org[m]
             /\ \E x \in D : Derived(rows)[m].originOrg = org[x]
  <2>1. PICK a \in D : a = Ancestor(rows, m)
    BY <1>4
  <2>2. Derived(rows)[m].originOrg = IF org[a] # NoOrg THEN org[a] ELSE org[m]
    BY <2>1, DerivedColumns DEF org
  <2>3. /\ Derived(rows)[m].org = org[m] /\ Derived(rows)[m].reviewed = rows[m].reviewed
        /\ Derived(rows)[m].group = DeepestOf(GroupNext(rows), m)
        /\ Derived(rows)[m].family = DeepestOf(FamilyNext(rows), m)
    BY DerivedColumns DEF org
  <2> QED BY <1>4, <2>1, <2>2, <2>3
<1>6. Derived(rows) \in [D -> Rows]
  BY DerivedColumns
<1> QED BY <1>5, <1>6 DEF org

(* With one parent at most, a walk over fewer kinds of edges follows a part *)
(* of the walk over more.                                                   *)
LEMMA FewerKinds ==
  ASSUME NEW D \in SUBSET Models, NEW rows \in [D -> Rows],
         \A m \in D : \A d, e \in EdgesOf(rows, m) : d = e,
         NEW kinds, NEW some, some \subseteq kinds,
         NEW allowed, NEW near, \A m \in D : near[m] \subseteq allowed[m]
  PROVE  \A m \in D : NextOf(rows, some, near)[m] \in {NextOf(rows, kinds, allowed)[m], NoModel}
<1> DEFINE Some(m) == {e.id : e \in {x \in EdgesOf(rows, m) : x.kind \in some /\ x.id \in near[m]}}
           All(m) == {e.id : e \in {x \in EdgesOf(rows, m) : x.kind \in kinds /\ x.id \in allowed[m]}}
<1>1. /\ NextOf(rows, some, near) =
           [m \in D |-> IF Some(m) = {} \/ Min(Some(m)) \notin D THEN NoModel ELSE Min(Some(m))]
      /\ NextOf(rows, kinds, allowed) =
           [m \in D |-> IF All(m) = {} \/ Min(All(m)) \notin D THEN NoModel ELSE Min(All(m))]
  BY DEF NextOf
<1>2. ASSUME NEW m \in D, Some(m) # {} PROVE Some(m) = All(m)
  <2>1. PICK e \in EdgesOf(rows, m) : e.kind \in some /\ e.id \in near[m]
    BY <1>2
  <2>2. \A d \in EdgesOf(rows, m) : d = e
    BY <2>1
  <2>3. e.kind \in kinds /\ e.id \in allowed[m]
    BY <2>1
  <2> QED BY <2>1, <2>2, <2>3
<1> HIDE DEF Some, All
<1> QED BY <1>1, <1>2

(* A walk depends on the edges only.                                        *)
LEMMA SameEdges ==
  ASSUME NEW D, NEW rows \in [D -> Rows], NEW others \in [D -> Rows],
         \A m \in D : rows[m].parents = others[m].parents
  PROVE  /\ \A m \in D : EdgesOf(rows, m) = EdgesOf(others, m)
         /\ \A kinds, allowed : NextOf(rows, kinds, allowed) = NextOf(others, kinds, allowed)
<1>1. \A m \in D : EdgesOf(rows, m) = EdgesOf(others, m)
  BY DEF EdgesOf
<1>2. SUFFICES ASSUME NEW kinds, NEW allowed
               PROVE  NextOf(rows, kinds, allowed) = NextOf(others, kinds, allowed)
  BY <1>1
<1> DEFINE Ids(r, m) == {e.id : e \in {x \in EdgesOf(r, m) : x.kind \in kinds /\ x.id \in allowed[m]}}
<1>3. /\ NextOf(rows, kinds, allowed) =
           [m \in D |-> IF Ids(rows, m) = {} \/ Min(Ids(rows, m)) \notin D THEN NoModel
                        ELSE Min(Ids(rows, m))]
      /\ NextOf(others, kinds, allowed) =
           [m \in D |-> IF Ids(others, m) = {} \/ Min(Ids(others, m)) \notin D THEN NoModel
                        ELSE Min(Ids(others, m))]
  BY DEF NextOf
<1>4. \A m \in D : Ids(rows, m) = Ids(others, m)
  BY <1>1
<1> HIDE DEF Ids
<1> QED BY <1>3, <1>4

(* Over a tree the end of every kind of walk is an end of it.               *)
LEMMA TreeWalks ==
  ASSUME NEW D \in SUBSET Models, NEW rows \in [D -> Rows], IsTree(rows), NEW m \in D
  PROVE  /\ GroupNext(rows)[DeepestOf(GroupNext(rows), m)] = NoModel
         /\ FamilyNext(rows)[DeepestOf(FamilyNext(rows), m)] = NoModel
         /\ LineageNext(rows)[DeepestOf(LineageNext(rows), m)] = NoModel
         /\ DeepestOf(FamilyNext(rows), DeepestOf(GroupNext(rows), m)) = DeepestOf(FamilyNext(rows), m)
<1>1. /\ IsFiniteSet(D) /\ NoModel \notin D /\ DOMAIN rows = D
      /\ GroupNext(rows) \in [D -> D \cup {NoModel}] /\ FamilyNext(rows) \in [D -> D \cup {NoModel}]
      /\ LineageNext(rows) \in [D -> D \cup {NoModel}]
  BY WalkTypes
<1>2. PICK next \in [D -> D \cup {NoModel}] : next = NextOf(rows, Kinds, AnyOrg(rows))
  BY NextFacts
<1>3. \A x \in D : \A d, e \in EdgesOf(rows, x) : d = e
  BY <1>1 DEF IsTree
<1>4. \A x \in D : next[DeepestOf(next, x)] = NoModel
  BY <1>1, <1>2 DEF IsTree, AnyOrg
<1>5. \A x \in D : SameOrg(rows)[x] \subseteq AnyOrg(rows)[x] /\ AnyOrg(rows)[x] \subseteq AnyOrg(rows)[x]
                   /\ SameOrg(rows)[x] \subseteq SameOrg(rows)[x]
  BY <1>1 DEF SameOrg, AnyOrg
<1>6. GroupKinds \subseteq Kinds /\ FamilyKinds \subseteq Kinds /\ LineageKinds \subseteq Kinds
      /\ GroupKinds \subseteq FamilyKinds
  BY DEF GroupKinds, FamilyKinds, LineageKinds, Kinds
<1>7. \A x \in D : GroupNext(rows)[x] \in {next[x], NoModel}
  BY <1>2, <1>3, <1>5, <1>6, FewerKinds DEF GroupNext
<1>8. \A x \in D : FamilyNext(rows)[x] \in {next[x], NoModel}
  BY <1>2, <1>3, <1>5, <1>6, FewerKinds DEF FamilyNext
<1>9. \A x \in D : LineageNext(rows)[x] \in {next[x], NoModel}
  BY <1>2, <1>3, <1>5, <1>6, FewerKinds DEF LineageNext
<1>10. \A x \in D : GroupNext(rows)[x] \in {FamilyNext(rows)[x], NoModel}
  BY <1>3, <1>5, <1>6, FewerKinds DEF GroupNext, FamilyNext
<1>11. \A x \in D : FamilyNext(rows)[DeepestOf(FamilyNext(rows), x)] = NoModel
  BY <1>1, <1>4, <1>8, PartEnds
<1>12. GroupNext(rows)[DeepestOf(GroupNext(rows), m)] = NoModel
  BY <1>1, <1>4, <1>7, PartEnds
<1>13. LineageNext(rows)[DeepestOf(LineageNext(rows), m)] = NoModel
  BY <1>1, <1>4, <1>9, PartEnds
<1>14. DeepestOf(FamilyNext(rows), DeepestOf(GroupNext(rows), m)) = DeepestOf(FamilyNext(rows), m)
  BY <1>1, <1>10, <1>11, PartNests
<1> QED BY <1>11, <1>12, <1>13, <1>14

\* Over a tree, roots are their own roots and a group lies in its family.
LEMMA DerivedNests ==
  ASSUME NEW D \in SUBSET Models, NEW rows \in [D -> Rows], NEW derived, derived = Derived(rows),
         IsTree(derived), NEW m \in D
  PROVE  /\ derived[derived[m].group].group = derived[m].group
         /\ derived[derived[m].family].family = derived[m].family
         /\ derived[derived[m].group].family = derived[m].family
         /\ derived[m].origin # NoModel => derived[derived[m].origin].origin = NoModel
<1>1. /\ IsFiniteSet(D) /\ NoModel \notin D /\ DOMAIN rows = D
      /\ GroupNext(rows) \in [D -> D \cup {NoModel}] /\ FamilyNext(rows) \in [D -> D \cup {NoModel}]
      /\ LineageNext(rows) \in [D -> D \cup {NoModel}]
  BY WalkTypes
<1>2. /\ derived \in [D -> Rows]
      /\ \A x \in D :
           /\ derived[x].parents = rows[x].parents
           /\ derived[x].group = DeepestOf(GroupNext(rows), x)
           /\ derived[x].family = DeepestOf(FamilyNext(rows), x)
           /\ derived[x].origin = IF Ancestor(rows, x) = x THEN NoModel ELSE Ancestor(rows, x)
  BY DerivedColumns
<1>3. IsTree(rows)
  <2>1. \A x \in D : EdgesOf(derived, x) = EdgesOf(rows, x)
    BY <1>1, <1>2, SameEdges
  <2>2. \A kinds, allowed : NextOf(derived, kinds, allowed) = NextOf(rows, kinds, allowed)
    BY <1>1, <1>2, SameEdges
  <2>3. DOMAIN derived = D
    BY <1>2
  <2> QED BY <1>1, <2>1, <2>2, <2>3 DEF IsTree
<1>4. PICK g \in D, f \in D, a \in D :
        g = DeepestOf(GroupNext(rows), m) /\ f = DeepestOf(FamilyNext(rows), m) /\ a = Ancestor(rows, m)
  BY <1>1, DeepestEnds DEF Ancestor
<1>5. /\ GroupNext(rows)[g] = NoModel /\ FamilyNext(rows)[f] = NoModel /\ LineageNext(rows)[a] = NoModel
      /\ DeepestOf(FamilyNext(rows), g) = f
  BY <1>3, <1>4, TreeWalks DEF Ancestor
<1>6. DeepestOf(GroupNext(rows), g) = g
  BY <1>1, <1>5, DeepestHere
<1>7. DeepestOf(FamilyNext(rows), f) = f
  BY <1>1, <1>5, DeepestHere
<1>8. Ancestor(rows, a) = a
  BY <1>1, <1>5, DeepestHere DEF Ancestor
<1> QED BY <1>2, <1>4, <1>5, <1>6, <1>7, <1>8

(* A model that has no value inherits what the next one up ends with.       *)
LEMMA SameValue ==
  ASSUME NEW D \in SUBSET Models, NEW rows \in [D -> Rows],
         NEW x \in D, NEW y \in D, y = UnsetNext(rows)[x]
  PROVE  rows[DeepestOf(UnsetNext(rows), y)].open = rows[DeepestOf(UnsetNext(rows), x)].open
<1>1. /\ IsFiniteSet(D) /\ NoModel \notin D /\ UnsetNext(rows) \in [D -> D \cup {NoModel}]
      /\ DOMAIN rows = D
  BY WalkTypes
<1>2. \A z \in D : rows[z].open # "unset" => UnsetNext(rows)[z] = NoModel
  BY <1>1, WalkTypes DEF UnsetNext
<1>3. PICK e \in D, d \in D : e = DeepestOf(UnsetNext(rows), x) /\ d = DeepestOf(UnsetNext(rows), y)
  BY <1>1, DeepestEnds
<1>4. CASE NoModel \in {UnsetNext(rows)[e], UnsetNext(rows)[d]}
  <2>1. DeepestOf(UnsetNext(rows), y) = DeepestOf(UnsetNext(rows), x)
    BY <1>1, <1>3, <1>4, StepEnd
  <2> QED BY <2>1
<1>5. CASE NoModel \notin {UnsetNext(rows)[e], UnsetNext(rows)[d]}
  BY <1>2, <1>3, <1>5
<1> QED BY <1>4, <1>5

(* The rows again differ from rows in columns the derivation computes, or   *)
(* have a value of openness it computed.                                    *)
GivenBack(rows, again) ==
  /\ DeveloperOf(again) = DeveloperOf(rows)
  /\ \A m \in DOMAIN rows :
       /\ again[m].parents = rows[m].parents /\ again[m].reviewed = rows[m].reviewed
       /\ again[m].open \in {rows[m].open, Derived(rows)[m].open}

\* Deriving again what was derived, from rows given back, changes nothing.
LEMMA DerivesOnce ==
  ASSUME NEW D \in SUBSET Models, NEW rows \in [D -> Rows], NEW again \in [D -> Rows],
         GivenBack(rows, again)
  PROVE  Derived(again) = Derived(rows)
<1>1. /\ DeveloperOf(again) = DeveloperOf(rows)
      /\ \A m \in D :
           /\ again[m].parents = rows[m].parents /\ again[m].reviewed = rows[m].reviewed
           /\ again[m].open \in {rows[m].open, Derived(rows)[m].open}
  BY DEF GivenBack
<1>2. PICK derived : derived = Derived(rows)
  OBVIOUS
<1>3. /\ IsFiniteSet(D) /\ NoModel \notin D /\ DOMAIN rows = D /\ DOMAIN again = D
      /\ UnsetNext(rows) \in [D -> D \cup {NoModel}] /\ UnsetNext(again) \in [D -> D \cup {NoModel}]
      /\ OpenNext(rows) \in [D -> D \cup {NoModel}]
  BY WalkTypes
<1>4. /\ derived \in [D -> Rows] /\ Derived(again) \in [D -> Rows]
      /\ \A m \in D : derived[m].open = IF rows[m].open # "unset" THEN rows[m].open
                                        ELSE rows[DeepestOf(UnsetNext(rows), m)].open
      /\ \A m \in D : Derived(again)[m].open = IF again[m].open # "unset" THEN again[m].open
                                               ELSE again[DeepestOf(UnsetNext(again), m)].open
  BY <1>2, DerivedColumns
<1>5. \A kinds, allowed : NextOf(again, kinds, allowed) = NextOf(rows, kinds, allowed)
  BY <1>1, <1>3, SameEdges
<1>6. SameOrg(again) = SameOrg(rows) /\ AnyOrg(again) = AnyOrg(rows)
  BY <1>1, <1>3 DEF SameOrg, AnyOrg
<1>7. /\ GroupNext(again) = GroupNext(rows) /\ FamilyNext(again) = FamilyNext(rows)
      /\ LineageNext(again) = LineageNext(rows) /\ OpenNext(again) = OpenNext(rows)
  BY <1>5, <1>6 DEF GroupNext, FamilyNext, LineageNext, OpenNext
<1>8. \A m \in D : Ancestor(again, m) = Ancestor(rows, m)
  BY <1>7 DEF Ancestor
<1>9. \A m \in D : /\ UnsetNext(rows)[m] = IF rows[m].open = "unset" THEN OpenNext(rows)[m] ELSE NoModel
                   /\ UnsetNext(again)[m] = IF again[m].open = "unset" THEN OpenNext(rows)[m] ELSE NoModel
  BY <1>3, <1>7 DEF UnsetNext
<1>10. \A m \in D : again[m].open = "unset" => rows[m].open = "unset"
  BY <1>1, <1>2, <1>4
<1>11. ASSUME NEW m \in D, again[m].open = "unset"
      PROVE  again[DeepestOf(UnsetNext(again), m)].open = rows[DeepestOf(UnsetNext(rows), m)].open
  <2> DEFINE Value(x) == rows[DeepestOf(UnsetNext(rows), x)].open
             S == {x \in D : Value(x) = Value(m)}
  <2>1. S \in SUBSET D /\ m \in S
    OBVIOUS
  <2>2. ASSUME NEW x \in S, UnsetNext(again)[x] # NoModel PROVE UnsetNext(again)[x] \in S
    <3>1. PICK y \in D : y = UnsetNext(again)[x] /\ y = UnsetNext(rows)[x]
      BY <1>3, <1>9, <1>10, <2>2
    <3>2. Value(y) = Value(x)
      BY <3>1, SameValue
    <3> QED BY <3>1, <3>2
  <2>3. \A x \in S : UnsetNext(again)[x] \in S \cup {NoModel}
    BY <2>2
  <2> HIDE DEF S
  <2>4. PICK e \in S : e = DeepestOf(UnsetNext(again), m)
    BY <1>3, <2>1, <2>3, DeepestStays
  <2>5. e \in D /\ Value(e) = Value(m)
    BY DEF S
  <2>6. CASE again[e].open # "unset"
    <3>1. rows[e].open # "unset" => DeepestOf(UnsetNext(rows), e) = e
      BY <1>3, <1>9, <2>5, DeepestHere
    <3>2. again[e].open = Value(e)
      BY <1>1, <1>2, <1>4, <2>5, <2>6, <3>1
    <3> QED BY <2>4, <2>5, <3>2
  <2>7. CASE again[e].open = "unset" /\ UnsetNext(again)[e] = NoModel
    <3>1. rows[e].open = "unset" /\ UnsetNext(rows)[e] = NoModel
      BY <1>9, <1>10, <2>5, <2>7
    <3>2. DeepestOf(UnsetNext(rows), e) = e
      BY <1>3, <2>5, <3>1, DeepestHere
    <3> QED BY <2>4, <2>5, <2>7, <3>1, <3>2
  <2>8. CASE again[e].open = "unset" /\ UnsetNext(again)[e] # NoModel
    <3>1. PICK W \in SUBSET D : e \in W /\ \A x \in W : UnsetNext(again)[x] \in W
      BY <1>3, <2>4, <2>8, DeepestEnds
    <3>2. \A x \in W : rows[x].open = "unset" /\ UnsetNext(rows)[x] \in W
      BY <1>3, <1>9, <1>10, <3>1
    <3>3. DeepestOf(UnsetNext(rows), e) \in W
      BY <1>3, <3>1, <3>2, DeepestStays
    <3> QED BY <2>4, <2>5, <2>8, <3>2, <3>3
  <2> QED BY <2>6, <2>7, <2>8
<1>12. \A m \in D : Derived(again)[m].open = derived[m].open
  BY <1>1, <1>2, <1>4, <1>10, <1>11
<1>13. ASSUME NEW m \in D PROVE Derived(again)[m] = derived[m]
  <2>1. PICK r \in Rows, t \in Rows : r = derived[m] /\ t = Derived(again)[m]
    BY <1>4
  <2>2. /\ r.parents = rows[m].parents /\ r.reviewed = rows[m].reviewed
        /\ r.org = DeveloperOf(rows)[m]
        /\ r.group = DeepestOf(GroupNext(rows), m) /\ r.family = DeepestOf(FamilyNext(rows), m)
        /\ r.origin = IF Ancestor(rows, m) = m THEN NoModel ELSE Ancestor(rows, m)
        /\ r.originOrg = IF DeveloperOf(rows)[Ancestor(rows, m)] # NoOrg
                         THEN DeveloperOf(rows)[Ancestor(rows, m)] ELSE DeveloperOf(rows)[m]
    BY <1>2, <2>1, DerivedColumns
  <2>3. /\ t.parents = again[m].parents /\ t.reviewed = again[m].reviewed
        /\ t.org = DeveloperOf(again)[m]
        /\ t.group = DeepestOf(GroupNext(again), m) /\ t.family = DeepestOf(FamilyNext(again), m)
        /\ t.origin = IF Ancestor(again, m) = m THEN NoModel ELSE Ancestor(again, m)
        /\ t.originOrg = IF DeveloperOf(again)[Ancestor(again, m)] # NoOrg
                         THEN DeveloperOf(again)[Ancestor(again, m)] ELSE DeveloperOf(again)[m]
    BY <2>1, DerivedColumns
  <2>4. /\ t.parents = r.parents /\ t.reviewed = r.reviewed /\ t.org = r.org /\ t.group = r.group
        /\ t.family = r.family /\ t.origin = r.origin /\ t.originOrg = r.originOrg
    BY <1>1, <1>7, <1>8, <2>2, <2>3
  <2>5. t.open = r.open
    BY <1>12, <2>1
  <2> QED BY <2>1, <2>4, <2>5 DEF Rows
<1> QED BY <1>2, <1>4, <1>13
-----------------------------------------------------------------------------
(* Claims.                                                                  *)

\* The types of a listed entry's fields.
LEMMA EntryFacts ==
  ASSUME WellFormed(yaml), NEW m \in Listed
  PROVE  /\ m \in Models /\ Entry(m) \in Entries
         /\ Entry(m).parents \in SUBSET [id : Models, kind : Kinds]
         /\ Entry(m).org \in Orgs \cup {NoOrg} /\ Entry(m).open \in Openness
         /\ Entry(m).reviewed \in BOOLEAN /\ Entry(m).display \in Names \cup {NoName}
         /\ Entry(m).names \subseteq Names /\ Entry(m).scoped \subseteq Names
BY DEF WellFormed, Listed, Entry, Entries

(* A name is seeded for a listed model, an id for its own; where a lab      *)
(* model owns the name, for it or for a model of another lab.               *)
LEMMA TargetFacts ==
  ASSUME WellFormed(yaml), NEW m \in Listed, NEW raw
  PROVE  Target(m, raw) \in Listed /\ (raw \in Models => Target(m, raw) = m)
<1>1. /\ LabClaimants(raw) # {} => (CHOOSE l \in LabClaimants(raw) : TRUE) \in LabClaimants(raw)
      /\ Claimants(raw) # {} => (CHOOSE c \in Claimants(raw) : TRUE) \in Claimants(raw)
  OBVIOUS
<1>2. LabClaimants(raw) \subseteq Listed /\ Claimants(raw) \subseteq Listed
  BY DEF LabClaimants, Claimants
<1>3. CASE raw \in Models
  BY <1>3 DEF Target
<1>4. CASE raw \notin Models /\ \E l \in LabClaimants(raw) : l # m /\ (IsLab(m) => DevOf(l) = DevOf(m))
  BY <1>1, <1>2, <1>4 DEF Target
<1>5. CASE /\ raw \notin Models
           /\ ~ \E l \in LabClaimants(raw) : l # m /\ (IsLab(m) => DevOf(l) = DevOf(m))
           /\ ~IsLab(m) /\ ~Confirmed(m) /\ Cardinality(Claimants(raw)) = 1
  <2>1. Claimants(raw) # {}
    BY <1>5, FS_EmptySet
  <2> QED BY <1>1, <1>2, <1>5, <2>1 DEF Target
<1>6. CASE /\ raw \notin Models
           /\ ~ \E l \in LabClaimants(raw) : l # m /\ (IsLab(m) => DevOf(l) = DevOf(m))
           /\ ~(~IsLab(m) /\ ~Confirmed(m) /\ Cardinality(Claimants(raw)) = 1)
  BY <1>6 DEF Target
<1> QED BY <1>3, <1>4, <1>5, <1>6

\* A name a lab's model claims is redirected to the claimant, or is another
\* lab's by the same right.
LEMMA OwnerOfName ==
  ASSUME WellFormed(yaml), Curated, NEW m \in Listed, NEW name \in Names, NEW l \in LabClaimants(name)
  PROVE  LET owner == Target(m, name) IN
         owner = l \/ (IsLab(owner) /\ DevOf(owner) # DevOf(l))
<1>1. name \notin Models
  BY SeedAssumption
<1>2. \A k \in LabClaimants(name) : k = l
  BY DEF Curated
<1>3. (CHOOSE k \in LabClaimants(name) : TRUE) = l
  BY <1>2
<1>4. IsLab(l)
  BY DEF LabClaimants
<1>5. CASE l # m /\ (IsLab(m) => DevOf(l) = DevOf(m))
  BY <1>1, <1>3, <1>5 DEF Target
<1>6. CASE l = m
  <2>1. Target(m, name) = m
    BY <1>1, <1>2, <1>4, <1>6 DEF Target
  <2> QED BY <1>6, <2>1
<1>7. CASE l # m /\ IsLab(m) /\ DevOf(l) # DevOf(m)
  <2>1. Target(m, name) = m
    BY <1>1, <1>2, <1>7 DEF Target
  <2> QED BY <1>7, <2>1
<1> QED BY <1>5, <1>6, <1>7

\* The claims name listed models, and each entry claims its id, its names, where
\* their owner is, and its scoped names.
LEMMA ClaimsFacts ==
  ASSUME WellFormed(yaml)
  PROVE  /\ \A c \in Claims : c.key \in Keys /\ c.target \in Listed
         /\ \A m \in Listed :
              /\ [key |-> <<m, "global">>, target |-> m] \in Claims
              /\ \A name \in Entry(m).names :
                   [key |-> <<name, "global">>, target |-> Target(m, name)] \in Claims
              /\ \A name \in Entry(m).scoped :
                   [key |-> <<name, "config">>, target |-> m] \in Claims
<1> DEFINE Global(m) == {[key |-> <<raw, "global">>, target |-> Target(m, raw)] : raw \in Spellings(m)}
           Scoped(m) == {[key |-> <<raw, "config">>, target |-> m] : raw \in Entry(m).scoped}
<1>1. Claims = UNION {Global(m) \cup Scoped(m) : m \in Listed}
  BY DEF Claims
<1>2. ASSUME NEW m \in Listed
      PROVE  Spellings(m) \subseteq Raws /\ m \in Spellings(m) /\ Entry(m).names \subseteq Spellings(m)
             /\ Entry(m).scoped \subseteq Raws
  <2>1. m \in Models /\ Entry(m).names \subseteq Names /\ Entry(m).scoped \subseteq Names
        /\ Entry(m).display \in Names \cup {NoName}
    BY EntryFacts
  <2>2. Shown(m) \subseteq Names
    BY <2>1 DEF Shown
  <2> QED BY <2>1, <2>2 DEF Spellings, Raws
<1>3. ASSUME NEW m \in Listed, NEW c \in Global(m)
      PROVE  c.key \in Keys /\ c.target \in Listed
  <2>1. PICK raw \in Spellings(m) : c = [key |-> <<raw, "global">>, target |-> Target(m, raw)]
    BY <1>3
  <2>2. raw \in Raws /\ Target(m, raw) \in Listed
    BY <1>2, TargetFacts
  <2> QED BY <2>1, <2>2 DEF Keys, Scopes
<1>4. ASSUME NEW m \in Listed, NEW c \in Scoped(m)
      PROVE  c.key \in Keys /\ c.target \in Listed
  BY <1>2, <1>4 DEF Keys, Scopes
<1>5. ASSUME NEW m \in Listed
      PROVE  /\ [key |-> <<m, "global">>, target |-> m] \in Global(m)
             /\ \A name \in Entry(m).names :
                  [key |-> <<name, "global">>, target |-> Target(m, name)] \in Global(m)
             /\ \A name \in Entry(m).scoped : [key |-> <<name, "config">>, target |-> m] \in Scoped(m)
  <2>1. Target(m, m) = m
    BY EntryFacts, TargetFacts
  <2> QED BY <1>2, <2>1
<1> HIDE DEF Global, Scoped
<1> QED BY <1>1, <1>3, <1>4, <1>5

(* What the seed makes of the aliases: what is claimed names its claimant,  *)
(* the rest is as it was, or pruned.                                        *)
LEMMA AliasFacts ==
  ASSUME Typed, NEW claims, NEW prune \in BOOLEAN, NEW kept,
         claims = Claims, Unambiguous(claims),
         kept = IF prune THEN KeptAliases(ClaimedAliases(claims), claims) ELSE ClaimedAliases(claims)
  PROVE  /\ kept \in [Keys -> [target : Models \cup {NoModel}, seeded : BOOLEAN]]
         /\ \A k \in Keys : kept[k].target = NoModel => kept[k] = NoAlias
         /\ \A k \in Keys : kept[k].target \in Listed \cup {aliases[k].target, NoModel}
         /\ \A c \in claims : kept[c.key].target = c.target
<1> DEFINE owner(k) == {c.target : c \in {x \in claims : x.key = k}}
           Row == [target : Models \cup {NoModel}, seeded : BOOLEAN]
           claimed == ClaimedAliases(claims)
<1>1. /\ \A k \in Keys : aliases[k] \in Row /\ (aliases[k].target = NoModel => aliases[k] = NoAlias)
      /\ WellFormed(yaml) /\ Listed \subseteq Models /\ NoModel \notin Models /\ NoAlias \in Row
  BY ModelsAssumption DEF Typed, WellFormed, NoModel, NoAlias, Listed
<1>2. \A c \in claims : c.key \in Keys /\ c.target \in Listed
  BY <1>1, ClaimsFacts
<1>3. \A k : owner(k) # {} => (CHOOSE m \in owner(k) : TRUE) \in owner(k)
  OBVIOUS
<1>4. \A k : owner(k) \subseteq Listed
  BY <1>2
<1>5. \A c \in claims : owner(c.key) = {c.target}
  BY DEF Unambiguous
<1>6. claimed = [k \in Keys |->
                   IF owner(k) = {} \/ owner(k) = {aliases[k].target} THEN aliases[k]
                   ELSE [target |-> CHOOSE m \in owner(k) : TRUE, seeded |-> TRUE]]
  BY DEF ClaimedAliases
<1> HIDE DEF owner, claimed
<1>7. ASSUME NEW k \in Keys
      PROVE  /\ claimed[k] \in Row /\ (claimed[k].target = NoModel => claimed[k] = NoAlias)
             /\ claimed[k].target \in Listed \cup {aliases[k].target}
             /\ \A m : owner(k) = {m} => claimed[k].target = m
  <2>1. CASE owner(k) = {} \/ owner(k) = {aliases[k].target}
    BY <1>1, <1>6, <2>1
  <2>2. CASE ~(owner(k) = {} \/ owner(k) = {aliases[k].target})
    <3>1. PICK m \in owner(k) : claimed[k] = [target |-> m, seeded |-> TRUE]
      BY <1>3, <1>6, <2>2
    <3> QED BY <1>1, <1>4, <3>1
  <2> QED BY <2>1, <2>2
<1>8. \A c \in claims : claimed[c.key].target = c.target
  BY <1>2, <1>5, <1>7
<1>9. CASE ~prune
  <2>1. kept = claimed
    BY <1>9 DEF claimed
  <2>2. claimed \in [Keys -> Row]
    BY <1>6, <1>7
  <2> QED BY <1>7, <1>8, <2>1, <2>2
<1>10. CASE prune
  <2>1. kept = [k \in Keys |->
                  IF claimed[k].seeded /\ [key |-> k, target |-> claimed[k].target] \notin claims
                  THEN NoAlias ELSE claimed[k]]
    BY <1>10 DEF claimed, KeptAliases
  <2>2. ASSUME NEW k \in Keys
        PROVE  /\ kept[k] \in Row /\ (kept[k].target = NoModel => kept[k] = NoAlias)
               /\ kept[k].target \in Listed \cup {aliases[k].target, NoModel}
    <3>1. kept[k] = NoAlias \/ kept[k] = claimed[k]
      BY <2>1
    <3> QED BY <1>1, <1>7, <3>1 DEF NoAlias
  <2>3. ASSUME NEW c \in claims PROVE kept[c.key].target = c.target
    <3>1. [key |-> c.key, target |-> c.target] = c
      BY DEF Claims
    <3>2. kept[c.key] = claimed[c.key]
      BY <1>2, <1>8, <2>1, <3>1
    <3> QED BY <1>8, <3>2
  <2>4. kept \in [Keys -> Row]
    BY <2>1, <2>2
  <2> QED BY <2>2, <2>3, <2>4
<1> QED BY <1>9, <1>10
-----------------------------------------------------------------------------
(* The seed.                                                                *)

\* The curation's operators depend on the YAML alone.
LEMMA SameYaml ==
  ASSUME yaml' = yaml
  PROVE  /\ Listed' = Listed /\ \A x : Entry(x)' = Entry(x)
         /\ \A x : DevOf(x)' = DevOf(x) /\ IsLab(x)' = IsLab(x)
         /\ \A name : LabClaimants(name)' = LabClaimants(name)
<1>1. Listed' = Listed /\ \A x : Entry(x)' = Entry(x)
  BY DEF Listed, Entry
<1>2. \A x : DevOf(x)' = DevOf(x) /\ IsLab(x)' = IsLab(x) /\ Confirmed(x)' = Confirmed(x)
  BY DEF Listed, Entry, DevOf, IsLab, Confirmed
<1>3. \A name : LabClaimants(name)' = LabClaimants(name)
  BY <1>1, <1>2 DEF LabClaimants, Claimants
<1> QED BY <1>1, <1>2, <1>3

\* The names follow when the next aliases do.
LEMMA NamesFollow ==
  ASSUME yaml' = yaml,
         Derivation' => \A m \in Listed :
           /\ aliases'[<<m, "global">>].target = m
           /\ \A name \in Entry(m).names :
                LET owner == aliases'[<<name, "global">>].target IN
                /\ owner \in Listed
                /\ \A l \in LabClaimants(name) :
                     owner = l \/ (IsLab(owner) /\ DevOf(owner) # DevOf(l))
           /\ \A name \in Entry(m).scoped : aliases'[<<name, "config">>].target = m
  PROVE  NamesFollowCuration'
<1>1. Listed' = Listed /\ \A x : Entry(x)' = Entry(x)
  BY SameYaml
<1>2. \A x : DevOf(x)' = DevOf(x) /\ IsLab(x)' = IsLab(x)
  BY SameYaml
<1>3. \A name : LabClaimants(name)' = LabClaimants(name)
  BY SameYaml
<1> QED BY <1>1, <1>2, <1>3 DEF NamesFollowCuration, Derivation

\* A step that leaves YAML and aliases alone leaves the names where they are.
LEMMA SameNames ==
  ASSUME Curated, NamesFollowCuration, UNCHANGED <<yaml, aliases, last>>
  PROVE  Curated' /\ NamesFollowCuration'
<1>1. Curated'
  BY SameYaml DEF Curated
<1>2. Derivation' => \A m \in Listed :
           /\ aliases'[<<m, "global">>].target = m
           /\ \A name \in Entry(m).names :
                LET owner == aliases'[<<name, "global">>].target IN
                /\ owner \in Listed
                /\ \A l \in LabClaimants(name) :
                     owner = l \/ (IsLab(owner) /\ DevOf(owner) # DevOf(l))
           /\ \A name \in Entry(m).scoped : aliases'[<<name, "config">>].target = m
  BY DEF NamesFollowCuration, Derivation
<1> QED BY <1>1, <1>2, NamesFollow

\* An upserted row has the entry's columns, and its own where the entry is silent.
LEMMA WrittenFacts ==
  ASSUME NEW row \in Rows, NEW e, e.parents \in SUBSET [id : Models, kind : Kinds],
         e.org \in Orgs \cup {NoOrg}, e.open \in Openness, e.reviewed \in BOOLEAN
  PROVE  /\ Written(row, e) \in Rows
         /\ Written(row, e).parents = IF "parents" \in e.absent THEN row.parents ELSE e.parents
         /\ Written(row, e).org = IF "org" \in e.absent THEN row.org ELSE e.org
         /\ Written(row, e).open = IF "open" \in e.absent THEN row.open ELSE e.open
         /\ Written(row, e).reviewed = e.reviewed
<1>1. PICK p, o, w, v :
        /\ v \in BOOLEAN
        /\ p = IF "parents" \in e.absent THEN row.parents ELSE e.parents
        /\ o = IF "org" \in e.absent THEN row.org ELSE e.org
        /\ w = IF "open" \in e.absent THEN row.open ELSE e.open
        /\ v = e.reviewed
  OBVIOUS
<1>2. PICK written : written = [row EXCEPT !.parents = p, !.org = o, !.open = w, !.reviewed = v]
  OBVIOUS
<1>3. p \in SUBSET [id : Models, kind : Kinds] /\ o \in Orgs \cup {NoOrg} /\ w \in Openness
  BY <1>1 DEF Rows
<1>4. /\ written \in Rows /\ written.parents = p /\ written.org = o /\ written.open = w
      /\ written.reviewed = v
  BY <1>1, <1>2, <1>3 DEF Rows
<1>5. Written(row, e) = written
  BY <1>1, <1>2 DEF Written
<1> QED BY <1>1, <1>4, <1>5

\* After the upsert each row's organisation is registered or listed.
LEMMA UpsertedFacts ==
  ASSUME Typed, ReferencesClosed, Curated
  PROVE  /\ Upserted \in [DOMAIN models \cup Listed -> Rows]
         /\ DOMAIN models \cup Listed \in SUBSET Models
         /\ \A m \in DOMAIN models \cup Listed : Upserted[m].org \in orgs \cup yaml.orgs \cup {NoOrg}
<1> DEFINE D == DOMAIN models \cup Listed
<1>1. D \in SUBSET Models
  BY DEF Typed, WellFormed, Listed
<1>2. ASSUME NEW m \in D
      PROVE  Upserted[m] \in Rows /\ Upserted[m].org \in orgs \cup yaml.orgs \cup {NoOrg}
  <2>1. m \in DOMAIN models => models[m] \in Rows /\ models[m].org \in orgs \cup {NoOrg}
    BY DEF Typed, ReferencesClosed
  <2>2. CASE m \notin Listed
    BY <1>2, <2>1, <2>2 DEF Upserted
  <2>3. CASE m \in Listed
    <3>1. NewRow \in Rows /\ NewRow.org = NoOrg
      BY DEF NewRow, Rows, Openness
    <3>2. PICK row \in Rows : /\ row = IF m \in DOMAIN models THEN models[m] ELSE NewRow
                              /\ row.org \in orgs \cup {NoOrg}
      BY <2>1, <3>1
    <3>3. PICK e : /\ e = Entry(m) /\ e.parents \in SUBSET [id : Models, kind : Kinds]
                   /\ e.org \in Orgs \cup {NoOrg} /\ e.org \in yaml.orgs \cup {NoOrg}
                   /\ e.open \in Openness /\ e.reviewed \in BOOLEAN
      BY <2>3, EntryFacts DEF Typed, Curated
    <3>4. Upserted[m] = Written(row, e)
      BY <2>3, <3>2, <3>3 DEF Upserted
    <3>5. /\ Written(row, e) \in Rows
          /\ Written(row, e).org = IF "org" \in e.absent THEN row.org ELSE e.org
      BY <3>3, WrittenFacts
    <3> QED BY <3>2, <3>3, <3>4, <3>5
  <2> QED BY <2>2, <2>3
<1> QED BY <1>1, <1>2 DEF Upserted

\* The claims depend on the YAML alone.
LEMMA SameClaims ==
  ASSUME yaml' = yaml
  PROVE  Claims' = Claims
<1>1. Listed' = Listed /\ \A x : Entry(x)' = Entry(x)
  BY SameYaml
<1>2. \A x : DevOf(x)' = DevOf(x) /\ IsLab(x)' = IsLab(x) /\ Confirmed(x)' = Confirmed(x)
  BY <1>1, SameYaml DEF Confirmed
<1>3. \A name : Claimants(name)' = Claimants(name) /\ LabClaimants(name)' = LabClaimants(name)
  BY <1>1, <1>2, SameYaml DEF Claimants
<1>4. LabNames' = LabNames
  BY <1>1, <1>2 DEF LabNames
<1>5. \A m : Shown(m)' = Shown(m)
  BY <1>1, <1>2, <1>4 DEF Shown
<1>6. \A m : Spellings(m)' = Spellings(m)
  BY <1>1, <1>5 DEF Spellings
<1>7. ASSUME NEW m, NEW raw PROVE Target(m, raw)' = Target(m, raw)
  <2>1. /\ (CHOOSE l \in LabClaimants(raw) : TRUE)' = CHOOSE l \in LabClaimants(raw) : TRUE
        /\ (CHOOSE c \in Claimants(raw) : TRUE)' = CHOOSE c \in Claimants(raw) : TRUE
        /\ Cardinality(Claimants(raw))' = Cardinality(Claimants(raw))
    BY <1>3
  <2>2. (\E l \in LabClaimants(raw) : l # m /\ (IsLab(m) => DevOf(l) = DevOf(m)))'
          <=> \E l \in LabClaimants(raw) : l # m /\ (IsLab(m) => DevOf(l) = DevOf(m))
    BY <1>2, <1>3
  <2>3. (~IsLab(m) /\ ~Confirmed(m))' <=> ~IsLab(m) /\ ~Confirmed(m)
    BY <1>2
  <2>4. CASE raw \in Models
    BY <2>4 DEF Target
  <2>5. CASE /\ raw \notin Models
             /\ \E l \in LabClaimants(raw) : l # m /\ (IsLab(m) => DevOf(l) = DevOf(m))
    <3>1. Target(m, raw) = CHOOSE l \in LabClaimants(raw) : TRUE
      BY <2>5 DEF Target
    <3>2. Target(m, raw)' = (CHOOSE l \in LabClaimants(raw) : TRUE)'
      BY <2>2, <2>5 DEF Target
    <3> QED BY <2>1, <3>1, <3>2
  <2>6. CASE /\ raw \notin Models
             /\ ~ \E l \in LabClaimants(raw) : l # m /\ (IsLab(m) => DevOf(l) = DevOf(m))
             /\ ~IsLab(m) /\ ~Confirmed(m) /\ Cardinality(Claimants(raw)) = 1
    <3>1. Target(m, raw) = CHOOSE c \in Claimants(raw) : TRUE
      BY <2>6 DEF Target
    <3>2. Target(m, raw)' = (CHOOSE c \in Claimants(raw) : TRUE)'
      BY <2>1, <2>2, <2>3, <2>6 DEF Target
    <3> QED BY <2>1, <3>1, <3>2
  <2>7. CASE /\ raw \notin Models
             /\ ~ \E l \in LabClaimants(raw) : l # m /\ (IsLab(m) => DevOf(l) = DevOf(m))
             /\ ~(~IsLab(m) /\ ~Confirmed(m) /\ Cardinality(Claimants(raw)) = 1)
    <3>1. Target(m, raw) = m
      BY <2>7 DEF Target
    <3>2. Target(m, raw)' = m
      BY <2>1, <2>2, <2>3, <2>7 DEF Target
    <3> QED BY <3>1, <3>2
  <2> QED BY <2>4, <2>5, <2>6, <2>7
<1> QED BY <1>1, <1>6, <1>7 DEF Claims

\* A step that touches no table leaves them as the seed left them.
LEMMA SameSeeded ==
  ASSUME Seeded, UNCHANGED <<yaml, models, orgs, draftOrgs, aliases, last>>
  PROVE  Seeded'
<1>1. Upserted' = Upserted
  BY DEF Upserted, Listed, Entry
<1>2. ClaimedAliases(Claims)' = ClaimedAliases(Claims)
  BY SameClaims DEF ClaimedAliases
<1> QED BY <1>1, <1>2 DEF Seeded

(* A seed that prunes nothing.                                              *)
LEMMA PlainSeed ==
  ASSUME Typed, Seed(FALSE)
  PROVE  /\ models' = Derived(Upserted) /\ aliases' = ClaimedAliases(Claims)
         /\ orgs' = orgs \cup yaml.orgs \cup PrefixOrgsUsed(Upserted)
         /\ draftOrgs' = draftOrgs \ yaml.orgs /\ Unambiguous(Claims)
         /\ last' = "seed" /\ yaml' = yaml
<1>1. PICK claims \in {Claims}, derived \in {Derived(Upserted)} :
        \E claimed \in {ClaimedAliases(claims)} :
          /\ Unambiguous(claims)
          /\ models' = [m \in DOMAIN derived \ {} |-> derived[m]]
          /\ orgs' = (orgs \cup yaml.orgs \cup PrefixOrgsUsed(Upserted)) \ {}
          /\ draftOrgs' = draftOrgs \ yaml.orgs
          /\ aliases' = [k \in Keys |-> IF claimed[k].target \in {} THEN NoAlias ELSE claimed[k]]
  BY DEF Seed
<1>2. derived = [m \in DOMAIN derived |-> derived[m]]
  BY DEF Derived, Columns
<1>3. PICK claimed : claimed = ClaimedAliases(Claims) /\ aliases' = [k \in Keys |-> claimed[k]]
  BY <1>1
<1>4. claimed = [k \in Keys |-> claimed[k]]
  BY <1>3 DEF ClaimedAliases
<1> QED BY <1>1, <1>2, <1>3, <1>4 DEF Seed

(* It reads back what it has derived as what it was given.                  *)
LEMMA UpsertsOnce ==
  ASSUME Typed, ReferencesClosed, Curated, models' = Derived(Upserted), yaml' = yaml
  PROVE  /\ Derived(Upserted)' = Derived(Upserted)
         /\ PrefixOrgsUsed(Upserted)' \subseteq PrefixOrgsUsed(Upserted)
<1>0. PICK D \in SUBSET Models : D = DOMAIN models \cup Listed
  BY UpsertedFacts
<1>1. PICK rows \in [D -> Rows] : D = DOMAIN models \cup Listed /\ rows = Upserted
  BY <1>0, UpsertedFacts
<1>2. PICK derived : derived = Derived(rows)
  OBVIOUS
<1>3. /\ derived \in [D -> Rows]
      /\ \A m \in D : derived[m].parents = rows[m].parents /\ derived[m].reviewed = rows[m].reviewed
                      /\ derived[m].org = DeveloperOf(rows)[m]
  BY <1>2, DerivedColumns
<1>4. WellFormed(yaml) /\ \A m \in Listed : Entry(m).reviewed \in BOOLEAN /\ m \in D
  BY <1>1, EntryFacts DEF Typed
<1>5. PICK again :
        again = [m \in D |-> IF m \notin Listed THEN derived[m] ELSE Written(derived[m], Entry(m))]
  OBVIOUS
<1>6. Upserted' = again
  <2>1. Listed' = Listed /\ \A x : Entry(x)' = Entry(x)
    BY SameYaml
  <2>2. models' = derived /\ DOMAIN models' = D /\ D \cup Listed = D
    BY <1>1, <1>2, <1>3
  <2>3. Upserted' = [m \in DOMAIN models' \cup Listed |->
          IF m \notin Listed THEN models'[m]
          ELSE Written(IF m \in DOMAIN models' THEN models'[m] ELSE NewRow, Entry(m))]
    BY <2>1 DEF Upserted
  <2> HIDE DEF Listed
  <2> QED BY <1>5, <2>2, <2>3
<1>7. ASSUME NEW m \in D
      PROVE  /\ again[m] \in Rows
             /\ again[m].parents = rows[m].parents /\ again[m].reviewed = rows[m].reviewed
             /\ again[m].open \in {rows[m].open, derived[m].open}
             /\ again[m].org \in {rows[m].org, derived[m].org}
  <2>1. CASE m \notin Listed
    BY <1>3, <1>5, <2>1
  <2>2. CASE m \in Listed
    <3>1. PICK e : /\ e = Entry(m) /\ e.parents \in SUBSET [id : Models, kind : Kinds]
                   /\ e.org \in Orgs \cup {NoOrg} /\ e.open \in Openness /\ e.reviewed \in BOOLEAN
      BY <2>2, EntryFacts DEF Typed
    <3>2. PICK row \in Rows : row = IF m \in DOMAIN models THEN models[m] ELSE NewRow
      BY DEF Typed, NewRow, Rows, Openness
    <3>3. PICK r \in Rows : r = derived[m]
      BY <1>3
    <3>4. rows[m] = Written(row, e) /\ again[m] = Written(r, e)
      BY <1>1, <1>5, <2>2, <3>1, <3>2, <3>3 DEF Upserted
    <3>5. PICK w \in Rows, v \in Rows : w = rows[m] /\ v = Written(r, e)
      BY WrittenFacts, <3>1, <3>3
    <3>6. /\ w.parents = IF "parents" \in e.absent THEN row.parents ELSE e.parents
          /\ w.org = IF "org" \in e.absent THEN row.org ELSE e.org
          /\ w.open = IF "open" \in e.absent THEN row.open ELSE e.open
          /\ w.reviewed = e.reviewed
      BY <3>1, <3>2, <3>4, <3>5, WrittenFacts
    <3>7. /\ v.parents = IF "parents" \in e.absent THEN r.parents ELSE e.parents
          /\ v.org = IF "org" \in e.absent THEN r.org ELSE e.org
          /\ v.open = IF "open" \in e.absent THEN r.open ELSE e.open
          /\ v.reviewed = e.reviewed
      BY <3>1, <3>3, <3>5, WrittenFacts
    <3>8. r.parents = w.parents
      BY <1>3, <3>3, <3>5
    <3> QED BY <3>3, <3>4, <3>5, <3>6, <3>7, <3>8
  <2> QED BY <2>1, <2>2
<1>8. again \in [D -> Rows]
  BY <1>5, <1>7
<1>9. \A m \in D : DeveloperOf(rows)[m] = IF rows[m].org # NoOrg THEN rows[m].org ELSE PrefixOrg[m]
  BY DEF DeveloperOf
<1>10. DeveloperOf(again) = DeveloperOf(rows)
  <2>1. \A m \in D : (IF again[m].org # NoOrg THEN again[m].org ELSE PrefixOrg[m]) = DeveloperOf(rows)[m]
    BY <1>3, <1>7, <1>9
  <2>2. DeveloperOf(rows) = [m \in D |-> DeveloperOf(rows)[m]]
    BY DEF DeveloperOf
  <2>3. DeveloperOf(again) =
          [m \in D |-> IF again[m].org # NoOrg THEN again[m].org ELSE PrefixOrg[m]]
    BY <1>8 DEF DeveloperOf
  <2> HIDE DEF DeveloperOf
  <2> QED BY <2>1, <2>2, <2>3
<1>11. Derived(again) = derived
  <2>1. \A m \in D : /\ again[m].parents = rows[m].parents /\ again[m].reviewed = rows[m].reviewed
                     /\ again[m].open \in {rows[m].open, Derived(rows)[m].open}
    BY <1>2, <1>7
  <2>2. GivenBack(rows, again)
    BY <1>10, <2>1 DEF GivenBack
  <2>3. Derived(again) = Derived(rows)
    BY <1>8, <2>2, DerivesOnce
  <2> QED BY <1>2, <2>3
<1>12. PrefixOrgsUsed(again) \subseteq PrefixOrgsUsed(rows)
  <2>1. \A m \in D : again[m].org = NoOrg => rows[m].org = NoOrg \/ PrefixOrg[m] = NoOrg
    BY <1>3, <1>7, <1>9
  <2> QED BY <1>8, <2>1 DEF PrefixOrgsUsed
<1> QED BY <1>1, <1>2, <1>6, <1>11, <1>12

\* A seed leaves tables that a second seed would write again.
LEMMA SeedSettles ==
  ASSUME Typed, ReferencesClosed, Curated, Seed(FALSE)
  PROVE  Seeded'
<1>1. /\ models' = Derived(Upserted) /\ aliases' = ClaimedAliases(Claims)
      /\ orgs' = orgs \cup yaml.orgs \cup PrefixOrgsUsed(Upserted)
      /\ draftOrgs' = draftOrgs \ yaml.orgs /\ Unambiguous(Claims) /\ yaml' = yaml
  BY PlainSeed
<1>2. Derived(Upserted)' = Derived(Upserted) /\ PrefixOrgsUsed(Upserted)' \subseteq PrefixOrgsUsed(Upserted)
  BY <1>1, UpsertsOnce
<1>3. aliases' = ClaimedAliases(Claims)'
  <2>1. PICK claims, kept : claims = Claims /\ kept = ClaimedAliases(claims)
    OBVIOUS
  <2>2. \A c \in claims : kept[c.key].target = c.target
    <3>1. PICK prune \in BOOLEAN : prune = FALSE
      OBVIOUS
    <3>2. kept = IF prune THEN KeptAliases(ClaimedAliases(claims), claims) ELSE ClaimedAliases(claims)
      BY <2>1, <3>1
    <3> QED BY <1>1, <2>1, <3>2, AliasFacts
  <2>3. kept = [k \in Keys |-> kept[k]]
    BY <2>1 DEF ClaimedAliases
  <2> DEFINE owner(k) == {c.target : c \in {x \in claims : x.key = k}}
  <2>4. Claims' = claims /\ aliases' = kept
    BY <1>1, <2>1, SameClaims
  <2>5. ClaimedAliases(Claims)' =
          [k \in Keys |-> IF owner(k) = {} \/ owner(k) = {kept[k].target} THEN kept[k]
                          ELSE [target |-> CHOOSE m \in owner(k) : TRUE, seeded |-> TRUE]]
    BY <2>4 DEF ClaimedAliases
  <2>6. \A k \in Keys : owner(k) = {} \/ owner(k) = {kept[k].target}
    BY <2>2
  <2> HIDE DEF owner
  <2>7. ClaimedAliases(Claims)' = [k \in Keys |-> kept[k]]
    BY <2>5, <2>6
  <2> QED BY <2>3, <2>4, <2>7
<1>4. yaml'.orgs \cup PrefixOrgsUsed(Upserted)' \subseteq orgs' /\ draftOrgs' \cap yaml'.orgs = {}
  BY <1>1, <1>2
<1> QED BY <1>1, <1>2, <1>3, <1>4 DEF Seeded

\* A seed, pruning or not, keeps the invariant.
LEMMA SeedKeeps ==
  ASSUME IInv, NEW prune \in BOOLEAN, Seed(prune)
  PROVE  IInv'
<1> DEFINE D == DOMAIN models \cup Listed
           org == DeveloperOf(Upserted)
           allOrgs == orgs \cup yaml.orgs \cup PrefixOrgsUsed(Upserted)
<1>1. PICK claims \in {Claims}, derived \in {Derived(Upserted)} :
        \E claimed \in {ClaimedAliases(claims)} :
        \E kept \in {IF prune /\ Listed # {} THEN KeptAliases(claimed, claims) ELSE claimed} :
          LET goneOrgs == IF prune /\ yaml.orgs # {} THEN StaleOrgs(derived, allOrgs) ELSE {}
              goneModels == IF prune /\ Listed # {} THEN StaleModels(derived, kept) ELSE {}
          IN /\ Unambiguous(claims)
             /\ models' = [m \in DOMAIN derived \ goneModels |-> derived[m]]
             /\ orgs' = allOrgs \ goneOrgs
             /\ draftOrgs' = draftOrgs \ yaml.orgs
             /\ aliases' = [k \in Keys |-> IF kept[k].target \in goneModels THEN NoAlias ELSE kept[k]]
  BY DEF Seed
<1>2. PICK kept \in {IF prune /\ Listed # {} THEN KeptAliases(ClaimedAliases(claims), claims)
                     ELSE ClaimedAliases(claims)} :
          LET goneOrgs == IF prune /\ yaml.orgs # {} THEN StaleOrgs(derived, allOrgs) ELSE {}
              goneModels == IF prune /\ Listed # {} THEN StaleModels(derived, kept) ELSE {}
          IN /\ Unambiguous(claims)
             /\ models' = [m \in DOMAIN derived \ goneModels |-> derived[m]]
             /\ orgs' = allOrgs \ goneOrgs
             /\ draftOrgs' = draftOrgs \ yaml.orgs
             /\ aliases' = [k \in Keys |-> IF kept[k].target \in goneModels THEN NoAlias ELSE kept[k]]
  BY <1>1
<1>3. PICK goneOrgs, gone :
        /\ goneOrgs \subseteq StaleOrgs(derived, allOrgs) /\ gone \subseteq StaleModels(derived, kept)
        /\ models' = [m \in DOMAIN derived \ gone |-> derived[m]] /\ orgs' = allOrgs \ goneOrgs
        /\ draftOrgs' = draftOrgs \ yaml.orgs
        /\ aliases' = [k \in Keys |-> IF kept[k].target \in gone THEN NoAlias ELSE kept[k]]
  BY <1>2
<1>4. UNCHANGED <<yaml, cited, edits, syncs>> /\ last' \in {"seed", "prune"}
  BY DEF Seed
<1>5. Typed /\ ReferencesClosed /\ Curated /\ WellFormed(yaml)
  BY DEF IInv, Typed
<1>6. /\ Upserted \in [D -> Rows] /\ D \in SUBSET Models
      /\ \A m \in D : Upserted[m].org \in orgs \cup yaml.orgs \cup {NoOrg}
  BY <1>5, UpsertedFacts
<1>7. /\ derived \in [D -> Rows]
      /\ \A m \in D :
           /\ derived[m].org = org[m]
           /\ derived[m].group \in D /\ org[derived[m].group] = org[m]
           /\ derived[m].family \in D /\ org[derived[m].family] = org[m]
           /\ \E x \in D : derived[m].originOrg = org[x]
  <2>1. PICK E \in SUBSET Models : E = D
    BY <1>6
  <2>2. PICK rows \in [E -> Rows] : rows = Upserted /\ derived = Derived(rows)
    BY <1>6, <2>1
  <2>3. PICK of : of = DeveloperOf(rows)
    OBVIOUS
  <2>4. /\ Derived(rows) \in [E -> Rows]
        /\ \A m \in E :
             /\ Derived(rows)[m].org = of[m]
             /\ Derived(rows)[m].group \in E /\ of[Derived(rows)[m].group] = of[m]
             /\ Derived(rows)[m].family \in E /\ of[Derived(rows)[m].family] = of[m]
             /\ \E x \in E : Derived(rows)[m].originOrg = of[x]
    BY <2>3, DerivedFacts
  <2>5. org = of
    BY <2>2, <2>3
  <2> HIDE DEF D, org
  <2> QED BY <2>1, <2>2, <2>4, <2>5
<1>8. \A m \in D : org[m] \in allOrgs \cup {NoOrg}
  BY <1>6 DEF DeveloperOf, PrefixOrgsUsed
<1>9. allOrgs \subseteq Orgs
  BY <1>5, <1>6, ModelsAssumption DEF PrefixOrgsUsed, Typed, WellFormed
<1>10. /\ kept \in [Keys -> [target : Models \cup {NoModel}, seeded : BOOLEAN]]
       /\ \A k \in Keys : kept[k].target = NoModel => kept[k] = NoAlias
       /\ \A k \in Keys : kept[k].target \in Listed \cup {aliases[k].target, NoModel}
       /\ \A c \in claims : kept[c.key].target = c.target
  <2>1. PICK p \in BOOLEAN : p = (prune /\ Listed # {})
    OBVIOUS
  <2>2. kept = IF p THEN KeptAliases(ClaimedAliases(claims), claims) ELSE ClaimedAliases(claims)
    BY <2>1
  <2>3. claims = Claims /\ Unambiguous(claims)
    BY <1>2
  <2> QED BY <1>5, <2>2, <2>3, AliasFacts
<1>11. gone \cap Listed = {} /\ gone \subseteq Models /\ NoModel \notin gone
  BY <1>3, <1>6, <1>7, ModelsAssumption DEF StaleModels, NoModel
<1> HIDE DEF D, org, allOrgs
<1>12. DOMAIN models' = D \ gone /\ \A m \in D \ gone : models'[m] = derived[m]
  BY <1>3, <1>7
<1>13. /\ aliases' \in [Keys -> [target : Models \cup {NoModel}, seeded : BOOLEAN]]
       /\ \A k \in Keys : aliases'[k].target = NoModel => aliases'[k] = NoAlias
       /\ \A k \in Keys : aliases'[k].target \in ((Listed \cup {aliases[k].target}) \ gone) \cup {NoModel}
       /\ \A c \in claims : aliases'[c.key].target = c.target
  <2>1. NoAlias \in [target : Models \cup {NoModel}, seeded : BOOLEAN] /\ NoAlias.target = NoModel
    BY DEF NoAlias
  <2>2. \A c \in claims : c.key \in Keys /\ c.target \notin gone
    BY <1>5, <1>11, ClaimsFacts
  <2> QED BY <1>3, <1>10, <2>1, <2>2
<1>14. Typed'
  <2>1. models' \in [DOMAIN models' -> Rows] /\ DOMAIN models' \subseteq Models
    BY <1>3, <1>6, <1>7, <1>12 DEF D
  <2>2. draftOrgs' \subseteq orgs' /\ orgs' \subseteq Orgs
    BY <1>3, <1>5, <1>9 DEF Typed, allOrgs, StaleOrgs
  <2> QED BY <1>4, <1>5, <1>13, <2>1, <2>2 DEF Typed, WellFormed
<1>15. ReferencesClosed'
  <2>1. ASSUME NEW k \in Keys PROVE aliases'[k].target \in DOMAIN models' \cup {NoModel}
    BY <1>5, <1>12, <1>13 DEF ReferencesClosed, D
  <2>2. ASSUME NEW m \in DOMAIN models'
        PROVE  {models'[m].org, models'[m].originOrg} \subseteq orgs' \cup {NoOrg}
    <3>1. m \in D /\ models'[m] = derived[m] /\ m \in DOMAIN derived
      BY <1>7, <1>12
    <3>2. {derived[m].org, derived[m].originOrg} \subseteq allOrgs \cup {NoOrg}
      BY <1>7, <1>8, <3>1
    <3>3. {derived[m].org, derived[m].originOrg} \cap goneOrgs = {}
      BY <1>3, <3>1 DEF StaleOrgs
    <3> QED BY <1>3, <3>1, <3>2, <3>3
  <2> QED BY <2>1, <2>2 DEF ReferencesClosed
<1>16. Curated'
  BY <1>4, <1>5
     DEF Curated, LabClaimants, Claimants, IsLab, DevOf, Confirmed, Entry, Listed
<1>17. OneDeveloper'
  <2> SUFFICES ASSUME NEW m \in DOMAIN models',
                      NEW root \in {models'[m].group, models'[m].family} \cap DOMAIN models'
               PROVE  models'[root].org = models'[m].org
    BY DEF OneDeveloper
  <2>1. /\ m \in D \ gone /\ models'[m] = derived[m]
        /\ root \in D \ gone /\ models'[root] = derived[root]
    BY <1>12
  <2>2. root \in {derived[m].group, derived[m].family}
    BY <2>1
  <2>3. derived[m].org = org[m] /\ derived[root].org = org[root] /\ org[root] = org[m]
    BY <1>7, <2>1, <2>2
  <2> QED BY <2>1, <2>3
<1>18. NamesFollowCuration'
  <2> SUFFICES ASSUME NEW m \in Listed
               PROVE  /\ aliases'[<<m, "global">>].target = m
                      /\ \A name \in Entry(m).names :
                           LET owner == aliases'[<<name, "global">>].target IN
                           /\ owner \in Listed
                           /\ \A l \in LabClaimants(name) :
                                owner = l \/ (IsLab(owner) /\ DevOf(owner) # DevOf(l))
                      /\ \A name \in Entry(m).scoped : aliases'[<<name, "config">>].target = m
    BY <1>4, NamesFollow
  <2>1. /\ [key |-> <<m, "global">>, target |-> m] \in claims
        /\ \A name \in Entry(m).names :
             [key |-> <<name, "global">>, target |-> Target(m, name)] \in claims
        /\ \A name \in Entry(m).scoped : [key |-> <<name, "config">>, target |-> m] \in claims
    BY <1>5, ClaimsFacts
  <2>2. /\ aliases'[<<m, "global">>].target = m
        /\ \A name \in Entry(m).names : aliases'[<<name, "global">>].target = Target(m, name)
        /\ \A name \in Entry(m).scoped : aliases'[<<name, "config">>].target = m
    BY <1>13, <2>1
  <2>3. ASSUME NEW name \in Entry(m).names
        PROVE  /\ Target(m, name) \in Listed
               /\ \A l \in LabClaimants(name) :
                    Target(m, name) = l
                      \/ (IsLab(Target(m, name)) /\ DevOf(Target(m, name)) # DevOf(l))
    <3>1. name \in Names
      BY <1>5, EntryFacts
    <3> QED BY <1>5, <3>1, TargetFacts, OwnerOfName
  <2> QED BY <2>2, <2>3
<1>19. Seeded'
  <2>1. CASE prune
    BY <2>1 DEF Seed, Seeded
  <2>2. CASE ~prune
    <3>1. prune = FALSE
      BY <2>2
    <3>2. Seed(FALSE)
      BY <3>1
    <3> QED BY <1>5, <3>2, SeedSettles
  <2> QED BY <2>1, <2>2
<1> QED BY <1>14, <1>15, <1>16, <1>17, <1>18, <1>19 DEF IInv
-----------------------------------------------------------------------------
(* The steps between seeds.                                                 *)

\* A sync that resolves by an alias cites a registered model.
LEMMA SyncKnownKeeps ==
  ASSUME IInv, NEW raw \in Raws, SyncKnown(raw)
  PROVE  IInv'
<1>1. Typed /\ ReferencesClosed /\ Curated
  BY DEF IInv
<1>2. UNCHANGED <<yaml, models, orgs, draftOrgs, aliases, last, edits>>
  BY DEF SyncKnown, tables
<1>3. PICK k \in Keys : aliases[k] # NoAlias /\ cited' = cited \cup {aliases[k].target}
  <2>1. \A s \in Scopes : <<raw, s>> \in Keys
    BY DEF Keys
  <2> QED BY <2>1 DEF SyncKnown, Scopes
<1>4. syncs < MaxSyncs /\ syncs' = syncs + 1
  BY DEF SyncKnown
<1>5. Typed'
  <2>1. aliases[k].target \in Models
    BY <1>1, <1>3 DEF Typed
  <2>2. syncs' \in 0 .. MaxSyncs
    BY <1>1, <1>4, SeedAssumption DEF Typed
  <2> QED BY <1>1, <1>2, <1>3, <2>1, <2>2 DEF Typed, WellFormed
<1>6. ReferencesClosed' /\ OneDeveloper'
  BY <1>1, <1>2 DEF ReferencesClosed, OneDeveloper, Derivation, IInv
<1>7. Curated' /\ NamesFollowCuration'
  BY <1>1, <1>2, SameNames DEF IInv
<1>8. Seeded'
  BY <1>2, SameSeeded DEF IInv
<1> QED BY <1>5, <1>6, <1>7, <1>8 DEF IInv

\* A sync that finds a model writes an alias of it, and repoints none.
LEMMA SyncMatchedKeeps ==
  ASSUME IInv, NEW name \in Names, NEW m \in Models, SyncMatched(name, m)
  PROVE  IInv'
<1>1. Typed /\ ReferencesClosed /\ Curated
  BY DEF IInv
<1>2. UNCHANGED <<yaml, models, orgs, draftOrgs, edits>> /\ last' = "other"
  BY DEF SyncMatched
<1>3. /\ m \in DOMAIN models /\ cited' = cited \cup {m}
      /\ aliases' = [aliases EXCEPT ![<<name, "config">>] = [target |-> m, seeded |-> FALSE]]
  BY DEF SyncMatched
<1>4. /\ aliases' \in [Keys -> [target : Models \cup {NoModel}, seeded : BOOLEAN]]
      /\ \A k \in Keys : aliases'[k] \in {aliases[k], [target |-> m, seeded |-> FALSE]}
  BY <1>1, <1>3 DEF Typed
<1>5. Typed'
  <2>1. syncs' \in 0 .. MaxSyncs
    BY <1>1, SeedAssumption DEF Typed, SyncMatched
  <2>2. \A k \in Keys : aliases'[k].target = NoModel => aliases'[k] = NoAlias
    BY <1>1, <1>4, ModelsAssumption DEF Typed, NoModel
  <2> QED BY <1>1, <1>2, <1>3, <1>4, <2>1, <2>2 DEF Typed, WellFormed
<1>6. ReferencesClosed' /\ OneDeveloper'
  BY <1>1, <1>2, <1>3, <1>4 DEF ReferencesClosed, OneDeveloper, Derivation
<1>7. Curated' /\ NamesFollowCuration' /\ Seeded'
  BY <1>1, <1>2, SameYaml DEF Curated, NamesFollowCuration, Seeded, Derivation
<1> QED BY <1>5, <1>6, <1>7 DEF IInv

\* A draft is registered with its organisation and its alias at once.
LEMMA SyncDraftKeeps ==
  ASSUME IInv, NEW m \in Drafts, NEW confirmed \in BOOLEAN, NEW edges \in DraftEdges,
         SyncDraft(m, confirmed, edges)
  PROVE  IInv'
<1>1. Typed /\ ReferencesClosed /\ Curated
  BY DEF IInv
<1>2. UNCHANGED <<yaml, edits>> /\ last' = "other" /\ cited' = cited \cup {m}
  BY DEF SyncDraft
<1>3. m \in Models /\ edges \in SUBSET [id : Models, kind : Kinds] /\ PrefixOrg[m] \in Orgs \cup {NoOrg}
  BY SeedAssumption, ModelsAssumption
<1>4. PICK row \in Rows :
        /\ row.org = PrefixOrg[m] /\ row.originOrg = NoOrg
        /\ models' = [x \in DOMAIN models \cup {m} |-> IF x = m THEN row ELSE models[x]]
  <2>1. PICK row : row = [NewRow EXCEPT !.parents = edges, !.org = PrefixOrg[m], !.reviewed = confirmed]
    OBVIOUS
  <2>2. row \in Rows /\ row.org = PrefixOrg[m] /\ row.originOrg = NoOrg
    BY <1>3, <2>1 DEF NewRow, Rows, Openness
  <2> QED BY <2>1, <2>2 DEF SyncDraft
<1>5. orgs' = orgs \cup ({PrefixOrg[m]} \ {NoOrg})
      /\ draftOrgs' = IF confirmed THEN draftOrgs ELSE draftOrgs \cup (orgs' \ orgs)
  BY DEF SyncDraft
<1>6. /\ aliases' \in [Keys -> [target : Models \cup {NoModel}, seeded : BOOLEAN]]
      /\ \A k \in Keys : aliases'[k] \in {aliases[k], [target |-> m, seeded |-> FALSE]}
  BY <1>1, <1>3 DEF Typed, SyncDraft
<1>7. Typed'
  <2>1. syncs' \in 0 .. MaxSyncs
    BY <1>1, SeedAssumption DEF Typed, SyncDraft
  <2>2. \A k \in Keys : aliases'[k].target = NoModel => aliases'[k] = NoAlias
    BY <1>1, <1>3, <1>6, ModelsAssumption DEF Typed, NoModel
  <2>3. models' \in [DOMAIN models' -> Rows] /\ DOMAIN models' \subseteq Models
    BY <1>1, <1>3, <1>4 DEF Typed
  <2>4. draftOrgs' \subseteq orgs' /\ orgs' \subseteq Orgs
    BY <1>1, <1>3, <1>5 DEF Typed
  <2> QED BY <1>1, <1>2, <1>3, <1>6, <2>1, <2>2, <2>3, <2>4 DEF Typed, WellFormed
<1>8. ReferencesClosed' /\ OneDeveloper'
  <2>1. \A k \in Keys : aliases'[k].target \in DOMAIN models' \cup {NoModel}
    BY <1>1, <1>4, <1>6 DEF ReferencesClosed
  <2>2. \A x \in DOMAIN models' : {models'[x].org, models'[x].originOrg} \subseteq orgs' \cup {NoOrg}
    BY <1>1, <1>4, <1>5 DEF ReferencesClosed
  <2> QED BY <1>2, <2>1, <2>2 DEF ReferencesClosed, OneDeveloper, Derivation
<1>9. Curated' /\ NamesFollowCuration' /\ Seeded'
  BY <1>1, <1>2, SameYaml DEF Curated, NamesFollowCuration, Seeded, Derivation
<1> QED BY <1>7, <1>8, <1>9 DEF IInv

(* An edit that leaves the developers of the entries it keeps as they were  *)
(* passes the gate.                                                         *)
LEMMA EditKeeps ==
  ASSUME IInv, NEW entries, NEW listedOrgs, Edit(entries, listedOrgs),
         entries \in [DOMAIN entries -> Entries], DOMAIN entries \subseteq Listed,
         listedOrgs \subseteq yaml.orgs,
         \A m \in DOMAIN entries :
           /\ entries[m].org = Entry(m).org /\ entries[m].org \in listedOrgs \cup {NoOrg}
           /\ "org" \in entries[m].absent <=> "org" \in Entry(m).absent
           /\ entries[m].reviewed = Entry(m).reviewed
  PROVE  IInv'
<1>1. Typed /\ ReferencesClosed /\ Curated
  BY DEF IInv
<1>2. /\ yaml'.entries = entries /\ yaml'.orgs = listedOrgs /\ last' = "other" /\ edits' = edits + 1
      /\ edits < MaxEdits /\ UNCHANGED <<models, orgs, draftOrgs, aliases, cited, syncs>>
  BY DEF Edit, tables
<1>3. Typed'
  <2>1. WellFormed(yaml)'
    BY <1>1, <1>2 DEF WellFormed, Listed, Typed
  <2>2. edits' \in 0 .. MaxEdits
    BY <1>1, <1>2, SeedAssumption DEF Typed
  <2> QED BY <1>1, <1>2, <2>1, <2>2 DEF Typed
<1>4. Listed' = DOMAIN entries /\ \A m \in DOMAIN entries : m \in Listed /\ Entry(m)' = entries[m]
  BY <1>2 DEF Listed, Entry
<1>5. \A m \in DOMAIN entries :
        DevOf(m)' = DevOf(m) /\ Confirmed(m)' = Confirmed(m) /\ (IsLab(m)' => IsLab(m))
  <2>1. \A m \in DOMAIN entries : DevOf(m)' = DevOf(m)
    BY <1>4 DEF DevOf
  <2>2. \A m \in DOMAIN entries : Confirmed(m)' = Confirmed(m)
    BY <1>4 DEF Confirmed
  <2>3. \A m \in DOMAIN entries : IsLab(m)' => IsLab(m)
    BY <1>2, <2>1 DEF IsLab
  <2> QED BY <2>1, <2>2, <2>3
<1>6. \A name : LabClaimants(name)' \subseteq LabClaimants(name)
  BY <1>4, <1>5 DEF LabClaimants, Claimants
<1>7. Curated'
  <2>1. \A m \in Listed' : Entry(m)'.org \in yaml'.orgs \cup {NoOrg}
    BY <1>2, <1>4
  <2>2. \A name \in Names : \A l, k \in LabClaimants(name)' : l = k
    BY <1>1, <1>6 DEF Curated
  <2> QED BY <2>1, <2>2 DEF Curated
<1>8. ReferencesClosed' /\ OneDeveloper' /\ NamesFollowCuration' /\ Seeded'
  BY <1>1, <1>2 DEF ReferencesClosed, OneDeveloper, NamesFollowCuration, Seeded, Derivation
<1> QED BY <1>3, <1>7, <1>8 DEF IInv

\* An edit of the YAML changes no table, and the next seed is due.
LEMMA EditsKeep ==
  ASSUME IInv,
         \/ \E m \in Models : DropModel(m) \/ Close(m)
         \/ \E o \in Orgs : DropOrg(o)
         \/ \E name \in Names, m \in Models : MoveName(name, m)
  PROVE  IInv'
<1>1. /\ yaml.entries \in [Listed -> Entries] /\ yaml.orgs \subseteq Orgs
      /\ \A x \in Listed : Entry(x) = yaml.entries[x] /\ Entry(x) \in Entries
      /\ \A x \in Listed : Entry(x).org \in yaml.orgs \cup {NoOrg}
  BY DEF IInv, Typed, WellFormed, Curated, Listed, Entry
<1>2. ASSUME NEW m \in Models, DropModel(m) PROVE IInv'
  <2>1. PICK entries : entries = [x \in Listed \ {m} |-> Entry(x)] /\ Edit(entries, yaml.orgs)
    BY <1>2 DEF DropModel
  <2>2. /\ entries \in [DOMAIN entries -> Entries] /\ DOMAIN entries \subseteq Listed
        /\ \A x \in DOMAIN entries : entries[x] = Entry(x)
    BY <1>1, <2>1
  <2> QED BY <1>1, <2>1, <2>2, EditKeeps
<1>3. ASSUME NEW m \in Models, Close(m) PROVE IInv'
  <2>1. PICK closed : closed = [Entry(m) EXCEPT !.open = "closed", !.absent = @ \ {"open"}]
    OBVIOUS
  <2>2. PICK entries : entries = [yaml.entries EXCEPT ![m] = closed] /\ Edit(entries, yaml.orgs)
    BY <1>3, <2>1 DEF Close, Entry
  <2>3. m \in Listed
    BY <1>3 DEF Close
  <2>4. /\ closed \in Entries /\ closed.org = Entry(m).org /\ closed.reviewed = Entry(m).reviewed
        /\ "org" \in closed.absent <=> "org" \in Entry(m).absent
    BY <1>1, <2>1, <2>3 DEF Entries, Openness
  <2>5. /\ entries \in [DOMAIN entries -> Entries] /\ DOMAIN entries = Listed
        /\ \A x \in DOMAIN entries : entries[x] = IF x = m THEN closed ELSE Entry(x)
    BY <1>1, <2>2, <2>3, <2>4
  <2> QED BY <1>1, <2>2, <2>4, <2>5, EditKeeps
<1>4. ASSUME NEW o \in Orgs, DropOrg(o) PROVE IInv'
  <2>1. PICK entries, listedOrgs : /\ entries = yaml.entries /\ listedOrgs = yaml.orgs \ {o}
                                   /\ Edit(entries, listedOrgs)
    BY <1>4 DEF DropOrg
  <2>2. \A x \in Listed : Entry(x).org \in listedOrgs \cup {NoOrg}
    BY <1>1, <1>4, <2>1 DEF DropOrg
  <2>3. DOMAIN entries = Listed /\ entries \in [DOMAIN entries -> Entries]
    BY <1>1, <2>1
  <2> QED BY <1>1, <2>1, <2>2, <2>3, EditKeeps
<1>5. ASSUME NEW name \in Names, NEW m \in Models, MoveName(name, m) PROVE IInv'
  <2>1. PICK entries :
          /\ entries = [x \in Listed |->
               [Entry(x) EXCEPT !.names = IF x = m THEN @ \cup {name} ELSE @ \ {name}]]
          /\ Edit(entries, yaml.orgs)
    BY <1>5 DEF MoveName
  <2>2. ASSUME NEW x \in Listed
        PROVE  /\ entries[x] \in Entries /\ entries[x].org = Entry(x).org
               /\ entries[x].absent = Entry(x).absent /\ entries[x].reviewed = Entry(x).reviewed
    <3>1. PICK e \in Entries : e = Entry(x)
      BY <1>1
    <3>2. PICK names : names = IF x = m THEN e.names \cup {name} ELSE e.names \ {name}
      OBVIOUS
    <3>3. entries[x] = [e EXCEPT !.names = names]
      BY <2>1, <3>1, <3>2
    <3>4. names \in SUBSET Names
      BY <3>1, <3>2 DEF Entries
    <3> QED BY <3>1, <3>3, <3>4 DEF Entries
  <2>3. DOMAIN entries = Listed /\ entries \in [DOMAIN entries -> Entries]
    BY <2>1, <2>2
  <2> QED BY <1>1, <2>1, <2>2, <2>3, EditKeeps
<1> QED BY <1>2, <1>3, <1>4, <1>5

\* A step that changes nothing keeps the invariant.
LEMMA StutterKeeps ==
  ASSUME IInv, UNCHANGED vars
  PROVE  IInv'
<1>1. Typed /\ ReferencesClosed /\ Curated
  BY DEF IInv
<1>2. UNCHANGED <<yaml, models, orgs, draftOrgs, aliases, cited, last, edits, syncs>>
  BY DEF vars, tables
<1>3. Typed' /\ ReferencesClosed' /\ OneDeveloper'
  BY <1>1, <1>2 DEF Typed, WellFormed, ReferencesClosed, OneDeveloper, Derivation, IInv
<1>4. Curated' /\ NamesFollowCuration'
  BY <1>1, <1>2, SameNames DEF IInv
<1>5. Seeded'
  BY <1>2, SameSeeded DEF IInv
<1> QED BY <1>3, <1>4, <1>5 DEF IInv
-----------------------------------------------------------------------------
\* The empty registry satisfies the invariant.
LEMMA InitHolds == Init => IInv
<1> SUFFICES ASSUME Init PROVE IInv
  OBVIOUS
<1>1. Typed
  BY SeedAssumption DEF Init, Typed, NoAlias
<1>2. ReferencesClosed /\ Curated
  BY DEF Init, ReferencesClosed, NoAlias
<1>3. OneDeveloper /\ NamesFollowCuration /\ Seeded
  BY DEF Init, OneDeveloper, NamesFollowCuration, Seeded, Derivation
<1> QED BY <1>1, <1>2, <1>3 DEF IInv

\* Every step keeps the invariant.
LEMMA NextKeeps == IInv /\ [Next]_vars => IInv'
<1> SUFFICES ASSUME IInv, [Next]_vars PROVE IInv'
  OBVIOUS
<1>1. ASSUME NEW prune \in BOOLEAN, Seed(prune) PROVE IInv'
  BY <1>1, SeedKeeps
<1>2. ASSUME NEW raw \in Raws, SyncKnown(raw) PROVE IInv'
  BY <1>2, SyncKnownKeeps
<1>3. ASSUME NEW name \in Names, NEW m \in Models, SyncMatched(name, m) PROVE IInv'
  BY <1>3, SyncMatchedKeeps
<1>4. ASSUME NEW m \in Drafts, NEW confirmed \in BOOLEAN, NEW edges \in DraftEdges,
             SyncDraft(m, confirmed, edges)
      PROVE  IInv'
  BY <1>4, SyncDraftKeeps
<1>5. CASE \/ \E m \in Models : DropModel(m) \/ Close(m)
           \/ \E o \in Orgs : DropOrg(o)
           \/ \E name \in Names, m \in Models : MoveName(name, m)
  BY <1>5, EditsKeep
<1>6. CASE UNCHANGED vars
  BY <1>6, StutterKeeps
<1> QED BY <1>1, <1>2, <1>3, <1>4, <1>5, <1>6 DEF Next

(* Over any snapshots, edits, drafts and inferred edges the invariant holds. *)
THEOREM Invariance == Spec => []IInv
<1>1. Init => IInv
  BY InitHolds
<1>2. IInv /\ [Next]_vars => IInv'
  BY NextKeeps
<1> QED BY <1>1, <1>2, PTL DEF Spec

(* Seed, prune, syncs and edits keep the tables' columns and references:    *)
(* no alias names a deleted model and no model a deleted organisation.      *)
THEOREM TypeCorrect == Spec => []TypeOK
<1>1. IInv => TypeOK
  BY DEF IInv, Typed, TypeOK
<1> QED BY <1>1, Invariance, PTL

(* After a seed every listed id and claimed name is an alias of a listed    *)
(* model, and a lab model's leaf names it or a model of another lab.        *)
THEOREM NamesFollowCurationHolds == Spec => []NamesFollowCuration
<1>1. IInv => NamesFollowCuration
  BY DEF IInv
<1> QED BY <1>1, Invariance, PTL

(* Whatever the parent edges, cycles and missing parents included, no seed  *)
(* puts a model into a group or family of another developer, and over a     *)
(* curated graph groups nest in families and origins are origins.           *)
THEOREM HierarchySoundHolds == Spec => []HierarchySound
<1>1. ASSUME IInv PROVE HierarchyNests
  <2> SUFFICES ASSUME last = "seed", IsTree(models), NEW m \in DOMAIN models
               PROVE  /\ models[models[m].group].group = models[m].group
                      /\ models[models[m].family].family = models[m].family
                      /\ models[models[m].group].family = models[m].family
                      /\ models[m].origin # NoModel => models[models[m].origin].origin = NoModel
    BY DEF HierarchyNests
  <2>1. Typed /\ ReferencesClosed /\ Curated /\ models = Derived(Upserted)
    BY <1>1 DEF IInv, Seeded
  <2>2. PICK D \in SUBSET Models : D = DOMAIN models \cup Listed
    BY <2>1, UpsertedFacts
  <2>3. PICK rows \in [D -> Rows] : rows = Upserted
    BY <2>1, <2>2, UpsertedFacts
  <2>4. PICK derived : derived = Derived(rows) /\ derived = models
    BY <2>1, <2>3
  <2>5. IsTree(derived) /\ derived \in [D -> Rows] /\ m \in D
    <3>1. Derived(rows) \in [D -> Rows]
      BY DerivedColumns
    <3> QED BY <2>4, <3>1
  <2>6. /\ derived[derived[m].group].group = derived[m].group
        /\ derived[derived[m].family].family = derived[m].family
        /\ derived[derived[m].group].family = derived[m].family
        /\ derived[m].origin # NoModel => derived[derived[m].origin].origin = NoModel
    BY <2>4, <2>5, DerivedNests
  <2> QED BY <2>4, <2>6
<1>2. IInv => HierarchySound
  BY <1>1 DEF IInv, HierarchySound
<1> QED BY <1>2, Invariance, PTL

(* A second seed of the same YAML, with lookups but no pruning in between,  *)
(* changes no table: what the first derived, inherited and redirected is    *)
(* not read back as something else.                                         *)
THEOREM ReseedChangesNothingHolds == Spec => ReseedChangesNothing
<1>1. ASSUME IInv, [Next]_vars, last = "seed", last' = "seed"
      PROVE  UNCHANGED tables
  <2>1. ASSUME NEW prune \in BOOLEAN, Seed(prune) PROVE UNCHANGED tables
    <3>1. prune = FALSE
      BY <1>1, <2>1 DEF Seed
    <3>2. Seed(FALSE) /\ Typed /\ Seeded
      BY <1>1, <2>1, <3>1 DEF IInv
    <3>3. models' = models /\ aliases' = aliases /\ orgs' = orgs /\ draftOrgs' = draftOrgs
      BY <1>1, <3>2, PlainSeed DEF Seeded
    <3> QED BY <3>3 DEF tables
  <2>2. CASE \E raw \in Raws : SyncKnown(raw)
    BY <2>2 DEF SyncKnown
  <2>3. CASE \/ \E name \in Names, m \in Models : SyncMatched(name, m)
             \/ \E m \in Drafts, confirmed \in BOOLEAN :
                  \E edges \in DraftEdges : SyncDraft(m, confirmed, edges)
    BY <1>1, <2>3 DEF SyncMatched, SyncDraft
  <2>4. CASE \/ \E m \in Models : DropModel(m) \/ Close(m)
             \/ \E o \in Orgs : DropOrg(o)
             \/ \E name \in Names, m \in Models : MoveName(name, m)
    BY <2>4 DEF DropModel, Close, DropOrg, MoveName, Edit
  <2>5. CASE UNCHANGED vars
    BY <2>5 DEF vars
  <2> QED BY <1>1, <2>1, <2>2, <2>3, <2>4, <2>5 DEF Next
<1>2. IInv /\ [Next]_vars => [last = "seed" /\ last' = "seed" => UNCHANGED tables]_vars
  BY <1>1
<1> QED BY <1>2, Invariance, PTL DEF Spec, ReseedChangesNothing
=============================================================================
