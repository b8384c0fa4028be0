----------------------- MODULE ModelsDevRefreshProofs -----------------------
(***************************************************************************)
(* The models.dev job for any vocabulary, days, sources and committed files *)
(***************************************************************************)
EXTENDS ModelsDevRefresh, FiniteSetTheorems, SequenceTheorems, NaturalsInduction,
        WellFoundedInduction, TLAPS

-----------------------------------------------------------------------------
(* Choices: the least and the greatest of a set, and a set in order.        *)

\* A set of numbers has a least one.
LEMMA LeastExists ==
  ASSUME NEW S, S \subseteq Nat, S # {}
  PROVE  \E n \in S : \A k \in S : n <= k
<1>1. PICK n \in S : \A k \in S : <<k, n>> \notin OpToRel(<, Nat)
  BY NatLessThanWellFounded, WFMin
<1>2. \A k \in S : ~(k < n)
  BY <1>1 DEF OpToRel
<1> QED BY <1>2

\* First is the least number.
LEMMA FirstFacts ==
  ASSUME NEW S, S \subseteq Nat, S # {}
  PROVE  First(S) \in S /\ \A k \in S : First(S) <= k
BY LeastExists DEF First

\* Something has the least rank.
LEMMA LeastBy ==
  ASSUME NEW S, S # {}, NEW r, \A x \in S : r[x] \in Nat
  PROVE  \E x \in S : \A y \in S : r[x] <= r[y]
<1>1. PICK n \in {r[x] : x \in S} : \A k \in {r[x] : x \in S} : n <= k
  BY LeastExists
<1> QED BY <1>1

\* How many elements of S have a lower rank than x, and how many a higher.
Below(S, r, x) == Cardinality({y \in S : r[y] < r[x]})
Above(S, r, x) == Cardinality({y \in S : r[x] < r[y]})

\* The counts are numbers, and grow with the rank.
LEMMA CountFacts ==
  ASSUME NEW S, IsFiniteSet(S), NEW r, \A x \in S : r[x] \in Nat
  PROVE  /\ \A x \in S : /\ Below(S, r, x) \in Nat /\ Above(S, r, x) \in Nat
                         /\ Below(S, r, x) < Cardinality(S)
         /\ \A x, y \in S : r[x] < r[y] => /\ Below(S, r, x) < Below(S, r, y)
                                           /\ Above(S, r, y) < Above(S, r, x)
<1>1. ASSUME NEW A, A \subseteq S, NEW B, A \subseteq B, B \subseteq S, NEW z \in B, z \notin A
      PROVE  /\ Cardinality(A) \in Nat /\ Cardinality(B) \in Nat
             /\ Cardinality(A) < Cardinality(B)
  <2>1. IsFiniteSet(A) /\ IsFiniteSet(B) /\ A # B
    BY <1>1, FS_Subset
  <2> QED BY <1>1, <2>1, FS_Subset, FS_CardinalityType
<1>2. ASSUME NEW A, A \subseteq S
      PROVE  Cardinality(A) \in Nat
  BY <1>2, FS_Subset, FS_CardinalityType
<1>3. ASSUME NEW x \in S
      PROVE  Below(S, r, x) \in Nat /\ Above(S, r, x) \in Nat /\ Below(S, r, x) < Cardinality(S)
  <2> DEFINE A == {y \in S : r[y] < r[x]}
             B == {y \in S : r[x] < r[y]}
  <2>1. A \subseteq S /\ x \notin A /\ B \subseteq S
    OBVIOUS
  <2> HIDE DEF A, B
  <2>2. Cardinality(A) \in Nat /\ Cardinality(B) \in Nat /\ Cardinality(A) < Cardinality(S)
    BY <1>1, <1>2, <2>1
  <2> QED BY <2>2 DEF Below, Above, A, B
<1>4. ASSUME NEW x \in S, NEW y \in S, r[x] < r[y]
      PROVE  Below(S, r, x) < Below(S, r, y) /\ Above(S, r, y) < Above(S, r, x)
  <2> DEFINE A == {z \in S : r[z] < r[x]}
             B == {z \in S : r[z] < r[y]}
             C == {z \in S : r[y] < r[z]}
             D == {z \in S : r[x] < r[z]}
  <2>1. A \subseteq S /\ A \subseteq B /\ B \subseteq S /\ x \in B /\ x \notin A
    BY <1>4
  <2>2. C \subseteq S /\ C \subseteq D /\ D \subseteq S /\ y \in D /\ y \notin C
    BY <1>4
  <2> HIDE DEF A, B, C, D
  <2>3. Cardinality(A) < Cardinality(B)
    BY <1>1, <2>1
  <2>4. Cardinality(C) < Cardinality(D)
    BY <1>1, <2>2
  <2> QED BY <2>3, <2>4 DEF Below, Above, A, B, C, D
<1> QED BY <1>3, <1>4

\* Of finitely many things, one has the greatest rank: there are the fewest
\* above it.
LEMMA GreatestBy ==
  ASSUME NEW S, IsFiniteSet(S), S # {}, NEW r, \A x \in S : r[x] \in Nat
  PROVE  \E x \in S : \A y \in S : r[y] <= r[x]
<1>1. PICK n : n = [x \in S |-> Above(S, r, x)]
  OBVIOUS
<1>2. \A x \in S : n[x] \in Nat
  BY <1>1, CountFacts
<1>3. PICK x \in S : \A y \in S : n[x] <= n[y]
  BY <1>2, LeastBy
<1>4. ASSUME NEW y \in S, r[x] < r[y]
      PROVE  FALSE
  <2>1. n[y] < n[x]
    BY <1>1, <1>4, CountFacts
  <2> QED BY <1>2, <1>3, <2>1
<1> QED BY <1>3, <1>4

\* InOrder lists every element of a finite set once.
LEMMA InOrderFacts ==
  ASSUME NEW S, IsFiniteSet(S), NEW r, \A x \in S : r[x] \in Nat,
         \A x, y \in S : r[x] = r[y] => x = y
  PROVE  /\ InOrder(S, r) \in Seq(S) /\ Cardinality(S) \in Nat
         /\ DOMAIN InOrder(S, r) = 1 .. Cardinality(S)
         /\ \A x \in S : \E n \in 1 .. Cardinality(S) : InOrder(S, r)[n] = x
         /\ \A m, n \in 1 .. Cardinality(S) : InOrder(S, r)[m] = InOrder(S, r)[n] => m = n
<1> DEFINE N == Cardinality(S)
<1>1. N \in Nat /\ IsFiniteSet(1 .. N) /\ Cardinality(1 .. N) = N
  BY FS_CardinalityType, FS_Interval
<1>2. PICK p : p = [x \in S |-> Below(S, r, x) + 1]
  OBVIOUS
<1>3. \A x, y \in S : r[x] < r[y] => p[x] < p[y]
  BY <1>2, CountFacts
<1>4. p \in [S -> 1 .. N]
  BY <1>1, <1>2, CountFacts
<1>5. \A x, y \in S : p[x] = p[y] => x = y
  BY <1>3, <1>4
<1>6. p \in Injection(S, 1 .. N)
  BY <1>4, <1>5 DEF Injection, IsInjective
<1>7. p \in Surjection(S, 1 .. N)
  BY <1>1, <1>6, FS_Injection
<1>8. \A n \in 1 .. N : \E x \in S : p[x] = n
  BY <1>7 DEF Surjection
<1>9. \A n \in 1 .. N : InOrder(S, r)[n] \in S /\ p[InOrder(S, r)[n]] = n
  <2> TAKE n \in 1 .. N
  <2>1. InOrder(S, r)[n] = CHOOSE x \in S : Below(S, r, x) = n - 1
    BY DEF InOrder, Below
  <2>2. PICK y \in S : Below(S, r, y) = n - 1
    BY <1>1, <1>2, <1>8, CountFacts
  <2>3. InOrder(S, r)[n] \in S /\ Below(S, r, InOrder(S, r)[n]) = n - 1
    BY <2>1, <2>2
  <2> QED BY <1>1, <1>2, <2>3
<1>10. InOrder(S, r) \in [1 .. N -> S]
  BY <1>9 DEF InOrder
<1> QED BY <1>1, <1>4, <1>5, <1>9, <1>10

-----------------------------------------------------------------------------
(* Entries, the maps between forms and the indexes, as sets.                *)

Edges == UNION {[S -> Relations] : S \in SUBSET Forms}
Entries ==
  [id : Forms, full : BOOLEAN, org : Orgs \cup {None}, name : Forms \cup {None},
   aliases : SUBSET Forms, parents : Edges, deferred : BOOLEAN, adopted : BOOLEAN,
   reviewed : BOOLEAN, open : BOOLEAN, value : Nat, weak : Nat, removed : BOOLEAN]
Maps(D) == UNION {[S -> Forms] : S \in SUBSET D}
Indexes == [exact : Maps(Forms), norm : Maps({Norm[f] : f \in Forms}), lower : Maps({Lower[f] : f \in Forms})]

\* IsEntry describes the elements of Entries.
LEMMA EntryForm ==
  ASSUME NEW e
  PROVE  IsEntry(e) <=> e \in Entries
<1>1. ASSUME e \in Entries
      PROVE  IsEntry(e)
  BY <1>1 DEF Entries, IsEntry, Edges
<1>2. ASSUME IsEntry(e)
      PROVE  e \in Entries
  <2>1. e.parents \in Edges
    BY <1>2 DEF IsEntry, Edges
  <2> QED BY <1>2, <2>1 DEF Entries, IsEntry
<1> QED BY <1>1, <1>2

\* A map holds no forms but those it was given.
LEMMA MapFacts ==
  ASSUME NEW D
  PROVE  /\ NoMap \in Maps(D) /\ NoMap \in Edges
         /\ \A m \in Maps(D) : /\ DOMAIN m \subseteq D /\ m \in [DOMAIN m -> Forms]
                               /\ \A x \in DOMAIN m : m[x] \in Forms
         /\ \A S \in SUBSET D : [S -> Forms] \subseteq Maps(D)
BY DEF Maps, NoMap, Edges

\* Putting a map of forms before another one gives one.
LEMMA MapJoin ==
  ASSUME NEW D, NEW m \in Maps(D), NEW k \in Maps(D)
  PROVE  m ++ k \in Maps(D)
<1>1. /\ DOMAIN m \subseteq D /\ DOMAIN k \subseteq D
      /\ \A x \in DOMAIN m : m[x] \in Forms
      /\ \A x \in DOMAIN k : k[x] \in Forms
  BY MapFacts
<1>2. m ++ k = [x \in DOMAIN m \cup DOMAIN k |-> IF x \in DOMAIN m THEN m[x] ELSE k[x]]
  BY DEF ++
<1>3. m ++ k \in [DOMAIN m \cup DOMAIN k -> Forms]
  BY <1>1, <1>2
<1> QED BY <1>1, <1>3, MapFacts

\* Many forms given to one id are a map.
LEMMA MapOwned ==
  ASSUME NEW D, NEW F, F \subseteq D, NEW id \in Forms
  PROVE  Owned(F, id) \in Maps(D)
<1>1. Owned(F, id) \in [F -> Forms]
  BY DEF Owned
<1> QED BY <1>1, MapFacts

\* Looking a form up in a map gives a form or nothing.
LEMMA MapAt ==
  ASSUME NEW D, NEW m \in Maps(D), NEW f
  PROVE  At(m, f) \in Forms \cup {None}
BY MapFacts DEF At

\* Redirected edges are edges.
LEMMA RedirectedType ==
  ASSUME NEW parents \in Edges, NEW D, NEW to \in Maps(D)
  PROVE  Redirected(parents, to) \in Edges
<1> DEFINE New(p) == IF p \in DOMAIN to THEN to[p] ELSE p
           Ends == {New(q) : q \in DOMAIN parents}
<1>1. DOMAIN parents \subseteq Forms /\ \A p \in DOMAIN parents : parents[p] \in Relations
  BY DEF Edges
<1>2. \A p \in DOMAIN to : to[p] \in Forms
  BY MapFacts
<1>3. Ends \subseteq Forms
  BY <1>1, <1>2
<1>4. ASSUME NEW p \in Ends
      PROVE  parents[CHOOSE q \in DOMAIN parents : New(q) = p] \in Relations
  <2>1. \E q \in DOMAIN parents : New(q) = p
    OBVIOUS
  <2> QED BY <1>1, <2>1
<1>5. Redirected(parents, to) \in [Ends -> Relations]
  BY <1>4 DEF Redirected
<1> QED BY <1>3, <1>5 DEF Edges

\* The first of a set of forms is one of them.
LEMMA FirstOfFacts ==
  ASSUME NEW S, S \subseteq Forms, S # {}
  PROVE  FirstOf(S) \in S /\ \A g \in S : Before[FirstOf(S)] <= Before[g]
<1>1. \A f \in S : Before[f] \in Nat
  BY CatalogAssumption
<1>2. \E f \in S : \A g \in S : Before[f] <= Before[g]
  BY <1>1, LeastBy
<1>3. FirstOf(S) \in S /\ (S = {FirstOf(S)} \/ \A g \in S : Before[FirstOf(S)] <= Before[g])
  BY <1>2 DEF FirstOf
<1> QED BY <1>1, <1>3

\* The least positive value is a number.
LEMMA LeastType ==
  ASSUME NEW values, values \subseteq Nat
  PROVE  Least(values) \in Nat
<1>1. CASE values \subseteq {0}
  BY <1>1 DEF Least
<1>2. CASE ~(values \subseteq {0})
  <2>1. values \ {0} # {} /\ values \ {0} \subseteq Nat
    BY <1>2
  <2>2. \E v \in values \ {0} : \A w \in values \ {0} : v <= w
    BY <2>1, LeastExists
  <2> QED BY <1>2, <2>2 DEF Least
<1> QED BY <1>1, <1>2

\* Entries of distinct ids are finitely many, and listed once each.
LEMMA ListedFacts ==
  ASSUME NEW E, E \subseteq Entries, OnePerId(E)
  PROVE  /\ IsFiniteSet(E) /\ Listed(E) \in Seq(E) /\ Range(Listed(E)) = E
         /\ \A m, n \in DOMAIN Listed(E) : Listed(E)[m].id = Listed(E)[n].id => m = n
<1>1. PICK ids : ids = [e \in E |-> e.id]
  OBVIOUS
<1>2. ids \in Injection(E, Forms)
  BY <1>1 DEF Injection, IsInjective, OnePerId, Entries
<1>3. IsFiniteSet(E)
  BY <1>2, FS_Injection, CatalogAssumption
<1>4. PICK r : r = [e \in E |-> Before[e.id]]
  OBVIOUS
<1>5. \A e \in E : e.id \in Forms
  BY DEF Entries
<1>6. \A e \in E : r[e] \in Nat
  BY <1>4, <1>5, CatalogAssumption
<1>7. \A d, e \in E : r[d] = r[e] => d = e
  <2> TAKE d, e \in E
  <2>1. r[d] = Before[d.id] /\ r[e] = Before[e.id]
    BY <1>4
  <2>2. r[d] = r[e] => d.id = e.id
    BY <1>5, <2>1, CatalogAssumption
  <2> QED BY <2>2 DEF OnePerId
<1>8. Listed(E) = InOrder(E, r)
  BY <1>4 DEF Listed
<1>9. /\ Listed(E) \in Seq(E)
      /\ \A x \in E : \E n \in DOMAIN Listed(E) : Listed(E)[n] = x
      /\ \A m, n \in DOMAIN Listed(E) : Listed(E)[m] = Listed(E)[n] => m = n
  BY <1>3, <1>6, <1>7, <1>8, InOrderFacts
<1>10. \A n \in DOMAIN Listed(E) : Listed(E)[n] \in E
  BY <1>9
<1>11. Range(Listed(E)) = E
  BY <1>9, <1>10 DEF Range
<1> QED BY <1>3, <1>9, <1>10, <1>11 DEF OnePerId


-----------------------------------------------------------------------------
(* Recursive functions.                                                     *)

\* The first k values of a recursion on numbers.
PartialRuns(X, x0, step, k) ==
  {h \in [0 .. k -> X] : h[0] = x0 /\ \A n \in 1 .. k : h[n] = step[<<n, h[n - 1]>>]}

\* g is the sequence of values from x0 on.
Iterates(X, x0, step, g) ==
  g \in [Nat -> X] /\ g[0] = x0 /\ \A n \in Nat \ {0} : g[n] = step[<<n, g[n - 1]>>]

\* A recursion on numbers that stays in X has a solution.
LEMMA Recursion ==
  ASSUME NEW X, NEW x0 \in X, NEW step \in [Nat \X X -> X]
  PROVE  \E g : Iterates(X, x0, step, g)
<1> DEFINE P(k) == PartialRuns(X, x0, step, k)
<1>1. \A k \in Nat : P(k) # {}
  <2> DEFINE Bad == {k \in Nat : P(k) = {}}
  <2>1. SUFFICES ASSUME Bad # {}
                 PROVE  FALSE
    OBVIOUS
  <2>2. PICK k \in Bad : \A j \in Bad : k <= j
    BY <2>1, LeastExists
  <2>3. CASE k = 0
    <3>1. [n \in 0 .. 0 |-> x0] \in P(0)
      BY DEF PartialRuns
    <3> QED BY <2>2, <2>3, <3>1
  <2>4. CASE k # 0
    <3>1. k \in Nat /\ k - 1 \in Nat /\ P(k - 1) # {}
      BY <2>2, <2>4
    <3>2. PICK h \in P(k - 1) : TRUE
      BY <3>1
    <3>3. /\ h \in [0 .. k - 1 -> X] /\ h[0] = x0
          /\ \A n \in 1 .. k - 1 : h[n] = step[<<n, h[n - 1]>>]
      BY <3>2 DEF PartialRuns
    <3>4. PICK g : g = [n \in 0 .. k |-> IF n = k THEN step[<<k, h[k - 1]>>] ELSE h[n]]
      OBVIOUS
    <3>5. h[k - 1] \in X /\ step[<<k, h[k - 1]>>] \in X
      BY <3>1, <3>3
    <3>6. g \in [0 .. k -> X] /\ g[0] = x0
      BY <2>4, <3>1, <3>3, <3>4, <3>5
    <3>7. \A n \in 1 .. k : g[n] = step[<<n, g[n - 1]>>]
      <4> TAKE n \in 1 .. k
      <4>1. n - 1 \in 0 .. k /\ n - 1 # k /\ n \in 0 .. k
        BY <3>1
      <4>2. g[n - 1] = h[n - 1]
        BY <3>4, <4>1
      <4>3. CASE n = k
        BY <3>4, <4>1, <4>2, <4>3
      <4>4. CASE n # k
        <5>1. n \in 1 .. k - 1
          BY <3>1, <4>4
        <5> QED BY <3>3, <3>4, <4>1, <4>2, <4>4, <5>1
      <4> QED BY <4>3, <4>4
    <3>8. g \in P(k)
      BY <3>6, <3>7 DEF PartialRuns
    <3> QED BY <2>2, <3>8
  <2> QED BY <2>3, <2>4
<1>2. ASSUME NEW k \in Nat, NEW h \in P(k), NEW g \in P(k + 1)
      PROVE  \A n \in 0 .. k : h[n] = g[n]
  <2> DEFINE Bad == {n \in 0 .. k : h[n] # g[n]}
  <2>1. SUFFICES ASSUME Bad # {}
                 PROVE  FALSE
    OBVIOUS
  <2>2. PICK n \in Bad : \A j \in Bad : n <= j
    <3>1. Bad \subseteq Nat
      OBVIOUS
    <3> HIDE DEF Bad
    <3> QED BY <2>1, <3>1, LeastExists
  <2>3. n # 0
    BY <2>2 DEF PartialRuns
  <2>4. n \in 1 .. k /\ n - 1 \in 0 .. k /\ n - 1 \notin Bad
    BY <2>2, <2>3
  <2>5. h[n - 1] = g[n - 1]
    BY <2>4
  <2>6. h[n] = step[<<n, h[n - 1]>>] /\ g[n] = step[<<n, g[n - 1]>>]
    BY <2>4 DEF PartialRuns
  <2> QED BY <2>2, <2>5, <2>6
<1>3. PICK H : H = [k \in Nat |-> CHOOSE h \in P(k) : TRUE]
  OBVIOUS
<1>4. \A k \in Nat : H[k] \in P(k)
  BY <1>1, <1>3
<1>5. PICK g : g = [n \in Nat |-> H[n][n]]
  OBVIOUS
<1>6. \A n \in Nat : H[n] \in [0 .. n -> X] /\ n \in 0 .. n
  BY <1>4 DEF PartialRuns
<1>7. g \in [Nat -> X]
  BY <1>5, <1>6
<1>8. g[0] = x0
  <2>1. H[0] \in P(0) /\ g[0] = H[0][0]
    BY <1>4, <1>5
  <2> QED BY <2>1 DEF PartialRuns
<1>9. ASSUME NEW n \in Nat \ {0}
      PROVE  g[n] = step[<<n, g[n - 1]>>]
  <2>1. n - 1 \in Nat /\ (n - 1) + 1 = n /\ n \in 1 .. n /\ n - 1 \in 0 .. n - 1
    OBVIOUS
  <2>2. H[n] \in P(n) /\ H[n - 1] \in P(n - 1)
    BY <1>4, <2>1
  <2>3. H[n][n] = step[<<n, H[n][n - 1]>>]
    BY <2>1, <2>2 DEF PartialRuns
  <2>4. H[n - 1][n - 1] = H[n][n - 1]
    BY <1>2, <2>1, <2>2
  <2> QED BY <1>5, <2>1, <2>3, <2>4
<1> QED BY <1>7, <1>8, <1>9 DEF Iterates

\* The image of a finite set is finite.
LEMMA ImageFinite ==
  ASSUME NEW S, IsFiniteSet(S), NEW f
  PROVE  IsFiniteSet({f[x] : x \in S})
<1> DEFINE T == {f[x] : x \in S}
<1>1. PICK g : g = [x \in S |-> f[x]]
  OBVIOUS
<1>2. g \in Surjection(S, T)
  BY <1>1 DEF Surjection
<1> QED BY <1>2, FS_Surjection

-----------------------------------------------------------------------------
(* The generator: every step from records to entries makes entries.         *)

\* Entries to mint, as upstream holds them.
Whole == {e \in Entries : e.full /\ ~e.removed}

\* The strings of a record are forms, and part of a catalog is a catalog.
LEMMA RecordFacts ==
  ASSUME NEW recs, IsCatalog(recs)
  PROVE  /\ \A r \in recs : /\ r.raw \in Forms /\ r.name \in Forms /\ r.claim \in Forms \cup {None}
                            /\ r.value \in Nat /\ AuthorOf[r.provider] \in Orgs \cup {None}
         /\ \A part \in SUBSET recs : IsCatalog(part) /\ IsFiniteSet(part)
<1>1. \A r \in recs : /\ r.raw \in Forms /\ r.name \in Forms /\ r.claim \in Forms \cup {None}
                      /\ r.value \in Nat /\ AuthorOf[r.provider] \in Orgs \cup {None}
  BY DEF IsCatalog
<1>2. \A part \in SUBSET recs : IsFiniteSet(part)
  BY FS_Subset DEF IsCatalog
<1> QED BY <1>1, <1>2 DEF IsCatalog

\* What the functions of a form return.
LEMMA FormFacts ==
  /\ None \notin Forms /\ None \notin Orgs /\ IsFiniteSet(Forms)
  /\ \A f \in Forms :
       /\ Before[f] \in Nat /\ \A g \in Forms : Before[g] = Before[f] => g = f
       /\ Developer[f] \in Orgs \cup {None} /\ NameOrg[f] \in Orgs \cup {None}
       /\ LastPart[f] \in Forms /\ Title[f] \in Forms /\ OrKey[f] \in Forms \cup {None}
       /\ Spelled[f] \subseteq Forms /\ LeafForms[f] \subseteq Forms
       /\ Minted[<<None, f>>] \in Forms
       /\ \A org \in Orgs : Minted[<<org, f>>] \in Forms /\ Qualified[<<org, f>>] \in Forms
BY CatalogAssumption

\* A fresh entry is one to mint.
LEMMA EntryType ==
  ASSUME NEW id \in Forms, NEW org \in Orgs \cup {None}, NEW name \in Forms \cup {None},
         NEW aliases \in SUBSET Forms
  PROVE  Entry(id, org, name, aliases) \in Whole
BY MapFacts DEF Whole, Entries, Entry

\* The values of f on S, and how many elements share one.
Values(S, f) == {f[x] : x \in S}
Sharing(S, f, v) == Cardinality({x \in S : f[x] = v})

\* Some value is shared by most elements.
LEMMA MostFacts ==
  ASSUME NEW S, IsFiniteSet(S), S # {}, NEW f
  PROVE  \E v \in Values(S, f) : \A w \in Values(S, f) : Sharing(S, f, w) <= Sharing(S, f, v)
<1> DEFINE T == {f[x] : x \in S}
<1>1. PICK r : r = [v \in T |-> Cardinality({x \in S : f[x] = v})]
  OBVIOUS
<1>2. \A v \in T : r[v] \in Nat
  <2> TAKE v \in T
  <2>1. {x \in S : f[x] = v} \subseteq S
    OBVIOUS
  <2> QED BY <1>1, <2>1, FS_Subset, FS_CardinalityType
<1>3. IsFiniteSet(T) /\ T # {}
  BY ImageFinite
<1>4. \E v \in T : \A w \in T : r[w] <= r[v]
  BY <1>2, <1>3, GreatestBy
<1> QED BY <1>1, <1>4 DEF Values, Sharing

\* The org of a group is an org, or none.
LEMMA GroupOrgType ==
  ASSUME NEW recs, IsCatalog(recs)
  PROVE  GroupOrg(recs) \in Orgs \cup {None}
<1> DEFINE uploaded == {r \in recs : r.raw \in Slashed /\ Developer[r.raw] # None}
           named == {r \in recs \ uploaded : NameOrg[r.name] # None}
           Uploads(o) == Cardinality({r \in uploaded : Developer[r.raw] = o})
           Namings(o) == Cardinality({r \in named : NameOrg[r.name] = o})
           prefixes == {Developer[r.raw] : r \in uploaded}
           brands == {NameOrg[r.name] : r \in named}
<1>1. GroupOrg(recs)
        = IF uploaded # {} THEN CHOOSE o \in prefixes : \A p \in prefixes : Uploads(p) <= Uploads(o)
          ELSE IF named # {} THEN CHOOSE o \in brands : \A p \in brands : Namings(p) <= Namings(o)
          ELSE None
  BY DEF GroupOrg
<1>2. IsFiniteSet(uploaded) /\ IsFiniteSet(named)
  <2>1. uploaded \in SUBSET recs /\ named \in SUBSET recs
    OBVIOUS
  <2> QED BY <2>1, RecordFacts
<1>3. \A r \in recs : {Developer[r.raw], NameOrg[r.name]} \subseteq Orgs \cup {None}
  <2> TAKE r \in recs
  <2>1. r.raw \in Forms /\ r.name \in Forms
    BY RecordFacts
  <2>2. Developer[r.raw] \in Orgs \cup {None} /\ NameOrg[r.name] \in Orgs \cup {None}
    BY <2>1, FormFacts
  <2> QED BY <2>2
<1>4. prefixes \subseteq Orgs \cup {None} /\ brands \subseteq Orgs \cup {None}
  BY <1>3
<1>5. ASSUME uploaded # {}
      PROVE  \E o \in prefixes : \A p \in prefixes : Uploads(p) <= Uploads(o)
  <2> HIDE DEF uploaded
  <2>1. PICK up : up = [r \in uploaded |-> Developer[r.raw]]
    OBVIOUS
  <2>2. \E v \in Values(uploaded, up) : \A w \in Values(uploaded, up) : Sharing(uploaded, up, w) <= Sharing(uploaded, up, v)
    BY <1>2, <1>5, MostFacts
  <2>3. Values(uploaded, up) = prefixes
    BY <2>1 DEF Values
  <2>4. \A v : {x \in uploaded : up[x] = v} = {r \in uploaded : Developer[r.raw] = v}
    BY <2>1
  <2>5. \A v : Sharing(uploaded, up, v) = Uploads(v)
    BY <2>4 DEF Sharing
  <2> HIDE DEF prefixes, Uploads
  <2> QED BY <2>2, <2>3, <2>5
<1>6. ASSUME named # {}
      PROVE  \E o \in brands : \A p \in brands : Namings(p) <= Namings(o)
  <2> HIDE DEF named
  <2>1. PICK up : up = [r \in named |-> NameOrg[r.name]]
    OBVIOUS
  <2>2. \E v \in Values(named, up) : \A w \in Values(named, up) : Sharing(named, up, w) <= Sharing(named, up, v)
    BY <1>2, <1>6, MostFacts
  <2>3. Values(named, up) = brands
    BY <2>1 DEF Values
  <2>4. \A v : {x \in named : up[x] = v} = {r \in named : NameOrg[r.name] = v}
    BY <2>1
  <2>5. \A v : Sharing(named, up, v) = Namings(v)
    BY <2>4 DEF Sharing
  <2> HIDE DEF brands, Namings
  <2> QED BY <2>2, <2>3, <2>5
<1> HIDE DEF uploaded, named, prefixes, brands, Uploads, Namings
<1> QED BY <1>1, <1>4, <1>5, <1>6

\* The authors of a group are records of labs.
LEMMA AuthorsFacts ==
  ASSUME NEW recs, IsCatalog(recs)
  PROVE  /\ Authors(recs) \subseteq recs /\ CuratedAuthors(recs) \subseteq recs
         /\ \A r \in CuratedAuthors(recs) : AuthorOf[r.provider] \in Orgs
<1>1. Authors(recs) \subseteq recs /\ \A r \in Authors(recs) : AuthorOf[r.provider] # None
  BY DEF Authors
<1> QED BY <1>1, RecordFacts DEF CuratedAuthors

\* What a group says of itself: an org, a spelling, a name, a value.
LEMMA UnderlyingType ==
  ASSUME NEW recs, IsCatalog(recs), recs # {}
  PROVE  Underlying(recs) \in [org : Orgs \cup {None}, raw : Forms, name : Forms, authored : BOOLEAN,
                               open : BOOLEAN, value : Nat]
<1> DEFINE authors == Authors(recs)
           from == IF authors # {} THEN authors ELSE recs
           raw == FirstOf({r.raw : r \in from})
           spoken == IF authors # {} THEN {a \in authors : a.raw = raw} ELSE recs
<1>1. from \subseteq recs /\ from # {} /\ authors \subseteq recs
  BY AuthorsFacts
<1>2. {r.raw : r \in from} \subseteq Forms /\ {r.raw : r \in from} # {}
  BY <1>1, RecordFacts
<1>3. raw \in {r.raw : r \in from}
  BY <1>2, FirstOfFacts
<1>4. spoken \subseteq recs /\ spoken # {}
  BY <1>1, <1>3
<1>5. {r.name : r \in spoken} \subseteq Forms /\ {r.name : r \in spoken} # {}
  <2> HIDE DEF spoken
  <2> QED BY <1>4, RecordFacts
<1>6. FirstOf({r.name : r \in spoken}) \in Forms
  BY <1>5, FirstOfFacts
<1>7. Least({r.value : r \in recs}) \in Nat
  <2>1. {r.value : r \in recs} \subseteq Nat
    BY RecordFacts
  <2> QED BY <2>1, LeastType
<1>8. Underlying(recs) = [org |-> GroupOrg(recs), raw |-> raw, name |-> FirstOf({r.name : r \in spoken}),
                          authored |-> authors # {}, open |-> \E r \in recs : r.open,
                          value |-> Least({r.value : r \in recs})]
  BY DEF Underlying
<1>9. raw \in Forms
  BY <1>2, <1>3
<1> QED BY <1>6, <1>7, <1>8, <1>9, GroupOrgType

\* The HF repository of a group is an id, or none.
LEMMA HfTargetType ==
  ASSUME NEW mint, NEW org, NEW recs, IsCatalog(recs), NEW spellings, NEW hub, hub \subseteq Forms, NEW roots
  PROVE  HfTarget(mint, org, recs, spellings, hub, roots) \in Forms \cup {None}
<1> DEFINE Own(h) == mint \in roots => Norm[LastPart[h]] = Norm[LastPart[mint]]
           Fits(h) == <<h, mint>> \in KeepsName /\ Own(h)
           Held(ids, tier) == {h \in ids : Developer[h] = org
                                 /\ \E s \in tier : Norm[LastPart[h]] \in Names[s]}
           claims == {r.claim : r \in recs} \ {None}
           raws == {r.raw : r \in recs} \cap Slashed
           known == {h \in Held(OracleIds, spellings \cup {mint}) : Own(h)}
           verbatim == {h \in hub \cap (claims \cup raws) : Developer[h] = org /\ Fits(h)}
           ByName(tier) == {h \in Held(OracleIds \cup hub, tier) : Fits(h)}
           tiers == <<known, verbatim, ByName({mint}), ByName(claims), ByName(raws),
                      ByName(spellings \cup {r.name : r \in recs}), {None}>>
           first == CHOOSE n \in DOMAIN tiers : tiers[n] # {} /\ \A m \in 1 .. n - 1 : tiers[m] = {}
<1>1. HfTarget(mint, org, recs, spellings, hub, roots)
        = IF org = None \/ mint \in NonLineage THEN None ELSE FirstOf(tiers[first])
  <2>1. HfTarget(mint, org, recs, spellings, hub, roots)
          = IF org = None \/ mint \in NonLineage THEN None ELSE FirstOf(FirstTier(tiers))
    BY DEF HfTarget
  <2> HIDE DEF tiers
  <2>2. FirstTier(tiers) = tiers[first]
    BY DEF FirstTier
  <2> HIDE DEF first
  <2> QED BY <2>1, <2>2
<1>2. /\ known \subseteq Forms /\ verbatim \subseteq Forms
      /\ \A tier : ByName(tier) \subseteq Forms
  BY CatalogAssumption
<1> HIDE DEF known, verbatim, ByName
<1>3. DOMAIN tiers = 1 .. 7 /\ tiers[7] = {None}
  OBVIOUS
<1>4. \A n \in 1 .. 7 : tiers[n] \subseteq Forms \/ tiers[n] = {None}
  BY <1>2
<1> HIDE DEF tiers
<1>5. \E n \in 1 .. 7 : tiers[n] # {} /\ \A m \in 1 .. n - 1 : tiers[m] = {}
  <2> DEFINE S == {n \in 1 .. 7 : tiers[n] # {}}
  <2>1. S # {} /\ S \subseteq Nat
    BY <1>3
  <2>2. S \subseteq 1 .. 7
    OBVIOUS
  <2>3. \A n \in 1 .. 7 : n \notin S => tiers[n] = {}
    OBVIOUS
  <2>4. \A n \in S : tiers[n] # {}
    OBVIOUS
  <2> HIDE DEF S
  <2>5. PICK n \in S : \A k \in S : n <= k
    BY <2>1, LeastExists
  <2>6. \A m \in 1 .. n - 1 : m \in 1 .. 7 /\ m \notin S
    BY <2>2, <2>5
  <2> QED BY <2>2, <2>3, <2>4, <2>5, <2>6
<1>6. first \in 1 .. 7 /\ tiers[first] # {}
  BY <1>3, <1>5
<1>7. FirstOf(tiers[first]) \in Forms \cup {None}
  <2>1. CASE tiers[first] \subseteq Forms
    BY <1>6, <2>1, FirstOfFacts
  <2>2. CASE tiers[first] = {None}
    BY <2>2 DEF FirstOf
  <2> QED BY <1>4, <1>6, <2>1, <2>2
<1> QED BY <1>1, <1>7

\* A deferred entry is one to mint.
LEMMA DeferredEntryType ==
  ASSUME NEW hf \in Forms, NEW org \in Orgs \cup {None}, NEW name \in Forms, NEW aliases \in SUBSET Forms,
         NEW recs, IsCatalog(recs)
  PROVE  DeferredEntry(hf, org, name, aliases, recs) \in Whole
<1> DEFINE claims == {c \in {r.claim : r \in recs} \ {None} : Norm[LastPart[hf]] \in Names[c]}
<1>1. claims \subseteq Forms
  BY RecordFacts
<1>2. {r.value : r \in recs} \subseteq Nat
  BY RecordFacts
<1>3. Least({r.value : r \in recs}) \in Nat
  BY <1>2, LeastType
<1>4. Entry(hf, org, name, (aliases \cup claims) \ {hf}) \in Whole
  BY <1>1, EntryType
<1>5. PICK e : e = Entry(hf, org, name, (aliases \cup claims) \ {hf})
  OBVIOUS
<1>6. DeferredEntry(hf, org, name, aliases, recs)
        = [e EXCEPT !.deferred = TRUE, !.open = \E r \in recs : r.open, !.value = Least({r.value : r \in recs})]
  BY <1>5 DEF DeferredEntry
<1> QED BY <1>3, <1>4, <1>5, <1>6 DEF Whole, Entries

\* Adopting keys keeps entries entries: the keys are handed out one entry after
\* the other, each a form.
LEMMA AdoptType ==
  ASSUME NEW entries, entries \subseteq Whole, OnePerId(entries), NEW recs, IsCatalog(recs)
  PROVE  Adopt(entries, recs) \subseteq Whole
<1> DEFINE cands == {OrKey[r.raw] : r \in {c \in recs : c.provider = "openrouter"}} \ ({None} \cup Junk)
           free == cands \ {e.id : e \in entries}
           Wants(e, k) == /\ e.id \in Slashed \ cands /\ ~e.deferred
                          /\ Sig[k] \in Sigs[e.id] /\ Developer[k] = e.org
           Take(given, e) ==
             LET keys == {k \in free \ Range(given) : Wants(e, k)}
             IN IF keys = {} THEN given ELSE Owned({e.id}, FirstOf(keys)) ++ given
           queue == Listed(entries)
           taken[n \in 0 .. Len(queue)] == IF n = 0 THEN NoMap ELSE Take(taken[n - 1], queue[n])
           to == taken[Len(queue)]
           Renamed(e) == IF e.id \notin DOMAIN to THEN e
                         ELSE [e EXCEPT !.id = to[e.id], !.aliases = @ \cup {e.id}, !.adopted = TRUE]
<1>1. Adopt(entries, recs) = {[Renamed(e) EXCEPT !.parents = Redirected(@, to)] : e \in entries}
  BY DEF Adopt
<1>2. free \subseteq Forms
  <2>1. \A r \in recs : OrKey[r.raw] \in Forms \cup {None}
    BY RecordFacts, FormFacts
  <2> QED BY <2>1
<1>3. entries \subseteq Entries /\ \A e \in entries : e.id \in Forms
  BY DEF Whole, Entries
<1>4. ASSUME NEW given \in Maps(Forms), NEW e \in entries
      PROVE  Take(given, e) \in Maps(Forms)
  <2> DEFINE keys == {k \in free \ Range(given) : Wants(e, k)}
  <2>1. keys \subseteq Forms
    BY <1>2
  <2>2. Take(given, e) = IF keys = {} THEN given ELSE Owned({e.id}, FirstOf(keys)) ++ given
    OBVIOUS
  <2> HIDE DEF keys, Take
  <2>3. CASE keys # {}
    <3>1. FirstOf(keys) \in Forms
      BY <2>1, <2>3, FirstOfFacts
    <3>2. Owned({e.id}, FirstOf(keys)) \in Maps(Forms)
      BY <1>3, <3>1, MapOwned
    <3> QED BY <2>2, <2>3, <3>2, MapJoin
  <2> QED BY <2>2, <2>3
<1> HIDE DEF Take
<1>5. queue \in Seq(entries) /\ Len(queue) \in Nat /\ \A n \in 1 .. Len(queue) : queue[n] \in entries
  BY <1>3, ListedFacts
<1> HIDE DEF queue
<1>6. NoMap \in Maps(Forms)
  BY MapFacts
<1>7. \E g : g = [n \in 0 .. Len(queue) |-> IF n = 0 THEN NoMap ELSE Take(g[n - 1], queue[n])]
  <2> DEFINE M == Maps(Forms)
             step == [p \in Nat \X M |-> IF p[1] \in 1 .. Len(queue) THEN Take(p[2], queue[p[1]]) ELSE NoMap]
  <2>1. step \in [Nat \X M -> M]
    BY <1>4, <1>5, <1>6
  <2>2. \A n \in 1 .. Len(queue), m \in M : step[<<n, m>>] = Take(m, queue[n])
    BY <1>5
  <2> HIDE DEF step
  <2>3. PICK g : Iterates(M, NoMap, step, g)
    BY <1>6, <2>1, Recursion
  <2> DEFINE h == [n \in 0 .. Len(queue) |-> g[n]]
  <2>4. ASSUME NEW n \in 0 .. Len(queue), n # 0
        PROVE  g[n] = Take(h[n - 1], queue[n])
    <3>1. n \in Nat \ {0} /\ n - 1 \in Nat /\ n \in 1 .. Len(queue) /\ n - 1 \in 0 .. Len(queue)
      BY <1>5, <2>4
    <3>2. h[n - 1] = g[n - 1] /\ g[n - 1] \in M
      BY <2>3, <3>1 DEF Iterates
    <3> QED BY <2>2, <2>3, <3>1, <3>2 DEF Iterates
  <2>5. h = [n \in 0 .. Len(queue) |-> IF n = 0 THEN NoMap ELSE Take(h[n - 1], queue[n])]
    BY <1>5, <2>3, <2>4 DEF Iterates
  <2> QED BY <2>5
<1>8. taken = [n \in 0 .. Len(queue) |-> IF n = 0 THEN NoMap ELSE Take(taken[n - 1], queue[n])]
  BY <1>7
<1> HIDE DEF taken
<1>9. to \in Maps(Forms)
  <2> DEFINE Bad == {n \in 0 .. Len(queue) : taken[n] \notin Maps(Forms)}
  <2>1. SUFFICES ASSUME Bad # {}
                 PROVE  FALSE
    BY <1>5
  <2>2. PICK n \in Bad : \A j \in Bad : n <= j
    <3>1. Bad \subseteq Nat
      OBVIOUS
    <3> HIDE DEF Bad
    <3> QED BY <2>1, <3>1, LeastExists
  <2>3. n # 0
    BY <1>5, <1>6, <1>8, <2>2
  <2>4. n \in 1 .. Len(queue) /\ n - 1 \in 0 .. Len(queue) /\ n - 1 \notin Bad
    BY <1>5, <2>2, <2>3
  <2>5. taken[n] = Take(taken[n - 1], queue[n])
    BY <1>8, <2>3, <2>4
  <2> QED BY <1>4, <1>5, <2>2, <2>4, <2>5
<1> HIDE DEF to
<1>10. ASSUME NEW e \in entries
       PROVE  [Renamed(e) EXCEPT !.parents = Redirected(@, to)] \in Whole
  <2>1. Renamed(e) \in Whole
    <3>1. e \in Whole /\ e.id \in Forms /\ e.aliases \cup {e.id} \in SUBSET Forms
      BY DEF Whole, Entries
    <3>2. CASE e.id \in DOMAIN to
      <4>1. to[e.id] \in Forms
        BY <1>9, <3>2, MapFacts
      <4>2. [e EXCEPT !.id = to[e.id], !.aliases = @ \cup {e.id}, !.adopted = TRUE] \in Whole
        BY <3>1, <4>1 DEF Whole, Entries
      <4> QED BY <3>2, <4>2
    <3> QED BY <3>1, <3>2
  <2> HIDE DEF Renamed
  <2>2. Renamed(e).parents \in Edges
    BY <2>1 DEF Whole, Entries
  <2>3. Redirected(Renamed(e).parents, to) \in Edges
    BY <1>9, <2>2, RedirectedType
  <2> QED BY <2>1, <2>3 DEF Whole, Entries
<1> QED BY <1>1, <1>10

\* A group is minted, or deferred to its HF repository.
LEMMA MintOrDeferType ==
  ASSUME NEW org \in Orgs \cup {None}, NEW head, head.raw \in Forms, head.name \in Forms,
         head.authored \in BOOLEAN, head.open \in BOOLEAN, head.value \in Nat,
         NEW recs, IsCatalog(recs), NEW hub, hub \subseteq Forms, NEW roots
  PROVE  MintOrDefer(org, head, recs, hub, roots) \subseteq Whole
<1> DEFINE mint == Minted[<<org, head.raw>>]
           hf == HfTarget(mint, org, recs, {mint, head.name} \cup {r.raw : r \in recs}, hub, roots)
           minted == [Entry(mint, org, head.name, {}) EXCEPT
                        !.open = head.open, !.value = head.value, !.reviewed = head.authored]
<1>1. MintOrDefer(org, head, recs, hub, roots)
        = OrElse({DeferredEntry(h, org, head.name, {mint, head.name}, recs) : h \in {hf} \ {None}},
                 Adopt({minted}, recs))
  BY DEF MintOrDefer
<1>2. mint \in Forms
  BY FormFacts
<1>3. hf \in Forms \cup {None}
  BY HfTargetType
<1> HIDE DEF mint, hf
<1>4. minted \in Whole
  <2>1. Entry(mint, org, head.name, {}) \in Whole
    BY <1>2, EntryType
  <2>2. PICK e : e = Entry(mint, org, head.name, {})
    OBVIOUS
  <2> QED BY <2>1, <2>2 DEF Whole, Entries
<1> HIDE DEF minted
<1>5. Adopt({minted}, recs) \subseteq Whole
  BY <1>4, AdoptType DEF OnePerId
<1>6. \A h \in {hf} \ {None} : DeferredEntry(h, org, head.name, {mint, head.name}, recs) \in Whole
  BY <1>2, <1>3, DeferredEntryType
<1> QED BY <1>1, <1>5, <1>6 DEF OrElse

\* A step of a record's chain gives an entry with the step's id.
LEMMA FamilyEntryType ==
  ASSUME NEW org \in Orgs \cup {None}, NEW recs, IsCatalog(recs), NEW id, NEW maker \in recs,
         id \in {step.id : step \in Range(Lineage[maker.raw])}
  PROVE  FamilyEntry(org, recs, id, maker) \in Whole /\ FamilyEntry(org, recs, id, maker).id = id
<1> DEFINE chain == Lineage[maker.raw]
           n == CHOOSE k \in DOMAIN chain : chain[k].id = id
           leaf == n = Len(chain)
           itself == {r \in recs : Len(Lineage[r.raw]) = 1}
           topName == IF itself = {} THEN Title[id] ELSE (CHOOSE r \in itself : TRUE).name
           top == [Entry(id, org, topName, {}) EXCEPT !.value = Least({r.value : r \in recs})]
           name == IF leaf THEN maker.name ELSE Title[id]
           aliases == IF leaf THEN LeafForms[maker.raw] ELSE {}
           value == IF leaf THEN maker.value ELSE 0
           below == [Entry(id, org, name, aliases) EXCEPT
                       !.parents = Owned({chain[n - 1].id}, chain[n].rel), !.value = value]
<1>1. FamilyEntry(org, recs, id, maker) = [IF n = 1 THEN top ELSE below EXCEPT !.open = \E r \in recs : r.open]
  BY DEF FamilyEntry
<1>2. \E k \in DOMAIN chain : chain[k].id = id
  BY DEF Range
<1>3. n \in DOMAIN chain /\ chain[n].id = id
  BY <1>2
<1> HIDE DEF n
<1>4. maker.raw \in Forms /\ maker.name \in Forms /\ maker.value \in Nat
  BY RecordFacts
<1>5. id \in Forms /\ (n # 1 => chain[n - 1].id \in Forms /\ chain[n].rel \in Relations)
  BY <1>3, <1>4, CatalogAssumption
<1>6. topName \in Forms /\ name \in Forms /\ aliases \in SUBSET Forms /\ value \in Nat
  <2>1. Title[id] \in Forms /\ LeafForms[maker.raw] \subseteq Forms
    BY <1>4, <1>5, FormFacts
  <2>2. itself # {} => (CHOOSE r \in itself : TRUE) \in recs
    OBVIOUS
  <2>3. itself # {} => (CHOOSE r \in itself : TRUE).name \in Forms
    BY <2>2, RecordFacts
  <2> QED BY <1>4, <2>1, <2>3
<1> HIDE DEF topName, name, aliases, value
<1>7. Least({r.value : r \in recs}) \in Nat
  <2>1. {r.value : r \in recs} \subseteq Nat
    BY RecordFacts
  <2> QED BY <2>1, LeastType
<1>8. top \in Whole /\ top.id = id
  <2>1. Entry(id, org, topName, {}) \in Whole /\ Entry(id, org, topName, {}).id = id
    BY <1>5, <1>6, EntryType DEF Entry
  <2> QED BY <1>7, <2>1 DEF Whole, Entries
<1>9. ASSUME n # 1
      PROVE  below \in Whole /\ below.id = id
  <2>1. Entry(id, org, name, aliases) \in Whole /\ Entry(id, org, name, aliases).id = id
    BY <1>5, <1>6, EntryType DEF Entry
  <2>2. Owned({chain[n - 1].id}, chain[n].rel) \in [{chain[n - 1].id} -> Relations]
    BY <1>5, <1>9 DEF Owned
  <2>3. Owned({chain[n - 1].id}, chain[n].rel) \in Edges
    BY <1>5, <1>9, <2>2 DEF Edges
  <2> QED BY <1>6, <2>1, <2>3 DEF Whole, Entries
<1> HIDE DEF top, below
<1>10. PICK e : e = IF n = 1 THEN top ELSE below
  OBVIOUS
<1>11. e \in Whole /\ e.id = id
  BY <1>8, <1>9, <1>10
<1>12. PICK o \in BOOLEAN : o = \E r \in recs : r.open
  OBVIOUS
<1>13. FamilyEntry(org, recs, id, maker) = [e EXCEPT !.open = o]
  BY <1>1, <1>10, <1>12
<1> QED BY <1>11, <1>13 DEF Whole, Entries

\* A family has one entry per id.
LEMMA FamilyEntriesType ==
  ASSUME NEW org \in Orgs \cup {None}, NEW recs, IsCatalog(recs)
  PROVE  FamilyEntries(org, recs) \subseteq Whole /\ OnePerId(FamilyEntries(org, recs))
<1> DEFINE Ids(r) == {step.id : step \in Range(Lineage[r.raw])}
           Maker(id) == CHOOSE r \in recs :
             id \in Ids(r) /\ \A s \in recs : id \in Ids(s) => Before[r.raw] <= Before[s.raw]
<1>1. FamilyEntries(org, recs) = {FamilyEntry(org, recs, id, Maker(id)) : id \in UNION {Ids(r) : r \in recs}}
  BY DEF FamilyEntries
<1>2. ASSUME NEW id \in UNION {Ids(r) : r \in recs}
      PROVE  Maker(id) \in recs /\ id \in Ids(Maker(id))
  <2> DEFINE S == {r \in recs : id \in Ids(r)}
  <2>1. PICK rank : rank = [r \in S |-> Before[r.raw]]
    OBVIOUS
  <2>2. S # {}
    OBVIOUS
  <2>3. \A r \in S : rank[r] \in Nat
    BY <2>1, RecordFacts, FormFacts
  <2> HIDE DEF S
  <2>4. \E r \in S : \A s \in S : rank[r] <= rank[s]
    BY <2>2, <2>3, LeastBy
  <2>5. \E r \in S : \A s \in S : Before[r.raw] <= Before[s.raw]
    BY <2>1, <2>4
  <2>6. \E r \in recs : id \in Ids(r) /\ \A s \in recs : id \in Ids(s) => Before[r.raw] <= Before[s.raw]
    BY <2>5 DEF S
  <2> HIDE DEF Ids
  <2> QED BY <2>6
<1>3. \A id \in UNION {Ids(r) : r \in recs} :
        /\ FamilyEntry(org, recs, id, Maker(id)) \in Whole
        /\ FamilyEntry(org, recs, id, Maker(id)).id = id
  <2> TAKE id \in UNION {Ids(r) : r \in recs}
  <2>1. Maker(id) \in recs /\ id \in {step.id : step \in Range(Lineage[Maker(id).raw])}
    BY <1>2
  <2> HIDE DEF Maker
  <2> QED BY <2>1, FamilyEntryType
<1> HIDE DEF Maker, Ids
<1> QED BY <1>1, <1>3 DEF OnePerId

\* The families of a group are entries to mint.
LEMMA FamiliesOfType ==
  ASSUME NEW org \in Orgs \cup {None}, NEW snapshots, IsCatalog(snapshots), NEW recs, IsCatalog(recs)
  PROVE  FamiliesOf(org, snapshots, recs) \subseteq Whole
<1> DEFINE Of(top) == {r \in snapshots : Head(Lineage[r.raw]).id = top}
           tops == {Head(Lineage[r.raw]).id : r \in snapshots}
<1>1. FamiliesOf(org, snapshots, recs) = UNION {Adopt(FamilyEntries(org, Of(top)), recs) : top \in tops}
  BY DEF FamiliesOf
<1>2. ASSUME NEW top \in tops
      PROVE  Adopt(FamilyEntries(org, Of(top)), recs) \subseteq Whole
  <2>1. Of(top) \in SUBSET snapshots
    OBVIOUS
  <2>2. IsCatalog(Of(top))
    BY <2>1, RecordFacts
  <2> HIDE DEF Of
  <2>3. FamilyEntries(org, Of(top)) \subseteq Whole /\ OnePerId(FamilyEntries(org, Of(top)))
    BY <2>2, FamilyEntriesType
  <2> QED BY <2>3, AdoptType
<1> HIDE DEF Of, tops
<1> QED BY <1>1, <1>2

\* So are the entries of a lab.
LEMMA AuthoredEntriesType ==
  ASSUME NEW org \in Orgs, NEW head, head.raw \in Forms, head.name \in Forms,
         head.authored \in BOOLEAN, head.open \in BOOLEAN, head.value \in Nat,
         NEW recs, IsCatalog(recs), NEW authors \in SUBSET recs, NEW hub, hub \subseteq Forms, NEW roots
  PROVE  AuthoredEntries(org, head, authors, recs, hub, roots) \subseteq Whole
<1> DEFINE Mint(r) == Minted[<<org, r.raw>>]
           Target(r) == HfTarget(Mint(r), org, recs, {r.raw, r.name}, hub, roots)
           Deferred(r) == {DeferredEntry(h, org, r.name, {Mint(r), r.name}, {r}) : h \in {Target(r)} \ {None}}
           snapshots == {r \in authors : Target(r) = None /\ Lineage[r.raw] # <<>>}
<1>1. AuthoredEntries(org, head, authors, recs, hub, roots)
        = OrElse(FamiliesOf(org, snapshots, recs) \cup UNION {Deferred(r) : r \in authors},
                 MintOrDefer(org, head, recs, hub, roots))
  BY DEF AuthoredEntries
<1>2. MintOrDefer(org, head, recs, hub, roots) \subseteq Whole
  BY MintOrDeferType
<1>3. FamiliesOf(org, snapshots, recs) \subseteq Whole
  <2>1. snapshots \in SUBSET recs
    OBVIOUS
  <2> HIDE DEF snapshots
  <2>2. IsCatalog(snapshots)
    BY <2>1, RecordFacts
  <2> QED BY <2>2, FamiliesOfType
<1>4. ASSUME NEW r \in authors
      PROVE  Deferred(r) \subseteq Whole
  <2>1. r.raw \in Forms /\ r.name \in Forms
    BY RecordFacts
  <2>2. Mint(r) \in Forms
    BY <2>1, FormFacts
  <2>3. {r} \in SUBSET recs
    OBVIOUS
  <2>4. IsCatalog({r})
    BY <2>3, RecordFacts
  <2>5. Target(r) \in Forms \cup {None}
    BY HfTargetType
  <2> HIDE DEF Target, Mint
  <2>6. \A h \in {Target(r)} \ {None} : DeferredEntry(h, org, r.name, {Mint(r), r.name}, {r}) \in Whole
    BY <2>1, <2>2, <2>4, <2>5, DeferredEntryType
  <2> QED BY <2>6
<1> HIDE DEF Deferred, snapshots
<1> QED BY <1>1, <1>2, <1>3, <1>4 DEF OrElse

\* Attaching spellings adds forms.
LEMMA AttachSpellingsType ==
  ASSUME NEW entries, entries \subseteq Whole, NEW org \in Orgs \cup {None}, NEW recs, IsCatalog(recs)
  PROVE  AttachSpellings(entries, org, recs) \subseteq Whole
<1> DEFINE Owners(f) == LET byId == {e \in entries : e.id = f}
                        IN IF byId # {} THEN byId ELSE {e \in entries : f \in e.aliases}
           tops == {e \in entries : e.parents = NoMap}
           Sought(r) == <<r.raw, Slug[r.raw]>> \o (IF org = None THEN <<>> ELSE <<Minted[<<org, r.raw>>]>>)
           FirstOne(es) == CHOOSE e \in es : \A o \in es : Before[e.id] <= Before[o.id]
           Target(r) ==
             LET hits == {n \in DOMAIN Sought(r) : Owners(Sought(r)[n]) # {}}
             IN IF hits # {} THEN FirstOne(Owners(Sought(r)[CHOOSE n \in hits : \A m \in hits : n <= m]))
                ELSE FirstOne(IF tops # {} THEN tops ELSE entries)
           Alike(r, e) == \/ Sig[r.raw] = Sig[e.id]
                          \/ e.deferred /\ \E a \in e.aliases : Sig[r.raw] = Sig[a]
           Spelt(r) == Spelled[r.raw] \cup (IF org = None THEN {} ELSE {Qualified[<<org, r.raw>>]})
           Given(e) == UNION {Spelt(r) : r \in {c \in recs : Target(c) = e /\ Alike(c, e)}}
<1>1. AttachSpellings(entries, org, recs)
        = {[e EXCEPT !.aliases = @ \cup {f \in Given(e) \ {e.id} : Owners(f) \subseteq {e}}] : e \in entries}
  BY DEF AttachSpellings
<1>2. \A r \in recs : Spelt(r) \subseteq Forms
  <2> TAKE r \in recs
  <2>1. r.raw \in Forms
    BY RecordFacts
  <2>2. Spelled[r.raw] \subseteq Forms /\ (org # None => Qualified[<<org, r.raw>>] \in Forms)
    BY <2>1, FormFacts
  <2> QED BY <2>2
<1> HIDE DEF Spelt, Target, Alike
<1>3. \A e : Given(e) \subseteq Forms
  BY <1>2
<1> HIDE DEF Given, Owners
<1>4. ASSUME NEW e \in entries
      PROVE  [e EXCEPT !.aliases = @ \cup {f \in Given(e) \ {e.id} : Owners(f) \subseteq {e}}] \in Whole
  <2>1. PICK more : more = {f \in Given(e) \ {e.id} : Owners(f) \subseteq {e}}
    OBVIOUS
  <2>2. more \subseteq Forms /\ e \in Whole
    BY <1>3, <2>1
  <2>3. [e EXCEPT !.aliases = @ \cup more] \in Whole
    BY <2>2 DEF Whole, Entries
  <2> QED BY <2>1, <2>3
<1> QED BY <1>1, <1>4

\* So are the entries of a group.
LEMMA GroupEntriesType ==
  ASSUME NEW recs, IsCatalog(recs), recs # {}, NEW hub, hub \subseteq Forms, NEW roots
  PROVE  GroupEntries(recs, hub, roots) \subseteq Whole
<1> DEFINE head == Underlying(recs)
           authors == CuratedAuthors(recs)
           lab == AuthorOf[(CHOOSE r \in authors : TRUE).provider]
<1>1. GroupEntries(recs, hub, roots)
        = IF authors = {} THEN AttachSpellings(MintOrDefer(head.org, head, recs, hub, roots), head.org, recs)
          ELSE AttachSpellings(AuthoredEntries(lab, head, authors, recs, hub, roots), lab, recs)
  BY DEF GroupEntries, BuildGroup
<1>2. head \in [org : Orgs \cup {None}, raw : Forms, name : Forms, authored : BOOLEAN,
                open : BOOLEAN, value : Nat]
  BY UnderlyingType
<1>3. authors \in SUBSET recs /\ \A r \in authors : AuthorOf[r.provider] \in Orgs
  BY AuthorsFacts
<1> HIDE DEF head, authors
<1>4. authors # {} => lab \in Orgs
  BY <1>3
<1> HIDE DEF lab
<1>5. /\ head.org \in Orgs \cup {None} /\ head.raw \in Forms /\ head.name \in Forms
      /\ head.authored \in BOOLEAN /\ head.open \in BOOLEAN /\ head.value \in Nat
  BY <1>2
<1>6. MintOrDefer(head.org, head, recs, hub, roots) \subseteq Whole
  BY <1>5, MintOrDeferType
<1>7. authors # {} => AuthoredEntries(lab, head, authors, recs, hub, roots) \subseteq Whole
  BY <1>3, <1>4, <1>5, AuthoredEntriesType
<1> QED BY <1>1, <1>4, <1>5, <1>6, <1>7, AttachSpellingsType

\* And those of a catalog.
LEMMA MintedEntriesType ==
  ASSUME NEW catalog, IsCatalog(catalog), NEW hub, hub \subseteq Forms, NEW roots
  PROVE  MintedEntries(catalog, hub, roots) \subseteq Whole
<1>1. \A g \in Groups(catalog) : g \in SUBSET catalog
  BY DEF Groups
<1>2. \A g \in MappedGroups(catalog) : g \in SUBSET catalog /\ g # {}
  BY <1>1 DEF MappedGroups
<1>3. \A g \in MappedGroups(catalog) : GroupEntries(g, hub, roots) \subseteq Whole
  BY <1>2, RecordFacts, GroupEntriesType
<1> QED BY <1>3 DEF MintedEntries

-----------------------------------------------------------------------------
(* Duplicates: what leaves the generator are different models, and no two   *)
(* of them share a form.                                                    *)

\* Entries without an org lend their forms.
LEMMA MergeBareType ==
  ASSUME NEW entries, entries \subseteq Whole
  PROVE  MergeBare(entries) \subseteq Whole
<1> DEFINE Named(e) == {d \in entries : d.deferred /\ Norm[d.name] = Norm[e.name]}
           Bare(e) == e.id \notin Slashed /\ e.open /\ ~e.deferred /\ Cardinality(Named(e)) = 1
           Given(d) == UNION {{e.id} \cup e.aliases : e \in {b \in entries : Bare(b) /\ Named(b) = {d}}}
<1>1. MergeBare(entries) = {[e EXCEPT !.aliases = @ \cup (Given(e) \ {e.id})] : e \in {k \in entries : ~Bare(k)}}
  BY DEF MergeBare
<1>2. \A e \in entries : {e.id} \cup e.aliases \subseteq Forms
  BY DEF Whole, Entries
<1>3. \A d : Given(d) \subseteq Forms
  BY <1>2
<1> HIDE DEF Given, Bare
<1>4. ASSUME NEW e \in entries
      PROVE  [e EXCEPT !.aliases = @ \cup (Given(e) \ {e.id})] \in Whole
  <2>1. PICK more : more = Given(e) \ {e.id}
    OBVIOUS
  <2>2. more \subseteq Forms /\ e \in Whole
    BY <1>3, <2>1
  <2> QED BY <2>1, <2>2 DEF Whole, Entries
<1> QED BY <1>1, <1>4

\* Combining entries gives one with the winner's id.
LEMMA CombinedType ==
  ASSUME NEW winner \in Whole, NEW group, group \subseteq Whole
  PROVE  /\ Combined(winner, group) \in Whole /\ Combined(winner, group).id = winner.id
         /\ Combined(winner, group).parents = winner.parents
<1>1. UNION {e.aliases \cup {e.id} : e \in group} \ {winner.id} \subseteq Forms
  BY DEF Whole, Entries
<1>2. {e.value : e \in group} \subseteq Nat
  BY DEF Whole, Entries
<1>3. Least({e.value : e \in group}) \in Nat
  BY <1>2, LeastType
<1>4. PICK aliases : aliases = UNION {e.aliases \cup {e.id} : e \in group} \ {winner.id}
  OBVIOUS
<1>5. PICK value : value = Least({e.value : e \in group})
  OBVIOUS
<1>6. Combined(winner, group) = [winner EXCEPT !.aliases = aliases, !.reviewed = \E e \in group : e.reviewed,
                                               !.open = \E e \in group : e.open, !.value = value]
  BY <1>4, <1>5 DEF Combined
<1> QED BY <1>1, <1>3, <1>4, <1>5, <1>6 DEF Whole, Entries

\* Dedup leaves one entry per id.
LEMMA DedupFacts ==
  ASSUME NEW entries, entries \subseteq Whole
  PROVE  Dedup(entries) \subseteq Whole /\ OnePerId(Dedup(entries))
<1> DEFINE Group(id) == {e \in entries : e.id = id}
           Lead(id) == CHOOSE e \in Group(id) : TRUE
<1>1. Dedup(entries) = {Combined(Lead(id), Group(id)) : id \in {e.id : e \in entries}}
  BY DEF Dedup
<1>2. ASSUME NEW id \in {e.id : e \in entries}
      PROVE  Combined(Lead(id), Group(id)) \in Whole /\ Combined(Lead(id), Group(id)).id = id
  <2>1. Group(id) # {}
    OBVIOUS
  <2>2. Lead(id) \in Group(id)
    BY <2>1
  <2>3. Lead(id) \in Whole /\ Lead(id).id = id /\ Group(id) \subseteq Whole
    BY <2>2
  <2> HIDE DEF Lead, Group
  <2> QED BY <2>3, CombinedType
<1> HIDE DEF Lead, Group
<1> QED BY <1>1, <1>2 DEF OnePerId

\* A group of duplicates has a winner.
LEMMA WinnerFacts ==
  ASSUME NEW group, group \subseteq Whole, IsFiniteSet(group), group # {}
  PROVE  Winner(group) \in group
<1>1. PICK w : w = [e \in group |-> Weight(e)]
  OBVIOUS
<1>2. \A e \in group : w[e] \in Nat
  BY <1>1 DEF Weight
<1>3. PICK best \in group : \A o \in group : w[o] <= w[best]
  BY <1>2, GreatestBy
<1>4. PICK top : top = {e \in group : w[e] = w[best]}
  OBVIOUS
<1>5. PICK r : r = [e \in top |-> Before[e.id]]
  OBVIOUS
<1>6. \A e \in group : Before[e.id] \in Nat
  BY FormFacts DEF Whole, Entries
<1>7. \A e \in top : r[e] \in Nat
  BY <1>4, <1>5, <1>6
<1>8. PICK e \in top : \A o \in top : r[e] <= r[o]
  <2>1. best \in top
    BY <1>4
  <2> QED BY <1>7, <2>1, LeastBy
<1>9. e \in group /\ \A o \in group : w[e] > w[o] \/ (w[e] = w[o] /\ Before[e.id] <= Before[o.id])
  <2>1. e \in group /\ w[e] = w[best]
    BY <1>4
  <2>2. ASSUME NEW o \in group
        PROVE  w[e] > w[o] \/ (w[e] = w[o] /\ Before[e.id] <= Before[o.id])
    <3>1. CASE w[o] = w[best]
      <4>1. o \in top
        BY <1>4, <3>1
      <4> QED BY <1>5, <1>8, <2>1, <3>1, <4>1
    <3>2. CASE w[o] # w[best]
      BY <1>2, <1>3, <2>1, <3>2
    <3> QED BY <3>1, <3>2
  <2> QED BY <2>1, <2>2
<1>10. \E x \in group : \A o \in group :
         Weight(x) > Weight(o) \/ (Weight(x) = Weight(o) /\ Before[x.id] <= Before[o.id])
  BY <1>1, <1>9
<1> QED BY <1>10 DEF Winner

\* Being the same model is mutual.
LEMMA SameModelSymmetric ==
  ASSUME NEW a, NEW b, SameModel(a, b)
  PROVE  SameModel(b, a)
BY DEF SameModel

\* A class holds its entry, is closed under being the same model, and is the
\* class of each of its elements.
LEMMA ClassFacts ==
  ASSUME NEW entries, NEW e \in entries
  PROVE  /\ Class(entries, e) \subseteq entries /\ e \in Class(entries, e)
         /\ Linked(entries, Class(entries, e))
         /\ \A d \in Class(entries, e) : Class(entries, d) = Class(entries, e)
<1>1. ASSUME NEW x \in entries
      PROVE  /\ Class(entries, x) \subseteq entries /\ x \in Class(entries, x)
             /\ Linked(entries, Class(entries, x))
  <2>1. Class(entries, x) \subseteq entries /\ x \in Class(entries, x)
    BY DEF Class
  <2>2. ASSUME NEW a \in Class(entries, x), NEW b \in entries, SameModel(a, b)
        PROVE  b \in Class(entries, x)
    <3>1. SUFFICES ASSUME NEW S \in SUBSET entries, x \in S, Linked(entries, S)
                   PROVE  b \in S
      BY DEF Class
    <3>2. a \in S
      BY <3>1 DEF Class
    <3> QED BY <2>2, <3>1, <3>2 DEF Linked
  <2> QED BY <2>1, <2>2 DEF Linked
<1>2. ASSUME NEW x \in entries, NEW y \in Class(entries, x)
      PROVE  Class(entries, y) \subseteq Class(entries, x)
  <2>1. Class(entries, x) \in SUBSET entries /\ Linked(entries, Class(entries, x))
    BY <1>1
  <2> QED BY <2>1, <1>2 DEF Class
<1>3. ASSUME NEW d \in Class(entries, e)
      PROVE  e \in Class(entries, d)
  <2>1. SUFFICES ASSUME e \notin Class(entries, d)
                 PROVE  FALSE
    OBVIOUS
  <2>2. d \in entries
    BY <1>1
  <2> DEFINE S == entries \ Class(entries, d)
  <2>3. Linked(entries, S)
    <3>1. ASSUME NEW a \in S, NEW b \in entries, SameModel(a, b)
          PROVE  b \in S
      <4>1. SUFFICES ASSUME b \in Class(entries, d)
                     PROVE  FALSE
        OBVIOUS
      <4>2. SameModel(b, a)
        BY <3>1, SameModelSymmetric
      <4>3. a \in Class(entries, d)
        BY <1>1, <2>2, <4>1, <4>2 DEF Linked
      <4> QED BY <4>3
    <3> QED BY <3>1 DEF Linked
  <2>4. S \in SUBSET entries /\ e \in S
    BY <2>1
  <2>5. d \in S
    BY <2>3, <2>4 DEF Class
  <2> QED BY <1>1, <2>2, <2>5
<1>4. ASSUME NEW d \in Class(entries, e)
      PROVE  Class(entries, d) = Class(entries, e)
  <2>1. d \in entries /\ e \in Class(entries, d)
    BY <1>1, <1>3
  <2> QED BY <1>2, <2>1
<1> QED BY <1>1, <1>4

\* Merging a class gives an entry with the winner's id.
LEMMA MergedClassType ==
  ASSUME NEW class, class \subseteq Whole, NEW winner \in class, NEW to \in Maps(Forms)
  PROVE  MergedClass(class, winner, to) \in Whole /\ MergedClass(class, winner, to).id = winner.id
<1> DEFINE Holding(p) == {e \in class : p \in DOMAIN e.parents}
           Giver(p) == IF winner \in Holding(p) THEN winner
                       ELSE CHOOSE e \in Holding(p) : \A o \in Holding(p) : Before[e.id] <= Before[o.id]
           ends == UNION {DOMAIN e.parents : e \in class}
           edges == [p \in ends |-> Giver(p).parents[p]]
<1>1. MergedClass(class, winner, to) = [Combined(winner, class) EXCEPT !.parents = Redirected(edges, to)]
  BY DEF MergedClass
<1>2. \A e \in class : DOMAIN e.parents \subseteq Forms /\ \A p \in DOMAIN e.parents : e.parents[p] \in Relations
  BY DEF Whole, Entries, Edges
<1>3. ASSUME NEW p \in ends
      PROVE  Giver(p).parents[p] \in Relations
  <2>1. Holding(p) # {} /\ Holding(p) \subseteq class
    OBVIOUS
  <2>2. PICK r : r = [e \in Holding(p) |-> Before[e.id]]
    OBVIOUS
  <2>3. \A e \in class : Before[e.id] \in Nat
    BY FormFacts DEF Whole, Entries
  <2>4. \A e \in Holding(p) : r[e] \in Nat
    BY <2>2, <2>3
  <2>5. \A e \in Holding(p) : e \in class /\ p \in DOMAIN e.parents
    OBVIOUS
  <2> HIDE DEF Holding
  <2>6. \E e \in Holding(p) : \A o \in Holding(p) : r[e] <= r[o]
    BY <2>1, <2>4, LeastBy
  <2>7. \E e \in Holding(p) : \A o \in Holding(p) : Before[e.id] <= Before[o.id]
    BY <2>2, <2>6
  <2>8. Giver(p) \in Holding(p)
    BY <2>7
  <2> HIDE DEF Giver
  <2> QED BY <1>2, <2>5, <2>8
<1> HIDE DEF Giver
<1>4. edges \in [ends -> Relations] /\ ends \subseteq Forms
  BY <1>2, <1>3
<1>5. edges \in Edges
  BY <1>4 DEF Edges
<1> HIDE DEF edges
<1>6. Redirected(edges, to) \in Edges
  BY <1>5, RedirectedType
<1>7. Combined(winner, class) \in Whole /\ Combined(winner, class).id = winner.id
  BY CombinedType
<1> QED BY <1>1, <1>6, <1>7 DEF Whole, Entries

\* No two entries have one normalized id.
Distinct(entries) == \A d, e \in entries : Norm[d.id] = Norm[e.id] => d = e

\* One entry is left per class, and no two of different classes are the same
\* model.
LEMMA OneEachFacts ==
  ASSUME NEW entries, entries \subseteq Whole, OnePerId(entries)
  PROVE  OneEach(entries) \subseteq Whole /\ Distinct(OneEach(entries))
<1> DEFINE classes == Classes(entries)
           Winning(id) == Winner(CHOOSE c \in classes : \E e \in c : e.id = id).id
           to == [id \in {e.id : e \in UNION classes} |-> Winning(id)]
<1>1. OneEach(entries) = {MergedClass(c, Winner(c), to) : c \in classes}
  BY DEF OneEach, Collapsed
<1>2. entries \subseteq Entries
  BY DEF Whole
<1>3. IsFiniteSet(entries)
  BY <1>2, ListedFacts
<1>4. \A c \in classes : /\ c \subseteq entries /\ c # {} /\ Linked(entries, c)
                         /\ \A d \in c : c = Class(entries, d)
  BY ClassFacts DEF Classes
<1>5. \A c \in classes : c \subseteq Whole /\ Winner(c) \in c
  <2> TAKE c \in classes
  <2>1. c \subseteq Whole /\ IsFiniteSet(c) /\ c # {}
    BY <1>3, <1>4, FS_Subset
  <2> QED BY <2>1, WinnerFacts
<1>6. to \in Maps(Forms)
  <2>1. {e.id : e \in UNION classes} \subseteq Forms
    BY <1>5 DEF Whole, Entries
  <2>2. ASSUME NEW id \in {e.id : e \in UNION classes}
        PROVE  Winning(id) \in Forms
    <3>1. PICK c : c = CHOOSE x \in classes : \E e \in x : e.id = id
      OBVIOUS
    <3>2. \E x \in classes : \E e \in x : e.id = id
      OBVIOUS
    <3>3. c \in classes
      BY <3>1, <3>2
    <3>4. Winner(c).id \in Forms
      BY <1>5, <3>3 DEF Whole, Entries
    <3> QED BY <3>1, <3>4
  <2> HIDE DEF Winning, classes
  <2>3. to \in [{e.id : e \in UNION classes} -> Forms]
    BY <2>2
  <2> QED BY <2>1, <2>3, MapFacts
<1> HIDE DEF to
<1>7. \A c \in classes : /\ MergedClass(c, Winner(c), to) \in Whole
                         /\ MergedClass(c, Winner(c), to).id = Winner(c).id
  BY <1>5, <1>6, MergedClassType
<1>8. ASSUME NEW c \in classes, NEW d \in classes, Norm[Winner(c).id] = Norm[Winner(d).id]
      PROVE  c = d
  <2>1. Winner(c) \in c /\ Winner(d) \in d /\ Winner(d) \in entries
    BY <1>4, <1>5
  <2>2. SameModel(Winner(c), Winner(d))
    BY <1>8 DEF SameModel
  <2>3. Winner(d) \in c
    BY <1>4, <2>1, <2>2 DEF Linked
  <2> QED BY <1>4, <2>1, <2>3
<1> HIDE DEF classes
<1> QED BY <1>1, <1>7, <1>8 DEF Distinct

\* An alias belongs to one entry, and is nobody else's id.
Separate(entries) ==
  \A d, e \in entries : d # e =>
    \A f \in d.aliases : f \notin e.aliases /\ (f # d.id => Norm[f] # Norm[e.id])
\* The alias passes leave each alias with one owner, and no other id.
LEMMA OneOwnerEachFacts ==
  ASSUME NEW entries, entries \subseteq Whole, Distinct(entries)
  PROVE  LET out == OneOwnerEach(entries) IN out \subseteq Whole /\ Distinct(out) /\ Separate(out)
<1> DEFINE ids == {e.id : e \in entries}
           Taken(f, id) == f # id /\ \E o \in ids \ {id} : o = f \/ Norm[o] = Norm[f]
           Own(e) == [e EXCEPT !.aliases = {f \in @ : ~Taken(f, e.id)}]
           own == {Own(e) : e \in entries}
           Claimers(f) == {e.id : e \in {o \in own : f \in o.aliases \cup {o.name}}}
           Natural(f) == {c \in Claimers(f) : Norm[LastPart[c]] = Norm[f]}
           Keeper(f) == FirstOf(IF Natural(f) # {} THEN Natural(f) ELSE Claimers(f))
           Keeping(e) == [e EXCEPT !.aliases = {f \in @ : Keeper(f) = e.id},
                                   !.name = IF Keeper(@) = e.id THEN @ ELSE LastPart[e.id]]
<1>1. OneOwnerEach(entries) = {Keeping(e) : e \in own}
  BY DEF OneOwnerEach
<1> HIDE DEF Keeper
<1>2. ASSUME NEW e \in entries
      PROVE  Own(e) \in Whole /\ Own(e).id = e.id /\ \A f \in Own(e).aliases : ~Taken(f, e.id)
  <2>1. PICK mine : mine = {f \in e.aliases : ~Taken(f, e.id)}
    OBVIOUS
  <2>2. mine \subseteq Forms /\ \A f \in mine : ~Taken(f, e.id)
    BY <2>1 DEF Whole, Entries
  <2> HIDE DEF Taken
  <2> QED BY <2>1, <2>2 DEF Whole, Entries
<1>3. \A f, id, p : id # p /\ p \in ids /\ ~Taken(f, id) /\ f # id => Norm[f] # Norm[p]
  OBVIOUS
<1> HIDE DEF Own, Taken
<1>4. \A o \in own : o \in Whole /\ o.id \in ids /\ \A f \in o.aliases : ~Taken(f, o.id)
  BY <1>2
<1>5. \A o, p \in own : Norm[o.id] = Norm[p.id] => o = p
  BY <1>2 DEF Distinct
<1> HIDE DEF own, ids
<1>6. ASSUME NEW o \in own
      PROVE  /\ Keeping(o) \in Whole /\ Keeping(o).id = o.id
             /\ \A f \in Keeping(o).aliases : f \in o.aliases /\ Keeper(f) = o.id
  <2>1. PICK name : name = IF Keeper(o.name) = o.id THEN o.name ELSE LastPart[o.id]
    OBVIOUS
  <2>2. PICK mine : mine = {f \in o.aliases : Keeper(f) = o.id}
    OBVIOUS
  <2>3. o \in Whole /\ name \in Forms \cup {None} /\ mine \subseteq Forms
    <3>1. o \in Whole /\ o.id \in Forms /\ o.name \in Forms \cup {None} /\ o.aliases \subseteq Forms
      BY <1>4 DEF Whole, Entries
    <3> QED BY <2>1, <2>2, <3>1, FormFacts
  <2>4. Keeping(o) = [o EXCEPT !.aliases = mine, !.name = name]
    BY <2>1, <2>2, <2>3 DEF Whole, Entries
  <2>5. Keeping(o).id = o.id /\ Keeping(o).aliases = mine /\ Keeping(o) \in Whole
    BY <2>3, <2>4 DEF Whole, Entries
  <2> HIDE DEF Keeping
  <2> QED BY <2>2, <2>5
<1> HIDE DEF Keeping
<1>7. ASSUME NEW o \in own, NEW p \in own, Keeping(o) # Keeping(p), NEW f \in Keeping(o).aliases
      PROVE  f \notin Keeping(p).aliases /\ (f # o.id => Norm[f] # Norm[p.id])
  <2>1. o.id # p.id
    BY <1>5, <1>7
  <2>2. f \in o.aliases /\ Keeper(f) = o.id /\ ~Taken(f, o.id)
    BY <1>4, <1>6, <1>7
  <2>3. f # o.id => Norm[f] # Norm[p.id]
    BY <1>3, <1>4, <2>1, <2>2
  <2>4. f \notin Keeping(p).aliases
    BY <1>6, <2>1, <2>2
  <2> QED BY <2>3, <2>4
<1> QED BY <1>1, <1>5, <1>6, <1>7 DEF Distinct, Separate

\* What the generator returns for any catalog, hub index and protected roots:
\* full entries, no two of one normalized id, no alias with two owners and none
\* that spells another's id (_reconcile_intra_output: "no emitted alias equals
\* (exact or resolver-normalized) another canonical's id").
THEOREM GeneratedEntries ==
  ASSUME NEW catalog, IsCatalog(catalog), NEW hub, hub \subseteq Forms, NEW roots
  PROVE  LET out == Generate(catalog, hub, roots)
         IN /\ \A e \in out : IsEntry(e) /\ e.full /\ ~e.removed
            /\ \A d, e \in out : Norm[d.id] = Norm[e.id] => d = e
            /\ \A d, e \in out : d # e => \A f \in d.aliases : f \notin e.aliases /\ Norm[f] # Norm[e.id]
<1> DEFINE out == Generate(catalog, hub, roots)
           keys == {OrKey[r.raw] : r \in {c \in catalog : c.provider = "openrouter"}}
           entries == OneEach(Dedup(MergeBare(MintedEntries(catalog, hub, roots))))
           owned == OneOwnerEach(entries)
           Tagged(e) == [e EXCEPT !.aliases = @ \ {e.id}, !.adopted = @ \/ (e.id \in keys /\ ~e.deferred)]
<1>1. out = {Tagged(e) : e \in owned}
  BY DEF Generate
<1> HIDE DEF out, keys
<1>2. entries \subseteq Whole /\ Distinct(entries)
  BY MintedEntriesType, MergeBareType, DedupFacts, OneEachFacts
<1> HIDE DEF entries
<1>3. owned \subseteq Whole /\ Distinct(owned) /\ Separate(owned)
  BY <1>2, OneOwnerEachFacts
<1> HIDE DEF owned
<1>4. ASSUME NEW e \in owned
      PROVE  /\ Tagged(e) \in Whole /\ Tagged(e).id = e.id
             /\ \A f \in Tagged(e).aliases : f # e.id /\ f \in e.aliases
  BY <1>3 DEF Whole, Entries
<1> HIDE DEF Tagged
<1>5. \A e \in out : IsEntry(e) /\ e.full /\ ~e.removed
  BY <1>1, <1>4, EntryForm DEF Whole
<1>6. \A d, e \in out : Norm[d.id] = Norm[e.id] => d = e
  BY <1>1, <1>3, <1>4 DEF Distinct
<1>7. \A d, e \in out : d # e => \A f \in d.aliases : f \notin e.aliases /\ Norm[f] # Norm[e.id]
  BY <1>1, <1>3, <1>4 DEF Separate
<1> QED BY <1>5, <1>6, <1>7 DEF out

-----------------------------------------------------------------------------
(* The job's operators.                                                     *)

\* A part of a sequence, and the sequence sorted by ids.
LEMMA OnlyType ==
  ASSUME NEW T, NEW seq \in Seq(T), NEW S
  PROVE  Only(seq, S) \in Seq(T) /\ \A k \in DOMAIN Only(seq, S) : Only(seq, S)[k] \in S
<1> DEFINE at == {n \in DOMAIN seq : seq[n] \in S}
           rank == [n \in at |-> n]
           places == InOrder(at, rank)
<1>1. Only(seq, S) = [k \in 1 .. Cardinality(at) |-> seq[places[k]]]
  BY DEF Only
<1>2. DOMAIN seq = 1 .. Len(seq) /\ Len(seq) \in Nat /\ at \subseteq 1 .. Len(seq)
  OBVIOUS
<1>3. IsFiniteSet(at)
  <2> HIDE DEF at
  <2>1. IsFiniteSet(1 .. Len(seq))
    BY <1>2, FS_Interval
  <2> QED BY <1>2, <2>1, FS_Subset
<1>4. /\ \A n \in at : rank[n] \in Nat
      /\ \A m, n \in at : rank[m] = rank[n] => m = n
  BY <1>2
<1> HIDE DEF rank, at
<1>5. /\ places \in Seq(at) /\ Cardinality(at) \in Nat
      /\ DOMAIN places = 1 .. Cardinality(at)
  BY <1>3, <1>4, InOrderFacts
<1>6. \A k \in 1 .. Cardinality(at) : places[k] \in at
  BY <1>5
<1> HIDE DEF places
<1>7. \A k \in 1 .. Cardinality(at) : seq[places[k]] \in T
  <2> TAKE k \in 1 .. Cardinality(at)
  <2>1. places[k] \in 1 .. Len(seq)
    BY <1>2, <1>6
  <2> QED BY <2>1, ElementOfSeq
<1>8. \A k \in 1 .. Cardinality(at) : seq[places[k]] \in S
  BY <1>6 DEF at
<1>9. DOMAIN Only(seq, S) = 1 .. Cardinality(at)
  BY <1>1
<1> QED BY <1>1, <1>5, <1>7, <1>8, <1>9

\* Places in the order of ids first and of numbers next are told apart.
LEMMA RankFacts ==
  ASSUME NEW L \in Nat, NEW a \in Nat, NEW b \in Nat, NEW m \in 1 .. L, NEW n \in 1 .. L
  PROVE  /\ a * (L + 1) + m \in Nat
         /\ a * (L + 1) + m = b * (L + 1) + n => m = n
<1>1. ASSUME NEW x \in Nat, NEW y \in Nat, x < y, NEW i \in 1 .. L, NEW j \in 1 .. L
      PROVE  x * (L + 1) + i < y * (L + 1) + j
  <2>1. PICK d \in Nat : y = x + 1 + d
    <3>1. y - (x + 1) \in Nat
      BY <1>1
    <3> QED BY <3>1
  <2>2. y * (L + 1) = x * (L + 1) + (L + 1) + d * (L + 1)
    BY <2>1
  <2>3. d * (L + 1) \in Nat /\ x * (L + 1) \in Nat
    OBVIOUS
  <2> QED BY <2>2, <2>3
<1>2. PICK p \in Nat : p = a * (L + 1)
  OBVIOUS
<1>3. PICK q \in Nat : q = b * (L + 1)
  OBVIOUS
<1>4. a < b => p + m < q + n
  BY <1>1, <1>2, <1>3
<1>5. b < a => q + n < p + m
  BY <1>1, <1>2, <1>3
<1>6. a = b => p = q
  BY <1>2, <1>3
<1> QED BY <1>2, <1>3, <1>4, <1>5, <1>6

\* Sorting keeps a sequence of entries one.
LEMMA SortedType ==
  ASSUME NEW seq \in Seq(Entries)
  PROVE  Sorted(seq) \in Seq(Entries)
<1> DEFINE L == Len(seq)
           rank == [n \in DOMAIN seq |-> Before[seq[n].id] * (L + 1) + n]
           places == InOrder(DOMAIN seq, rank)
<1>1. Sorted(seq) = [k \in DOMAIN seq |-> seq[places[k]]]
  BY DEF Sorted
<1>2. DOMAIN seq = 1 .. L /\ L \in Nat
  OBVIOUS
<1>3. \A n \in 1 .. L : Before[seq[n].id] \in Nat
  <2>1. \A n \in 1 .. L : seq[n] \in Entries
    OBVIOUS
  <2>2. \A n \in 1 .. L : seq[n].id \in Forms
    BY <2>1 DEF Entries
  <2> QED BY <2>2, FormFacts
<1>4. \A n \in 1 .. L : rank[n] = Before[seq[n].id] * (L + 1) + n
  BY <1>2
<1> HIDE DEF rank
<1>5. ASSUME NEW m \in 1 .. L, NEW n \in 1 .. L
      PROVE  rank[m] \in Nat /\ (rank[m] = rank[n] => m = n)
  <2>1. PICK a \in Nat : a = Before[seq[m].id]
    BY <1>3
  <2>2. PICK b \in Nat : b = Before[seq[n].id]
    BY <1>3
  <2>3. rank[m] = a * (L + 1) + m /\ rank[n] = b * (L + 1) + n
    BY <1>4, <2>1, <2>2
  <2> QED BY <1>2, <2>3, RankFacts
<1>6. \A n \in 1 .. L : rank[n] \in Nat
  BY <1>5
<1>7. \A m, n \in 1 .. L : rank[m] = rank[n] => m = n
  BY <1>5
<1>8. IsFiniteSet(1 .. L) /\ Cardinality(1 .. L) = L
  BY <1>2, FS_Interval
<1>9. InOrder(1 .. L, rank) \in Seq(1 .. L) /\ DOMAIN InOrder(1 .. L, rank) = 1 .. L
  BY <1>6, <1>7, <1>8, InOrderFacts
<1>10. \A k \in 1 .. L : places[k] \in 1 .. L
  <2>1. places = InOrder(1 .. L, rank)
    BY <1>2
  <2> QED BY <1>9, <2>1
<1> HIDE DEF places
<1>11. \A k \in 1 .. L : seq[places[k]] \in Entries
  BY <1>2, <1>10
<1> QED BY <1>1, <1>2, <1>11

\* The forms of an entry are forms.
LEMMA FormsOfType ==
  ASSUME NEW e \in Entries
  PROVE  FormsOf(e) \subseteq Forms /\ e.id \in Forms /\ e.aliases \subseteq Forms
BY DEF Entries, FormsOf

\* Who owns a form is an entry's id.
LEMMA IndexType ==
  ASSUME NEW sources \in Seq(Entries)
  PROVE  Index(sources) \in Indexes
<1> DEFINE D == DOMAIN sources
           Of(n) == FormsOf(sources[n])
           Own(n) == {sources[n].id} \cup sources[n].aliases
           Owner(ns) == sources[First(ns)].id
           forms == UNION {Of(n) : n \in D}
           ids == UNION {{e.id} \cup e.aliases : e \in Range(sources)}
           exact == [f \in forms |-> Owner({n \in D : f \in Of(n)})]
           norm == [m \in {Norm[f] : f \in forms} |-> Owner({n \in D : \E f \in Of(n) : Norm[f] = m})]
           lower == [l \in {Lower[i] : i \in ids} |->
                       Owner({n \in D : \E i \in {sources[n].id} \cup sources[n].aliases : Lower[i] = l})]
<1>1. Index(sources) = [exact |-> exact, norm |-> norm, lower |-> lower]
  BY DEF Index
<1>2. D = 1 .. Len(sources) /\ \A n \in D : sources[n] \in Entries
  OBVIOUS
<1>3. \A n \in D : Of(n) \subseteq Forms /\ Own(n) \subseteq Forms /\ sources[n].id \in Forms
  BY <1>2, FormsOfType
<1>4. ASSUME NEW ns, ns \subseteq D, ns # {}
      PROVE  Owner(ns) \in Forms
  <2>1. ns \subseteq Nat
    BY <1>2, <1>4
  <2>2. First(ns) \in ns
    BY <1>4, <2>1, FirstFacts
  <2> QED BY <1>3, <1>4, <2>2
<1>5. ids = UNION {Own(n) : n \in D}
  BY DEF Range
<1> HIDE DEF Of, Own, Owner, ids, D
<1>6. exact \in Maps(Forms)
  <2>1. \A f \in forms : {n \in D : f \in Of(n)} # {}
    OBVIOUS
  <2>2. exact \in [forms -> Forms]
    BY <1>4, <2>1
  <2>3. forms \in SUBSET Forms
    BY <1>3
  <2> QED BY <2>2, <2>3, MapFacts
<1>7. norm \in Maps({Norm[f] : f \in Forms})
  <2> DEFINE S == {Norm[f] : f \in forms}
             N == {Norm[f] : f \in Forms}
  <2>1. \A m \in S : {n \in D : \E f \in Of(n) : Norm[f] = m} # {}
    OBVIOUS
  <2>2. norm \in [S -> Forms]
    BY <1>4, <2>1
  <2>3. S \in SUBSET N
    BY <1>3
  <2> HIDE DEF N, S, norm
  <2>4. norm \in Maps(N)
    BY <2>2, <2>3, MapFacts
  <2> QED BY <2>4 DEF N
<1>8. lower \in Maps({Lower[f] : f \in Forms})
  <2> DEFINE S == {Lower[i] : i \in ids}
             N == {Lower[f] : f \in Forms}
  <2>1. \A l \in S : {n \in D : \E i \in {sources[n].id} \cup sources[n].aliases : Lower[i] = l} # {}
    BY <1>5 DEF Own
  <2>2. lower \in [S -> Forms]
    BY <1>4, <2>1
  <2>3. S \in SUBSET N
    BY <1>3, <1>5
  <2> HIDE DEF N, S, lower
  <2>4. lower \in Maps(N)
    BY <2>2, <2>3, MapFacts
  <2> QED BY <2>4 DEF N
<1> HIDE DEF exact, norm, lower
<1> QED BY <1>1, <1>6, <1>7, <1>8 DEF Indexes

\* Who owns a form is one of the entries.
LEMMA IndexOwns ==
  ASSUME NEW sources \in Seq(Entries), NEW f, OwnerIn(Index(sources), f) # None
  PROVE  \E n \in DOMAIN sources : OwnerIn(Index(sources), f) = sources[n].id
<1> DEFINE D == DOMAIN sources
           Of(n) == FormsOf(sources[n])
           Owner(ns) == sources[First(ns)].id
           forms == UNION {Of(n) : n \in D}
           exact == [g \in forms |-> Owner({n \in D : g \in Of(n)})]
           norm == [m \in {Norm[g] : g \in forms} |-> Owner({n \in D : \E g \in Of(n) : Norm[g] = m})]
<1>1. Index(sources).exact = exact /\ Index(sources).norm = norm
  BY DEF Index
<1>2. D \subseteq Nat
  OBVIOUS
<1>3. ASSUME NEW ns, ns \subseteq D, ns # {}
      PROVE  \E n \in D : Owner(ns) = sources[n].id
  <2>1. First(ns) \in ns
    BY <1>2, <1>3, FirstFacts
  <2> QED BY <1>3, <2>1
<1> HIDE DEF Of, Owner, D
<1>4. \A g \in forms : \E n \in D : exact[g] = sources[n].id
  <2>1. \A g \in forms : {n \in D : g \in Of(n)} # {}
    OBVIOUS
  <2> QED BY <1>3, <2>1
<1>5. \A m \in DOMAIN norm : \E n \in D : norm[m] = sources[n].id
  <2>1. \A m \in DOMAIN norm : {n \in D : \E g \in Of(n) : Norm[g] = m} # {}
    OBVIOUS
  <2> QED BY <1>3, <2>1
<1>6. DOMAIN exact = forms
  OBVIOUS
<1> HIDE DEF exact, norm, forms
<1>7. OwnerIn(Index(sources), f) = IF f \in DOMAIN exact THEN exact[f] ELSE At(norm, Norm[f])
  BY <1>1 DEF OwnerIn
<1>8. CASE f \in DOMAIN exact
  BY <1>4, <1>6, <1>7, <1>8 DEF D
<1>9. CASE f \notin DOMAIN exact
  <2>1. At(norm, Norm[f]) # None
    BY <1>7, <1>9
  <2>2. Norm[f] \in DOMAIN norm /\ At(norm, Norm[f]) = norm[Norm[f]]
    BY <2>1 DEF At
  <2> QED BY <1>5, <1>7, <1>9, <2>2 DEF D
<1> QED BY <1>8, <1>9

\* What is in two sequences is in both together.
LEMMA RangeFacts ==
  ASSUME NEW s \in Seq(Entries), NEW t \in Seq(Entries)
  PROVE  /\ s \o t \in Seq(Entries) /\ Range(s \o t) = Range(s) \cup Range(t)
         /\ Range(s) \subseteq Entries
<1> DEFINE u == s \o t
<1>1. /\ u \in Seq(Entries) /\ DOMAIN s = 1 .. Len(s) /\ DOMAIN t = 1 .. Len(t) /\ Len(s) \in Nat /\ Len(t) \in Nat
      /\ DOMAIN u = 1 .. (Len(s) + Len(t))
      /\ \A n \in 1 .. (Len(s) + Len(t)) : u[n] = IF n <= Len(s) THEN s[n] ELSE t[n - Len(s)]
  BY ConcatProperties, LenProperties
<1> HIDE DEF u
<1>2. ASSUME NEW n \in DOMAIN u
      PROVE  u[n] \in Range(s) \cup Range(t)
  <2>1. CASE n <= Len(s)
    BY <1>1, <2>1 DEF Range
  <2>2. CASE n > Len(s)
    <3>1. n - Len(s) \in DOMAIN t /\ u[n] = t[n - Len(s)]
      BY <1>1, <2>2
    <3> QED BY <3>1 DEF Range
  <2> QED BY <1>1, <2>1, <2>2
<1>3. ASSUME NEW n \in DOMAIN s
      PROVE  s[n] \in Range(u)
  <2>1. n \in DOMAIN u /\ u[n] = s[n]
    BY <1>1
  <2> QED BY <2>1 DEF Range
<1>4. ASSUME NEW n \in DOMAIN t
      PROVE  t[n] \in Range(u)
  <2>1. n + Len(s) \in DOMAIN u /\ u[n + Len(s)] = t[n]
    BY <1>1
  <2> QED BY <2>1 DEF Range
<1>5. Range(u) = Range(s) \cup Range(t)
  BY <1>2, <1>3, <1>4 DEF Range
<1>6. Range(s) \subseteq Entries
  BY <1>1, ElementOfSeq DEF Range
<1> QED BY <1>1, <1>5, <1>6 DEF u

\* Who owns a form is a form, or none.
LEMMA OwnerInType ==
  ASSUME NEW ix \in Indexes, NEW f
  PROVE  OwnerIn(ix, f) \in Forms \cup {None}
<1>1. ix.exact \in Maps(Forms) /\ ix.norm \in Maps({Norm[g] : g \in Forms})
  BY DEF Indexes
<1> QED BY <1>1, MapFacts, MapAt DEF OwnerIn

\* The empty index is one.
LEMMA NoIndexType == NoIndex \in Indexes
BY MapFacts DEF NoIndex, Indexes

\* The other sources are entries of distinct ids.
LEMMA SourceFacts ==
  ASSUME NEW S \in {Oracle, HubStats, Tier3, Enrichments}
  PROVE  S \subseteq Entries /\ OnePerId(S) /\ Listed(Active(S)) \in Seq(Entries)
<1>1. S \subseteq Entries /\ OnePerId(S)
  BY RefreshAssumption, EntryForm
<1>2. Active(S) \subseteq Entries /\ OnePerId(Active(S)) /\ Active(S) \subseteq S
  BY <1>1 DEF Active, OnePerId
<1>3. Listed(Active(S)) \in Seq(Active(S))
  BY <1>2, ListedFacts
<1> QED BY <1>1, <1>2, <1>3, SeqMonotonic

\* What the other sources define are entries.
LEMMA IndependentType ==
  ASSUME today \in Days
  PROVE  Independent \in Seq(Entries) /\ Listed(today.core) \in Seq(Entries)
<1>1. OnePerId(today.core) /\ today.core \subseteq Entries
  BY RefreshAssumption, EntryForm
<1>2. Listed(today.core) \in Seq(today.core)
  BY <1>1, ListedFacts
<1>3. Listed(today.core) \in Seq(Entries)
  BY <1>1, <1>2, SeqMonotonic
<1>4. /\ Listed(Active(Oracle)) \in Seq(Entries) /\ Listed(Active(HubStats)) \in Seq(Entries)
      /\ Listed(Active(Tier3)) \in Seq(Entries) /\ Listed(Active(Enrichments)) \in Seq(Entries)
  BY SourceFacts
<1> QED BY <1>3, <1>4, ConcatProperties DEF Independent

\* The HF entry something is folded onto is another HF id, and a form, or none.
LEMMA FoldTargetType ==
  ASSUME NEW e
  PROVE  /\ FoldTarget(e) \in Forms \cup {None}
         /\ FoldTarget(e) \in (HfIds \ {e.id}) \cup {None}
<1> DEFINE strings == FormsOf(e)
           org == IF e.org # None THEN e.org ELSE Developer[e.id]
           others == HfIds \ {e.id}
           exact == strings \cap others
           declared == {h.id : h \in {x \in Active(Oracle) :
                          x.id \in others /\ FormsOf(x) \cap strings # {} /\ org \in {None, Developer[x.id]}}}
           own == {h \in others : org # None /\ Developer[h] = org}
           named == {h \in own : \E s \in strings : Glued[s] = Glued[h]}
           branded == {h \in own : \E s \in strings : Glued[h] \in Unbranded[s]}
           OneOf(ids) == IF flip THEN FirstOf(ids) ELSE CHOOSE h \in ids : \A o \in ids : Before[o] <= Before[h]
<1>1. FoldTarget(e) = IF exact # {} THEN FirstOf(exact) ELSE IF declared # {} THEN FirstOf(declared)
                      ELSE IF named # {} THEN OneOf(named) ELSE IF branded # {} THEN OneOf(branded) ELSE None
  BY DEF FoldTarget
<1>2. HfIds \subseteq Forms
  <2>1. Active(Oracle) \subseteq Oracle
    BY DEF Active
  <2>2. Oracle \subseteq Entries
    BY SourceFacts
  <2>3. \A x \in Active(Oracle) : x.id \in Forms
    BY <2>1, <2>2 DEF Entries
  <2>4. OracleIds \subseteq Forms
    BY CatalogAssumption
  <2> QED BY <2>3, <2>4 DEF HfIds
<1>3. /\ exact \subseteq others /\ declared \subseteq others /\ named \subseteq others
      /\ branded \subseteq others /\ others \subseteq Forms
  BY <1>2
<1>4. ASSUME NEW ids, ids \subseteq others, ids # {}
      PROVE  FirstOf(ids) \in others /\ OneOf(ids) \in others
  <2>0. ids \subseteq Forms
    BY <1>3, <1>4
  <2>1. FirstOf(ids) \in others
    BY <1>4, <2>0, FirstOfFacts
  <2>2. IsFiniteSet(ids) /\ \A f \in ids : Before[f] \in Nat
    BY <2>0, FormFacts, FS_Subset
  <2>3. \E h \in ids : \A o \in ids : Before[o] <= Before[h]
    BY <1>4, <2>2, GreatestBy
  <2>4. (CHOOSE h \in ids : \A o \in ids : Before[o] <= Before[h]) \in ids
    BY <2>3
  <2> QED BY <1>4, <2>1, <2>4
<1> HIDE DEF exact, declared, named, branded, OneOf, others
<1>5. FoldTarget(e) \in others \cup {None}
  BY <1>1, <1>3, <1>4
<1> QED BY <1>3, <1>5 DEF others

\* Renames followed to their end are renames.
LEMMA FinalType ==
  ASSUME NEW to \in Maps(Forms)
  PROVE  Final(to) \in Maps(Forms)
<1> DEFINE Follow(map) == [i \in DOMAIN map |-> IF map[i] \in DOMAIN to THEN to[map[i]] ELSE map[i]]
           after[n \in Nat] == IF n = 0 THEN to ELSE Follow(after[n - 1])
           M == Maps(Forms)
<1>1. Final(to) = after[Cardinality(DOMAIN to)]
  BY DEF Final
<1>2. Cardinality(DOMAIN to) \in Nat
  <2>1. DOMAIN to \subseteq Forms
    BY MapFacts
  <2> QED BY <2>1, FormFacts, FS_Subset, FS_CardinalityType
<1>3. ASSUME NEW map \in M
      PROVE  Follow(map) \in M
  <2>1. DOMAIN map \in SUBSET Forms /\ \A i \in DOMAIN map : map[i] \in Forms
    BY MapFacts
  <2>2. \A i \in DOMAIN to : to[i] \in Forms
    BY MapFacts
  <2>3. Follow(map) \in [DOMAIN map -> Forms]
    BY <2>1, <2>2
  <2> HIDE DEF Follow
  <2> QED BY <2>1, <2>3, MapFacts
<1> HIDE DEF Follow
<1>4. \E g : g = [n \in Nat |-> IF n = 0 THEN to ELSE Follow(g[n - 1])]
  <2> DEFINE step == [p \in Nat \X M |-> Follow(p[2])]
  <2>1. step \in [Nat \X M -> M]
    BY <1>3
  <2>2. \A n \in Nat, m \in M : step[<<n, m>>] = Follow(m)
    OBVIOUS
  <2>3. to \in M
    OBVIOUS
  <2> HIDE DEF step
  <2>4. PICK g : Iterates(M, to, step, g)
    BY <2>1, <2>3, Recursion
  <2>5. \A n \in Nat \ {0} : g[n] = Follow(g[n - 1])
    <3> TAKE n \in Nat \ {0}
    <3>1. n - 1 \in Nat /\ g[n - 1] \in M
      BY <2>4 DEF Iterates
    <3> QED BY <2>2, <2>4, <3>1 DEF Iterates
  <2>6. g = [n \in Nat |-> IF n = 0 THEN to ELSE Follow(g[n - 1])]
    BY <2>4, <2>5 DEF Iterates
  <2> QED BY <2>6
<1>5. after = [n \in Nat |-> IF n = 0 THEN to ELSE Follow(after[n - 1])]
  BY <1>4
<1> HIDE DEF after
<1>6. \A n \in Nat : after[n] \in M
  <2> DEFINE Bad == {n \in Nat : after[n] \notin M}
  <2>1. SUFFICES ASSUME Bad # {}
                 PROVE  FALSE
    OBVIOUS
  <2>2. PICK n \in Bad : \A j \in Bad : n <= j
    <3>1. Bad \subseteq Nat
      OBVIOUS
    <3> HIDE DEF Bad
    <3> QED BY <2>1, <3>1, LeastExists
  <2>3. n # 0
    BY <1>5, <2>2
  <2>4. n \in Nat /\ n - 1 \in Nat /\ n - 1 \notin Bad
    BY <2>2, <2>3
  <2>5. after[n] = Follow(after[n - 1])
    BY <1>5, <2>3, <2>4
  <2> QED BY <1>3, <2>2, <2>4, <2>5
<1> QED BY <1>1, <1>2, <1>6

\* Consolidating leaves one record per id.
LEMMA ConsolidatedFacts ==
  ASSUME NEW recs \in Seq(Entries)
  PROVE  Consolidated(recs) \subseteq Entries /\ OnePerId(Consolidated(recs))
<1> DEFINE Of(id) == {n \in DOMAIN recs : recs[n].id = id}
           Whole1(id) == {n \in Of(id) : recs[n].full}
           Lead(id) == recs[First(IF Whole1(id) # {} THEN Whole1(id) ELSE Of(id))]
           Given(id) == {n \in Of(id) : recs[n].weak # 0}
           Weak(id) == IF Lead(id).full \/ Given(id) = {} THEN Lead(id).weak ELSE recs[First(Given(id))].weak
           ids == {r.id : r \in Range(recs)}
           One(id) == [Lead(id) EXCEPT !.aliases = UNION {recs[n].aliases : n \in Of(id)} \ {id}, !.weak = Weak(id)]
<1>1. Consolidated(recs) = {One(id) : id \in ids}
  BY DEF Consolidated
<1>2. DOMAIN recs \subseteq Nat /\ \A n \in DOMAIN recs : recs[n] \in Entries
  OBVIOUS
<1>3. ASSUME NEW id \in ids
      PROVE  One(id) \in Entries /\ One(id).id = id
  <2>1. Of(id) # {} /\ Of(id) \subseteq DOMAIN recs
    BY DEF Range
  <2>2. Whole1(id) \subseteq Of(id) /\ Given(id) \subseteq Of(id)
    OBVIOUS
  <2>3. \A n \in Of(id) : recs[n].id = id /\ recs[n] \in Entries
    BY <1>2
  <2>4. UNION {recs[n].aliases : n \in Of(id)} \ {id} \subseteq Forms
    BY <2>3 DEF Entries
  <2> HIDE DEF Of, Whole1, Given
  <2>5. \A S : S \subseteq Of(id) /\ S # {} => First(S) \in Of(id)
    BY <1>2, <2>1, FirstFacts
  <2>6. Lead(id) \in Entries /\ Lead(id).id = id
    BY <2>1, <2>2, <2>3, <2>5
  <2> HIDE DEF Lead
  <2>7. Weak(id) \in Nat
    <3>1. Given(id) # {} => recs[First(Given(id))] \in Entries
      BY <2>2, <2>3, <2>5
    <3> QED BY <2>6, <3>1 DEF Entries
  <2> HIDE DEF Weak
  <2>8. PICK a \in SUBSET Forms : a = UNION {recs[n].aliases : n \in Of(id)} \ {id}
    BY <2>4
  <2>9. One(id) = [Lead(id) EXCEPT !.aliases = a, !.weak = Weak(id)]
    BY <2>8
  <2> QED BY <2>6, <2>7, <2>9 DEF Entries
<1> HIDE DEF One, ids
<1> QED BY <1>1, <1>3 DEF OnePerId

-----------------------------------------------------------------------------
(* The invariant of the job.                                                *)

Files == [full : SUBSET Entries, cat : Seq(Entries), orgs : SUBSET Orgs]
LowerApart(seq) == \A m, n \in DOMAIN seq : Lower[seq[m].id] = Lower[seq[n].id] => m = n
AllFull(seq) == \A n \in DOMAIN seq : seq[n].full
AllEnrich(seq) ==
  /\ \A n \in DOMAIN seq : ~seq[n].full /\ seq[n].org = None
  /\ \A m, n \in DOMAIN seq : seq[m].id = seq[n].id => m = n
Resolved(e) == e.org = None \/ CanonOrg[e.org] = e.org

\* The variables' types.
JobType ==
  /\ pc \in {"idle", "full", "load", "carry", "judge", "give", "keep", "catalog", "owners", "split",
             "union", "orgs", "verify", "commit"}
  /\ pass \in 0 .. 3 /\ turns \in 0 .. MaxTurns /\ days \in 0 .. MaxDays /\ today \in Days
  /\ master \in Files /\ tree \in Files /\ FileOK(master) /\ FileOK(tree)
  /\ fresh \in Seq(Entries) /\ slots \in Seq(Entries) /\ left \in Seq(Entries) /\ extra \in Seq(Entries)
  /\ index \in Indexes /\ wide \in Indexes /\ renamed \in Maps(Forms)

\* An entry is handed on to an id that some source or entry defines in full, or
\* to an HF repository; to its own id only if another source defines it.
Receivers(id) == {to \in InFull \cup HfIds : to = id => id \in Defined(Independent)}
Forwarded == \A id \in DOMAIN renamed : renamed[id] \in Receivers(id)

\* What was suppressed has such a receiver, until the edges to it are repointed.
Received ==
  /\ pc \in {"judge", "give", "keep"} => Forwarded
  /\ pc = "judge" => \A n \in DOMAIN extra : extra[n].id \in DOMAIN renamed
  /\ pc = "give" => \A n \in DOMAIN left : left[n].id \in DOMAIN renamed

\* The catalog's mints are full and differ in more than case, also from what is
\* still to split; its enrich records have distinct ids.
MintsApart ==
  /\ pc = "owners" => AllFull(fresh) /\ LowerApart(fresh)
  /\ pc = "split" =>
       /\ AllFull(left) /\ LowerApart(left)
       /\ \A m \in DOMAIN left, n \in DOMAIN slots : Lower[left[m].id] # Lower[slots[n].id]
  /\ pc \in {"split", "union"} => AllFull(slots) /\ LowerApart(slots) /\ AllEnrich(extra)

\* Orgs are canonical from the moment a file is written, and exist in the end.
OrgsExist ==
  /\ pc \in {"catalog", "owners", "split", "union", "orgs"} => \A e \in tree.full : Resolved(e)
  /\ pc = "orgs" => \A e \in Range(tree.cat) : Resolved(e)
  /\ pc \in {"verify", "commit"} => \A e \in Records(tree) : e.org \in {None} \cup KnownOrgs \cup tree.orgs

JobInv == JobType /\ Received /\ MintsApart /\ OrgsExist

\* What FileOK says of well-typed files.
LEMMA FileForm ==
  ASSUME NEW f \in Files
  PROVE  /\ FileOK(f) <=> /\ OnePerId(f.full)
                          /\ \A m, n \in DOMAIN f.cat :
                               f.cat[m].id = f.cat[n].id /\ f.cat[m].full = f.cat[n].full => m = n
         /\ Records(f) \subseteq Entries /\ f.full \subseteq Entries /\ f.cat \in Seq(Entries)
<1>1. f.full \subseteq Entries /\ f.cat \in Seq(Entries)
  BY DEF Files
<1>2. Range(f.cat) \subseteq Entries
  BY <1>1 DEF Range
<1> QED BY <1>1, <1>2, EntryForm DEF FileOK, Records

\* A committed file is a file.
LEMMA HeadsType ==
  ASSUME NEW h \in Heads
  PROVE  h \in Files /\ FileOK(h)
<1>1. FileOK(h) /\ h \in [full : {h.full}, cat : Seq(Range(h.cat)), orgs : SUBSET Orgs]
  BY RefreshAssumption
<1>2. \A e \in h.full \cup Range(h.cat) : e \in Entries
  BY <1>1, EntryForm DEF FileOK, Records
<1>3. h.full \subseteq Entries /\ Range(h.cat) \subseteq Entries
  BY <1>2
<1>4. h.cat \in Seq(Range(h.cat))
  BY <1>1
<1>5. h.cat \in Seq(Entries)
  BY <1>3, <1>4, SeqMonotonic
<1> QED BY <1>1, <1>3, <1>5 DEF Files

\* The first element and the others keep what all have.
LEMMA TailFacts ==
  ASSUME NEW s \in Seq(Entries), s # <<>>
  PROVE  /\ Head(s) \in Entries /\ Tail(s) \in Seq(Entries)
         /\ Head(s) = s[1] /\ 1 \in DOMAIN s
         /\ \A n \in DOMAIN Tail(s) : n + 1 \in DOMAIN s /\ n + 1 # 1 /\ Tail(s)[n] = s[n + 1]
         /\ AllFull(s) => AllFull(Tail(s)) /\ Head(s).full
         /\ LowerApart(s) => /\ LowerApart(Tail(s))
                             /\ \A n \in DOMAIN Tail(s) : Lower[Tail(s)[n].id] # Lower[Head(s).id]
<1>1. /\ Head(s) \in Entries /\ Tail(s) \in Seq(Entries)
      /\ Head(s) = s[1] /\ 1 \in DOMAIN s
      /\ DOMAIN s = 1 .. Len(s) /\ Len(s) \in Nat /\ DOMAIN Tail(s) = 1 .. (Len(s) - 1)
  BY HeadTailProperties, LenProperties
<1>2. \A n \in DOMAIN Tail(s) : n + 1 \in DOMAIN s /\ n + 1 # 1 /\ Tail(s)[n] = s[n + 1]
  BY <1>1, HeadTailProperties
<1>3. AllFull(s) => AllFull(Tail(s)) /\ Head(s).full
  BY <1>1, <1>2 DEF AllFull
<1>4. LowerApart(s) => LowerApart(Tail(s))
  <2>1. SUFFICES ASSUME LowerApart(s), NEW m \in DOMAIN Tail(s), NEW n \in DOMAIN Tail(s),
                        Lower[Tail(s)[m].id] = Lower[Tail(s)[n].id]
                 PROVE  m = n
    BY DEF LowerApart
  <2>2. m + 1 = n + 1
    BY <1>2, <2>1 DEF LowerApart
  <2> QED BY <1>1, <2>2
<1>5. LowerApart(s) => \A n \in DOMAIN Tail(s) : Lower[Tail(s)[n].id] # Lower[Head(s).id]
  BY <1>1, <1>2 DEF LowerApart
<1> QED BY <1>1, <1>2, <1>3, <1>4, <1>5

\* An entry at the end.
LEMMA AppendFacts ==
  ASSUME NEW s \in Seq(Entries), NEW e \in Entries
  PROVE  /\ Append(s, e) \in Seq(Entries) /\ DOMAIN s \subseteq DOMAIN Append(s, e)
         /\ \A n \in DOMAIN Append(s, e) : Append(s, e)[n] = e \/ (n \in DOMAIN s /\ Append(s, e)[n] = s[n])
         /\ AllFull(s) /\ e.full => AllFull(Append(s, e))
         /\ LowerApart(s) /\ (\A n \in DOMAIN s : Lower[s[n].id] # Lower[e.id]) => LowerApart(Append(s, e))
         /\ AllEnrich(s) /\ ~e.full /\ e.org = None /\ (\A n \in DOMAIN s : s[n].id # e.id) => AllEnrich(Append(s, e))
<1>1. /\ Append(s, e) \in Seq(Entries) /\ Len(s) \in Nat /\ DOMAIN s = 1 .. Len(s)
      /\ DOMAIN Append(s, e) = 1 .. (Len(s) + 1)
      /\ \A n \in 1 .. Len(s) : Append(s, e)[n] = s[n]
      /\ Append(s, e)[Len(s) + 1] = e
  BY AppendProperties, LenProperties
<1>2. /\ DOMAIN s \subseteq DOMAIN Append(s, e)
      /\ \A n \in DOMAIN Append(s, e) : (n = Len(s) + 1 /\ Append(s, e)[n] = e) \/ (n \in DOMAIN s /\ Append(s, e)[n] = s[n])
  BY <1>1
<1>3. AllFull(s) /\ e.full => AllFull(Append(s, e))
  BY <1>2 DEF AllFull
<1>4. LowerApart(s) /\ (\A n \in DOMAIN s : Lower[s[n].id] # Lower[e.id]) => LowerApart(Append(s, e))
  BY <1>2 DEF LowerApart
<1>5. AllEnrich(s) /\ ~e.full /\ e.org = None /\ (\A n \in DOMAIN s : s[n].id # e.id) => AllEnrich(Append(s, e))
  BY <1>2 DEF AllEnrich
<1> QED BY <1>1, <1>2, <1>3, <1>4, <1>5

\* Another entry in the place of one.
Put(s, n, e) == [s EXCEPT ![n] = e]

\* Such a sequence is one of entries, and keeps what the new one has.
LEMMA PutFacts ==
  ASSUME NEW s \in Seq(Entries), NEW n \in DOMAIN s, NEW e \in Entries
  PROVE  /\ Put(s, n, e) \in Seq(Entries) /\ DOMAIN Put(s, n, e) = DOMAIN s
         /\ AllFull(s) /\ e.full => AllFull(Put(s, n, e))
         /\ LowerApart(s) /\ (\A m \in DOMAIN s \ {n} : Lower[s[m].id] # Lower[e.id]) => LowerApart(Put(s, n, e))
         /\ AllEnrich(s) /\ ~e.full /\ e.org = None /\ e.id = s[n].id => AllEnrich(Put(s, n, e))
<1> DEFINE t == Put(s, n, e)
<1>1. t \in Seq(Entries) /\ DOMAIN t = DOMAIN s /\ \A m \in DOMAIN s : t[m] = IF m = n THEN e ELSE s[m]
  BY ExceptSeq DEF Put
<1> HIDE DEF t
<1>2. AllFull(s) /\ e.full => AllFull(t)
  BY <1>1 DEF AllFull
<1>3. LowerApart(s) /\ (\A m \in DOMAIN s \ {n} : Lower[s[m].id] # Lower[e.id]) => LowerApart(t)
  BY <1>1 DEF LowerApart
<1>4. AllEnrich(s) /\ ~e.full /\ e.org = None /\ e.id = s[n].id => AllEnrich(t)
  BY <1>1 DEF AllEnrich
<1> QED BY <1>1, <1>2, <1>3, <1>4 DEF t

\* An enrich record is an entry that names no org.
LEMMA EnrichType ==
  ASSUME NEW id \in Forms, NEW aliases \in SUBSET Forms, NEW weak \in Nat
  PROVE  /\ Enrich(id, aliases, weak) \in Entries /\ ~Enrich(id, aliases, weak).full
         /\ Enrich(id, aliases, weak).org = None /\ Enrich(id, aliases, weak).id = id
<1>1. Entry(id, None, None, aliases) \in Entries
  BY EntryType DEF Whole
<1>2. Entry(id, None, None, aliases).id = id /\ Entry(id, None, None, aliases).org = None
  BY DEF Entry
<1> QED BY <1>1, <1>2 DEF Enrich, Entries

\* A scalar given or kept is a number.
LEMMA ScalarType ==
  ASSUME NEW e \in Entries
  PROVE  Donated(e) \in Nat /\ \A w \in Nat : Kept(e.weak, w) \in Nat
BY DEF Entries, Donated, Kept

\* Forms and scalars given to an id go into its one record.
LEMMA IntoFacts ==
  ASSUME extra \in Seq(Entries), NEW id \in Forms, NEW forms \in SUBSET Forms, NEW weak \in Nat
  PROVE  Into(id, forms, weak) \in Seq(Entries) /\ (AllEnrich(extra) => AllEnrich(Into(id, forms, weak)))
<1> DEFINE held == {n \in DOMAIN extra : extra[n].id = id}
<1>1. CASE held # {}
  <2>1. held \subseteq Nat
    OBVIOUS
  <2>2. First(held) \in held
    BY <1>1, <2>1, FirstFacts
  <2>3. PICK n \in DOMAIN extra : n = First(held) /\ extra[n].id = id
    BY <2>2
  <2>4. extra[n] \in Entries
    BY ElementOfSeq
  <2>5. PICK e : e = [extra[n] EXCEPT !.aliases = @ \cup forms, !.weak = Kept(@, weak)]
    OBVIOUS
  <2>6. e \in Entries /\ e.id = extra[n].id /\ e.full = extra[n].full /\ e.org = extra[n].org
    BY <2>4, <2>5, ScalarType DEF Entries
  <2>7. Into(id, forms, weak) = Put(extra, n, e)
    BY <1>1, <2>3, <2>4, <2>5 DEF Into, Entries, Put
  <2>9. Put(extra, n, e) \in Seq(Entries)
    BY <2>6, PutFacts
  <2>10. ASSUME AllEnrich(extra)
         PROVE  AllEnrich(Put(extra, n, e))
    <3>1. ~e.full /\ e.org = None /\ e.id = extra[n].id
      BY <2>6, <2>10 DEF AllEnrich
    <3> QED BY <2>6, <2>10, <3>1, PutFacts
  <2> QED BY <2>7, <2>9, <2>10
<1>2. CASE held = {} /\ forms = {} /\ weak = 0
  BY <1>2 DEF Into
<1>3. CASE held = {} /\ ~(forms = {} /\ weak = 0)
  <2>1. Into(id, forms, weak) = Append(extra, Enrich(id, forms, weak))
    BY <1>3 DEF Into
  <2>2. \A n \in DOMAIN extra : extra[n].id # id
    BY <1>3
  <2> QED BY <2>1, <2>2, EnrichType, AppendFacts
<1> QED BY <1>1, <1>2, <1>3

-----------------------------------------------------------------------------
(* Each step preserves the invariant: the passes, and step 1.               *)

\* Generated entries are full, and their ids differ in more than case.
LEMMA GeneratedFacts ==
  ASSUME NEW g \in Generated
  PROVE  g.entries \in Seq(Entries) /\ AllFull(g.entries) /\ LowerApart(g.entries)
<1>1. PICK d \in Days, roots \in {NonLineage \cup f : f \in SUBSET Families} :
        g = [from |-> <<d.catalog, d.hub, roots>>, entries |-> Listed(Generate(d.catalog, d.hub, roots))]
  BY DEF Generated
<1> DEFINE out == Generate(d.catalog, d.hub, roots)
<1>2. IsCatalog(d.catalog) /\ d.hub \subseteq Forms
  BY RefreshAssumption
<1>3. /\ \A e \in out : IsEntry(e) /\ e.full
      /\ \A x, y \in out : Norm[x.id] = Norm[y.id] => x = y
  BY <1>2, GeneratedEntries
<1> HIDE DEF out
<1>4. out \subseteq Entries /\ OnePerId(out)
  BY <1>3, EntryForm DEF OnePerId
<1>5. g.entries = Listed(out)
  BY <1>1 DEF out
<1>6. /\ Listed(out) \in Seq(out)
      /\ \A m, n \in DOMAIN Listed(out) : Listed(out)[m].id = Listed(out)[n].id => m = n
  BY <1>4, ListedFacts
<1>7. \A n \in DOMAIN g.entries : g.entries[n] \in out
  BY <1>5, <1>6
<1>8. g.entries \in Seq(Entries)
  BY <1>4, <1>5, <1>6, SeqMonotonic
<1>9. AllFull(g.entries)
  BY <1>3, <1>7 DEF AllFull
<1>10. ASSUME NEW m \in DOMAIN g.entries, NEW n \in DOMAIN g.entries,
              Lower[g.entries[m].id] = Lower[g.entries[n].id]
       PROVE  m = n
  <2>1. g.entries[m] \in out /\ g.entries[n] \in out
    BY <1>7
  <2>2. g.entries[m].id \in Forms /\ g.entries[n].id \in Forms
    BY <1>4, <2>1 DEF Entries
  <2>3. Norm[g.entries[m].id] = Norm[g.entries[n].id]
    BY <1>10, <2>2, RefreshAssumption
  <2>4. g.entries[m].id = g.entries[n].id
    BY <1>3, <2>1, <2>3
  <2> QED BY <1>5, <1>6, <2>4
<1> QED BY <1>8, <1>9, <1>10 DEF LowerApart

\* A job begins with the invariant.
LEMMA InitInv ==
  ASSUME Init
  PROVE  JobInv
<1>1. master \in Files /\ FileOK(master) /\ tree = master /\ today \in Days
  BY HeadsType DEF Init
<1>2. NoIndex \in Indexes /\ NoMap \in Maps(Forms) /\ <<>> \in Seq(Entries)
  BY NoIndexType, MapFacts, EmptySeq
<1>3. MaxTurns \in Nat /\ MaxDays \in Nat
  BY RefreshAssumption
<1>4. JobType
  BY <1>1, <1>2, <1>3 DEF Init, JobType
<1>5. pc = "idle"
  BY DEF Init
<1> QED BY <1>4, <1>5 DEF JobInv, Received, MintsApart, OrgsExist

\* A new day preserves the invariant.
LEMMA NewDayInv ==
  ASSUME JobInv, NewDay
  PROVE  JobInv'
<1>1. JobType'
  BY RefreshAssumption DEF JobInv, JobType, NewDay, order, work
<1> QED BY <1>1 DEF NewDay, JobInv, Received, MintsApart, OrgsExist

\* A job that is refused preserves the invariant.
LEMMA RefuseInv ==
  ASSUME JobInv, Refuse
  PROVE  JobInv'
<1>1. JobType'
  BY DEF JobInv, JobType, Refuse, files, order, work
<1> QED BY <1>1 DEF Refuse, JobInv, Received, MintsApart, OrgsExist

\* Generating the entries preserves the invariant.
LEMMA ProduceInv ==
  ASSUME JobInv, Produce
  PROVE  JobInv'
<1>1. PICK g \in Generated : fresh' = g.entries
  BY DEF Produce
<1>2. fresh' \in Seq(Entries) /\ AllFull(fresh') /\ LowerApart(fresh')
  BY <1>1, GeneratedFacts
<1>3. turns' \in 0 .. MaxTurns
  BY RefreshAssumption DEF JobInv, JobType, Produce, order
<1>4. JobType'
  BY <1>2, <1>3 DEF JobInv, JobType, Produce, files
<1> QED BY <1>2, <1>4 DEF Produce, files, JobInv, Received, MintsApart, OrgsExist

\* The carry begins with well-typed entries.
LEMMA StartCarryInv ==
  ASSUME JobInv, StartCarry
  PROVE  JobInv'
<1>1. left' \in Seq(Entries)
  <2>1. tree.full \subseteq Entries /\ OnePerId(tree.full)
    BY FileForm DEF JobInv, JobType
  <2>2. Listed(tree.full) \in Seq(tree.full)
    BY <2>1, ListedFacts
  <2>3. Listed(tree.full) \in Seq(Entries)
    BY <2>1, <2>2, SeqMonotonic
  <2> QED BY <2>3 DEF StartCarry
<1>2. index' \in Indexes
  BY IndependentType, IndexType DEF JobInv, JobType, StartCarry
<1>3. NoMap \in Maps(Forms) /\ <<>> \in Seq(Entries)
  BY MapFacts, EmptySeq
<1>4. JobType'
  BY <1>1, <1>2, <1>3 DEF JobInv, JobType, StartCarry, files, order
<1> QED BY <1>4 DEF StartCarry, JobInv, Received, MintsApart, OrgsExist

\* An absorbed record leaves an entry.
LEMMA AbsorbType ==
  ASSUME slots \in Seq(Entries), NEW n \in DOMAIN slots, NEW c \in Entries, NEW id \in Forms,
         NEW more \in SUBSET Forms, Absorb(n, c, id, more)
  PROVE  slots' \in Seq(Entries)
<1>1. slots[n] \in Entries
  BY ElementOfSeq
<1>2. PICK e : e = [slots[n] EXCEPT !.id = id,
                      !.aliases = @ \cup ((c.aliases \cup more) \ {id}) \cup ({c.name} \ {None, c.id, id, slots[n].name})]
  OBVIOUS
<1>3. e \in Entries
  BY <1>1, <1>2 DEF Entries
<1>4. slots' = Put(slots, n, e)
  BY <1>1, <1>2 DEF Absorb, Put, Entries
<1> QED BY <1>3, <1>4, PutFacts

\* What the steps of the carry leave alone.
LEMMA CarryInv ==
  ASSUME JobInv, Visit, Steady, slots' \in Seq(Entries), extra' \in Seq(Entries), renamed' \in Maps(Forms)
  PROVE  JobInv'
<1>1. left' \in Seq(Entries)
  BY TailFacts DEF JobInv, JobType, Visit
<1>2. JobType'
  BY <1>1 DEF JobInv, JobType, Steady, files, order
<1> QED BY <1>2 DEF Visit, Steady, JobInv, Received, MintsApart, OrgsExist

\* A record found under its id preserves the invariant.
LEMMA CarrySameInv ==
  ASSUME JobInv, CarrySame
  PROVE  JobInv'
<1> DEFINE c == Head(left)
           bare == [c EXCEPT !.aliases = @ \ {c.id}]
<1>1. /\ slots \in Seq(Entries) /\ extra \in Seq(Entries) /\ renamed \in Maps(Forms)
      /\ left \in Seq(Entries) /\ left # <<>> /\ Visit
  BY DEF JobInv, JobType, CarrySame, Visit
<1>2. c \in Entries
  BY <1>1, TailFacts
<1>3. bare \in Entries
  BY <1>2 DEF Entries
<1>4. PICK n \in Found(c) : Absorb(n, bare, slots[n].id, {})
  BY DEF CarrySame
<1>5. n \in DOMAIN slots /\ slots[n] \in Entries
  BY <1>1, <1>4, ElementOfSeq DEF Found
<1>6. slots[n].id \in Forms
  BY <1>5 DEF Entries
<1> HIDE DEF bare
<1>7. slots' \in Seq(Entries)
  BY <1>1, <1>3, <1>4, <1>5, <1>6, AbsorbType
<1>8. extra' = extra /\ Steady /\ renamed' = renamed
  BY <1>4 DEF Absorb, CarrySame
<1> QED BY <1>1, <1>7, <1>8, CarryInv

\* A suppressed record preserves the invariant.
LEMMA CarrySkippedInv ==
  ASSUME JobInv, CarrySkipped
  PROVE  JobInv'
<1> DEFINE c == Head(left)
           owner == OwnerIn(index, c.id)
<1>1. /\ slots \in Seq(Entries) /\ extra \in Seq(Entries) /\ renamed \in Maps(Forms)
      /\ left \in Seq(Entries) /\ left # <<>> /\ Visit /\ Steady /\ index \in Indexes
  BY DEF JobInv, JobType, CarrySkipped, Visit
<1>2. c \in Entries
  BY <1>1, TailFacts
<1>3. owner \in Forms \cup {None} /\ Donated(c) \in Nat
  BY <1>1, <1>2, OwnerInType, ScalarType
<1>4. extra' = extra \/ (owner # None /\ extra' = Append(extra, Enrich(owner, {}, Donated(c))))
  BY DEF CarrySkipped
<1>5. owner # None => Enrich(owner, {}, Donated(c)) \in Entries
  BY <1>3, EnrichType
<1>6. extra' \in Seq(Entries)
  BY <1>1, <1>4, <1>5, AppendFacts
<1>7. slots' = slots /\ renamed' = renamed
  BY DEF CarrySkipped
<1> QED BY <1>1, <1>6, <1>7, CarryInv

\* A respelling is an entry of the step.
LEMMA PickDomain ==
  ASSUME slots \in Seq(Entries), NEW c
  PROVE  Respelled(c) \subseteq DOMAIN slots
<1>1. ASSUME NEW id, NEW near, near \subseteq DOMAIN slots
      PROVE  Pick(id, near) \subseteq near
  <2> DEFINE sized == {n \in near : Size[slots[n].id] = Size[id]}
             exact == {n \in sized : Sig[slots[n].id] = Sig[id]}
             one == CHOOSE n \in exact : \A m \in exact : Before[slots[n].id] <= Before[slots[m].id]
  <2>1. Pick(id, near) = IF exact # {} THEN {one} ELSE IF Cardinality(sized) = 1 THEN sized ELSE {}
    BY DEF Pick
  <2>2. exact \subseteq near /\ sized \subseteq near
    OBVIOUS
  <2>3. PICK rank : rank = [n \in DOMAIN slots |-> Before[slots[n].id]]
    OBVIOUS
  <2>4. \A n \in DOMAIN slots : rank[n] \in Nat
    <3> TAKE n \in DOMAIN slots
    <3>1. slots[n].id \in Forms
      BY ElementOfSeq, FormsOfType
    <3> QED BY <2>3, <3>1, FormFacts
  <2> HIDE DEF exact, sized
  <2>5. exact # {} => \E n \in exact : \A m \in exact : rank[n] <= rank[m]
    <3>1. \A n \in exact : rank[n] \in Nat
      BY <1>1, <2>2, <2>4
    <3> QED BY <3>1, LeastBy
  <2>6. exact # {} => \E n \in exact : \A m \in exact : Before[slots[n].id] <= Before[slots[m].id]
    BY <1>1, <2>2, <2>3, <2>5
  <2>7. exact # {} => one \in exact
    BY <2>6
  <2> HIDE DEF one
  <2> QED BY <2>1, <2>2, <2>7
<1>2. /\ {n \in DOMAIN slots : Twin[fresh[n].id] = Twin[c.id]} \subseteq DOMAIN slots
      /\ {n \in DOMAIN slots : TwinExt[fresh[n].id] = TwinExt[c.id]} \subseteq DOMAIN slots
  OBVIOUS
<1> QED BY <1>1, <1>2 DEF Respelled

\* An entry renamed to the committed id preserves the invariant.
LEMMA CarryRenamedInv ==
  ASSUME JobInv, CarryRenamed
  PROVE  JobInv'
<1> DEFINE c == Head(left)
<1>1. /\ slots \in Seq(Entries) /\ extra \in Seq(Entries) /\ renamed \in Maps(Forms)
      /\ left \in Seq(Entries) /\ left # <<>> /\ Visit
  BY DEF JobInv, JobType, CarryRenamed, Visit
<1>2. c \in Entries /\ c.id \in Forms
  BY <1>1, TailFacts, FormsOfType
<1>3. PICK n \in Respelled(c) : /\ Absorb(n, c, c.id, {slots[n].id})
                                /\ renamed' = Owned({slots[n].id}, c.id) ++ renamed
  BY DEF CarryRenamed
<1>4. n \in DOMAIN slots
  BY <1>1, <1>3, PickDomain
<1>5. slots[n] \in Entries /\ slots[n].id \in Forms
  BY <1>1, <1>4, ElementOfSeq, FormsOfType
<1>6. slots' \in Seq(Entries)
  BY <1>1, <1>2, <1>3, <1>4, <1>5, AbsorbType
<1>7. renamed' \in Maps(Forms)
  BY <1>1, <1>2, <1>3, <1>5, MapOwned, MapJoin
<1>8. extra' = extra /\ Steady
  BY <1>3 DEF Absorb
<1> QED BY <1>1, <1>6, <1>7, <1>8, CarryInv

\* A committed id that becomes an alias preserves the invariant.
LEMMA CarryAbsorbedInv ==
  ASSUME JobInv, CarryAbsorbed
  PROVE  JobInv'
<1> DEFINE c == Head(left)
           near == IF Respelled(c) # {} THEN Respelled(c) ELSE ByForm(c)
<1>1. /\ slots \in Seq(Entries) /\ extra \in Seq(Entries) /\ renamed \in Maps(Forms)
      /\ left \in Seq(Entries) /\ left # <<>> /\ Visit
  BY DEF JobInv, JobType, CarryAbsorbed, Visit
<1>2. c \in Entries /\ c.id \in Forms
  BY <1>1, TailFacts, FormsOfType
<1>3. PICK n \in near : /\ Absorb(n, c, slots[n].id, {c.id})
                        /\ renamed' = Owned({c.id}, slots[n].id) ++ renamed
  BY DEF CarryAbsorbed
<1>4. n \in DOMAIN slots
  BY <1>1, <1>3, PickDomain DEF ByForm
<1>5. slots[n] \in Entries /\ slots[n].id \in Forms
  BY <1>1, <1>4, ElementOfSeq, FormsOfType
<1>6. slots' \in Seq(Entries)
  BY <1>1, <1>2, <1>3, <1>4, <1>5, AbsorbType
<1>7. renamed' \in Maps(Forms)
  BY <1>1, <1>2, <1>3, <1>5, MapOwned, MapJoin
<1>8. extra' = extra /\ Steady
  BY <1>3 DEF Absorb
<1> QED BY <1>1, <1>6, <1>7, <1>8, CarryInv

\* A record that upstream removed preserves the invariant.
LEMMA CarryGoneInv ==
  ASSUME JobInv, CarryGone
  PROVE  JobInv'
<1> DEFINE c == Head(left)
           gone == [c EXCEPT !.removed = @ \/ c.full]
<1>1. /\ slots \in Seq(Entries) /\ extra \in Seq(Entries) /\ renamed \in Maps(Forms)
      /\ left \in Seq(Entries) /\ left # <<>> /\ Visit /\ Steady
  BY DEF JobInv, JobType, CarryGone, Visit
<1>2. c \in Entries
  BY <1>1, TailFacts
<1>3. gone \in Entries
  BY <1>2 DEF Entries
<1>4. extra' = Append(extra, gone) /\ slots' = slots /\ renamed' = renamed
  BY DEF CarryGone
<1> HIDE DEF gone
<1>5. extra' \in Seq(Entries)
  BY <1>1, <1>3, <1>4, AppendFacts
<1> QED BY <1>1, <1>4, <1>5, CarryInv

\* Records are repointed, sorted and judged.
LEMMA RepointedType ==
  ASSUME NEW s \in Seq(Entries), NEW to \in Maps(Forms)
  PROVE  [n \in DOMAIN s |-> [s[n] EXCEPT !.parents = Redirected(@, to)]] \in Seq(Entries)
<1>1. \A n \in DOMAIN s : [s[n] EXCEPT !.parents = Redirected(@, to)] \in Entries
  <2> TAKE n \in DOMAIN s
  <2>1. s[n] \in Entries
    BY ElementOfSeq
  <2>2. s[n].parents \in Edges
    BY <2>1 DEF Entries
  <2>3. Redirected(s[n].parents, to) \in Edges
    BY <2>2, RedirectedType
  <2> QED BY <2>1, <2>3 DEF Entries
<1>2. DOMAIN s = 1 .. Len(s) /\ Len(s) \in Nat
  BY LenProperties
<1> QED BY <1>1, <1>2

\* What all sources define are entries.
LEMMA EveryoneType ==
  ASSUME today \in Days, tree \in Files
  PROVE  Everyone \in Seq(Entries)
<1>1. tree.cat \in Seq(Entries)
  BY FileForm
<1> QED BY <1>1, IndependentType, OnlyType, ConcatProperties DEF Everyone

\* Repointing and sorting the entries preserves the invariant.
LEMMA EndCarryInv ==
  ASSUME JobInv, EndCarry
  PROVE  JobInv'
<1> DEFINE to == Final(renamed)
           all == slots \o extra
           moved == [n \in DOMAIN all |-> [all[n] EXCEPT !.parents = Redirected(@, to)]]
<1>1. /\ slots \in Seq(Entries) /\ extra \in Seq(Entries) /\ renamed \in Maps(Forms)
      /\ today \in Days /\ tree \in Files
  BY DEF JobInv, JobType
<1>2. all \in Seq(Entries)
  BY <1>1, ConcatProperties
<1>3. to \in Maps(Forms)
  BY <1>1, FinalType
<1>4. fresh' = moved /\ left' = Sorted(fresh') /\ wide' = Index(Everyone)
  BY DEF EndCarry
<1> HIDE DEF to, all
<1>5. fresh' \in Seq(Entries)
  BY <1>2, <1>3, <1>4, RepointedType
<1>6. left' \in Seq(Entries)
  BY <1>4, <1>5, SortedType
<1>7. wide' \in Indexes
  BY <1>1, <1>4, EveryoneType, IndexType
<1>8. NoMap \in Maps(Forms) /\ <<>> \in Seq(Entries)
  BY MapFacts, EmptySeq
<1>9. JobType'
  BY <1>5, <1>6, <1>7, <1>8 DEF JobInv, JobType, EndCarry, files, order
<1>10. extra' = <<>> /\ pc' = "judge"
  BY DEF EndCarry
<1>11. DOMAIN renamed' = {}
  BY DEF EndCarry, NoMap
<1> QED BY <1>9, <1>10, <1>11 DEF JobInv, Received, Forwarded, MintsApart, OrgsExist

-----------------------------------------------------------------------------
(* The end of step 1: judged, given away, kept and written.                 *)

\* What an entry already is, is a form, and so is who inherits an orphan.
LEMMA OntoType ==
  ASSUME JobType, NEW e \in Entries
  PROVE  Onto(e) \in Forms \cup {None} /\ Heir(e) \in Forms \cup {None}
<1>1. index \in Indexes /\ fresh \in Seq(Entries) /\ today \in Days /\ tree \in Files
  BY DEF JobType
<1>2. OwnerIn(index, e.id) \in Forms \cup {None} /\ e.id \in Forms
  BY <1>1, OwnerInType, FormsOfType
<1>3. Onto(e) \in Forms \cup {None}
  BY <1>2, FoldTargetType DEF Onto
<1>4. PICK some : some = Only(Everyone, {o \in Range(Everyone) : o.id \in InFull})
  OBVIOUS
<1>5. PICK more : more = Only(fresh, {o \in Range(fresh) : o.full})
  OBVIOUS
<1>6. some \in Seq(Entries) /\ more \in Seq(Entries)
  BY <1>1, <1>4, <1>5, EveryoneType, OnlyType
<1>7. some \o more \in Seq(Entries)
  BY <1>6, ConcatProperties
<1>8. Heir(e) = OwnerIn(Index(some \o more), e.id)
  BY <1>4, <1>5 DEF Heir
<1> QED BY <1>3, <1>7, <1>8, IndexType, OwnerInType

\* Whatever an entry is suppressed for is its receiver.
LEMMA ReceiverFacts ==
  ASSUME JobType, NEW e \in Entries, NEW to,
         to \in {IF Onto(e) = None /\ Orphan(e) THEN Heir(e) ELSE Onto(e)} \ {None}
  PROVE  to \in Receivers(e.id)
<1>1. fresh \in Seq(Entries) /\ today \in Days /\ tree \in Files
  BY DEF JobType
<1>2. CASE Onto(e) # None
  <2>1. to = Onto(e) /\ to # None
    BY <1>2
  <2>2. CASE OwnerIn(index, e.id) \in InFull \ {e.id}
    BY <2>1, <2>2 DEF Onto, Receivers
  <2>3. CASE OwnerIn(index, e.id) \notin InFull \ {e.id} /\ e.id \in Defined(Independent)
    <3>1. to = e.id
      BY <2>1, <2>3 DEF Onto
    <3>2. Defined(Independent) \subseteq InFull
      <4>1. PICK other : other = Only(tree.cat, Active(Range(tree.cat)))
        OBVIOUS
      <4>2. Independent \in Seq(Entries) /\ other \in Seq(Entries)
        BY <1>1, <4>1, FileForm, IndependentType, OnlyType
      <4>3. Everyone = Independent \o other /\ Everyone \in Seq(Entries)
        BY <4>1, <4>2, RangeFacts DEF Everyone
      <4>4. Range(Independent) \subseteq Range(Everyone \o fresh)
        <5>1. Range(Independent \o other) = Range(Independent) \cup Range(other)
          BY <4>2, RangeFacts
        <5>2. Range(Everyone \o fresh) = Range(Everyone) \cup Range(fresh)
          BY <1>1, <4>3, RangeFacts
        <5>3. Range(Everyone) = Range(Independent) \cup Range(other)
          BY <4>3, <5>1
        <5> QED BY <5>2, <5>3
      <4> QED BY <4>4 DEF Defined, InFull
    <3> QED BY <2>3, <3>1, <3>2 DEF Receivers
  <2>4. CASE OwnerIn(index, e.id) \notin InFull \ {e.id} /\ e.id \notin Defined(Independent)
    <3>1. to = FoldTarget(e)
      BY <2>1, <2>4 DEF Onto
    <3>2. to \in HfIds \ {e.id}
      BY <2>1, <3>1, FoldTargetType
    <3> QED BY <3>2 DEF Receivers
  <2> QED BY <2>2, <2>3, <2>4
<1>3. CASE Onto(e) = None
  <2>1. Orphan(e) /\ to = Heir(e) /\ to # None
    BY <1>3
  <2>2. PICK some : some = Only(Everyone, {o \in Range(Everyone) : o.id \in InFull})
    OBVIOUS
  <2>3. PICK more : more = Only(fresh, {o \in Range(fresh) : o.full})
    OBVIOUS
  <2>4. /\ Everyone \in Seq(Entries) /\ some \in Seq(Entries) /\ more \in Seq(Entries)
        /\ \A k \in DOMAIN some : some[k].id \in InFull
        /\ \A k \in DOMAIN more : more[k] \in Range(fresh) /\ more[k].full
    BY <1>1, <2>2, <2>3, EveryoneType, OnlyType
  <2>5. some \o more \in Seq(Entries) /\ Range(some \o more) = Range(some) \cup Range(more)
    BY <2>4, RangeFacts
  <2>6. Range(fresh) \subseteq Range(Everyone \o fresh)
    BY <1>1, <2>4, RangeFacts
  <2>7. ASSUME NEW o \in Range(some) \cup Range(more) PROVE o.id \in InFull
    <3>1. CASE o \in Range(some)
      BY <2>4, <3>1 DEF Range
    <3>2. CASE o \in Range(more)
      <4>1. o \in Range(fresh) /\ o.full
        BY <2>4, <3>2 DEF Range
      <4> QED BY <2>6, <4>1 DEF InFull, Defined
    <3> QED BY <3>1, <3>2
  <2>8. Heir(e) = OwnerIn(Index(some \o more), e.id)
    BY <2>2, <2>3 DEF Heir
  <2>9. PICK n \in DOMAIN (some \o more) : to = (some \o more)[n].id
    BY <2>1, <2>5, <2>8, IndexOwns
  <2>10. (some \o more)[n] \in Range(some) \cup Range(more)
    BY <2>5, <2>9 DEF Range
  <2>11. to \in InFull
    BY <2>7, <2>9, <2>10
  <2> QED BY <2>1, <2>11 DEF Receivers, Orphan
<1> QED BY <1>2, <1>3

\* Receivers depend on the day, the files and the entries of the step alone.
LEMMA ReceiverStays ==
  ASSUME UNCHANGED <<today, tree, fresh>>
  PROVE  \A id : Receivers(id)' = Receivers(id)
<1>2. Independent' = Independent
  BY DEF Independent, Active, Skipped
<1>3. Everyone' = Everyone
  BY <1>2 DEF Everyone, Active, Skipped
<1>4. InFull' = InFull
  BY <1>3 DEF InFull
<1>5. HfIds' = HfIds
  BY DEF HfIds, Active, Skipped
<1> QED BY <1>2, <1>4, <1>5 DEF Receivers

\* What the steps of the judgement leave alone.
LEMMA JudgeInv ==
  ASSUME JobInv, Judging, Judged, slots' \in Seq(Entries), extra' \in Seq(Entries), renamed' \in Maps(Forms),
         \A n \in DOMAIN extra' : extra'[n].id \in DOMAIN renamed',
         \A id \in DOMAIN renamed' : renamed'[id] \in Receivers(id)
  PROVE  JobInv'
<1>1. left' \in Seq(Entries)
  BY TailFacts DEF JobInv, JobType, Judging
<1>2. JobType'
  BY <1>1 DEF JobInv, JobType, Judged, files, order
<1>3. pc' = "judge"
  BY DEF Judging, Judged
<1>4. Forwarded'
  BY ReceiverStays DEF Judged, files, Forwarded
<1> QED BY <1>2, <1>3, <1>4 DEF JobInv, Received, MintsApart, OrgsExist

\* Judging an entry preserves the invariant, whatever becomes of it.
LEMMA SurviveInv ==
  ASSUME JobInv, Survive
  PROVE  JobInv'
<1>1. /\ slots \in Seq(Entries) /\ extra \in Seq(Entries) /\ renamed \in Maps(Forms)
      /\ left \in Seq(Entries) /\ left # <<>> /\ Judging /\ Judged
      /\ slots' = Append(slots, Head(left)) /\ extra' = extra /\ renamed' = renamed
  BY DEF JobInv, JobType, Survive, Judging
<1>2. slots' \in Seq(Entries)
  BY <1>1, TailFacts, AppendFacts
<1>3. /\ \A n \in DOMAIN extra : extra[n].id \in DOMAIN renamed
      /\ \A id \in DOMAIN renamed : renamed[id] \in Receivers(id)
  BY DEF JobInv, Received, Forwarded, Survive, Judging
<1> QED BY <1>1, <1>2, <1>3, JudgeInv

\* A suppressed entry has a receiver.
LEMMA SuppressInv ==
  ASSUME JobInv, Suppress
  PROVE  JobInv'
<1> DEFINE e == Head(left)
<1>1. /\ slots \in Seq(Entries) /\ extra \in Seq(Entries) /\ renamed \in Maps(Forms)
      /\ left \in Seq(Entries) /\ left # <<>> /\ Judging /\ Judged
      /\ extra' = Append(extra, e) /\ slots' = slots
  BY DEF JobInv, JobType, Suppress, Judging
<1>2. e \in Entries /\ e.id \in Forms
  BY <1>1, TailFacts, FormsOfType
<1>3. PICK to \in {IF Onto(e) = None /\ Orphan(e) THEN Heir(e) ELSE Onto(e)} \ {None} :
        renamed' = Owned({e.id}, to) ++ renamed
  BY DEF Suppress
<1>4. to \in Forms
  BY <1>2, <1>3, OntoType DEF JobInv
<1>5. renamed' \in Maps(Forms)
  BY <1>1, <1>2, <1>3, <1>4, MapOwned, MapJoin
<1>6. e.id \in DOMAIN renamed' /\ DOMAIN renamed \subseteq DOMAIN renamed'
  BY <1>3 DEF Owned, ++
<1>7. /\ \A n \in DOMAIN extra : extra[n].id \in DOMAIN renamed
      /\ \A id \in DOMAIN renamed : renamed[id] \in Receivers(id)
  BY DEF JobInv, Received, Forwarded, Suppress, Judging
<1>8. /\ extra' \in Seq(Entries)
      /\ \A n \in DOMAIN extra' : extra'[n] = e \/ (n \in DOMAIN extra /\ extra'[n] = extra[n])
  BY <1>1, <1>2, AppendFacts
<1>9. \A n \in DOMAIN extra' : extra'[n].id \in DOMAIN renamed'
  BY <1>6, <1>7, <1>8
<1>10. to \in Receivers(e.id)
  BY <1>2, <1>3, ReceiverFacts DEF JobInv
<1>11. ASSUME NEW id \in DOMAIN renamed'
       PROVE  renamed'[id] \in Receivers(id)
  <2>1. \/ id = e.id /\ renamed'[id] = to
        \/ id \in DOMAIN renamed /\ renamed'[id] = renamed[id]
    BY <1>3 DEF Owned, ++
  <2> QED BY <1>7, <1>10, <2>1
<1> QED BY <1>1, <1>5, <1>8, <1>9, <1>11, JudgeInv

\* A dropped orphan leaves nothing.
LEMMA DropOrphanInv ==
  ASSUME JobInv, DropOrphan
  PROVE  JobInv'
<1>1. /\ slots \in Seq(Entries) /\ extra \in Seq(Entries) /\ renamed \in Maps(Forms)
      /\ Judging /\ Judged /\ slots' = slots /\ extra' = extra /\ renamed' = renamed
  BY DEF JobInv, JobType, DropOrphan
<1>2. /\ \A n \in DOMAIN extra : extra[n].id \in DOMAIN renamed
      /\ \A id \in DOMAIN renamed : renamed[id] \in Receivers(id)
  BY DEF JobInv, Received, Forwarded, DropOrphan, Judging
<1> QED BY <1>1, <1>2, JudgeInv

\* What was suppressed is given away next.
LEMMA EndJudgeInv ==
  ASSUME JobInv, EndJudge
  PROVE  JobInv'
<1>1. left' = extra /\ extra' = <<>> /\ pc' = "give" /\ renamed' = renamed /\ pc = "judge"
  BY DEF EndJudge
<1>2. JobType'
  BY <1>1, EmptySeq DEF JobInv, JobType, EndJudge, files, order
<1>3. \A n \in DOMAIN left' : left'[n].id \in DOMAIN renamed'
  BY <1>1 DEF JobInv, Received
<1>4. Forwarded'
  BY <1>1, ReceiverStays DEF EndJudge, files, JobInv, Received, Forwarded
<1> QED BY <1>1, <1>2, <1>3, <1>4 DEF JobInv, Received, MintsApart, OrgsExist

\* Giving an entry's forms away preserves the invariant.
LEMMA GiveInv ==
  ASSUME JobInv, Give
  PROVE  JobInv'
<1> DEFINE e == Head(left)
           to == renamed[e.id]
           forms == {f \in FormsOf(e) \ {e.id, to} :
                       /\ ~Elsewhere(f, e.id, to) /\ f \notin Siblings
                       /\ At(claimed, f) \in {None, to, e.id}}
           spelled == {i \in {e.id} : Norm[i] # Norm[to]}
<1>1. /\ extra \in Seq(Entries) /\ renamed \in Maps(Forms) /\ left \in Seq(Entries) /\ left # <<>>
      /\ pc = "give" /\ left' = Tail(left)
      /\ UNCHANGED <<today, files, pc, pass, before, order, fresh, slots, claimed, index, wide, renamed, days>>
  BY DEF JobInv, JobType, Give
<1>2. /\ extra' = Into(to, forms, 0)
      \/ extra' = Into(to, forms \cup spelled, Donated(e))
  BY DEF Give
<1>3. e \in Entries /\ e = left[1] /\ 1 \in DOMAIN left /\ left' \in Seq(Entries)
  BY <1>1, TailFacts
<1>4. \A n \in DOMAIN left : left[n].id \in DOMAIN renamed
  BY <1>1 DEF JobInv, Received
<1>5. to \in Forms
  BY <1>1, <1>3, <1>4, MapFacts
<1>6. forms \subseteq Forms /\ forms \cup spelled \subseteq Forms /\ Donated(e) \in Nat /\ 0 \in Nat
  BY <1>3, FormsOfType, ScalarType
<1> HIDE DEF to, forms, spelled
<1>7. extra' \in Seq(Entries)
  BY <1>1, <1>2, <1>5, <1>6, IntoFacts
<1>8. JobType'
  BY <1>1, <1>3, <1>7 DEF JobInv, JobType, files, order
<1>9. \A n \in DOMAIN left' : left'[n].id \in DOMAIN renamed'
  <2> TAKE n \in DOMAIN left'
  <2>1. n + 1 \in DOMAIN left /\ left'[n] = left[n + 1]
    BY <1>1, TailFacts
  <2> QED BY <1>1, <1>4, <2>1
<1>10. pc' = "give"
  BY <1>1
<1>11. Forwarded'
  BY <1>1, ReceiverStays DEF files, JobInv, Received, Forwarded
<1> QED BY <1>8, <1>9, <1>10, <1>11 DEF JobInv, Received, MintsApart, OrgsExist

\* The survivors are kept next.
LEMMA EndGiveInv ==
  ASSUME JobInv, EndGive
  PROVE  JobInv'
<1>1. JobType'
  BY DEF JobInv, JobType, EndGive, files, order, work
<1>2. pc = "give" /\ pc' = "keep" /\ UNCHANGED <<today, tree, fresh, renamed>>
  BY DEF EndGive, files, work
<1>3. Forwarded'
  BY <1>2, ReceiverStays DEF JobInv, Received, Forwarded
<1> QED BY <1>1, <1>2, <1>3 DEF JobInv, Received, MintsApart, OrgsExist

\* Keeping a survivor preserves the invariant.
LEMMA KeepInv ==
  ASSUME JobInv, Keep
  PROVE  JobInv'
<1> DEFINE e == Head(left)
           own == {f \in e.aliases \ {e.id} : ~Foreign(f, e.id)}
           name == IF e.name = None \/ ~Foreign(e.name, e.id) THEN e.name
                   ELSE IF Foreign(LastPart[e.id], e.id) THEN e.id ELSE LastPart[e.id]
           spelled == {name} \ {e.name, e.id}
           at == 1 + Len(slots) - Len(left)
           kept == [e EXCEPT !.aliases = own \cup spelled, !.name = name, !.parents = Redirected(@, renamed)]
<1>1. /\ slots \in Seq(Entries) /\ renamed \in Maps(Forms) /\ left \in Seq(Entries) /\ left # <<>>
      /\ pc = "keep" /\ left' = Tail(left)
      /\ UNCHANGED <<today, files, pc, pass, before, order, fresh, extra, index, wide, renamed, days>>
  BY DEF JobInv, JobType, Keep
<1>2. slots' = [slots EXCEPT ![at] = kept]
  BY DEF Keep
<1>3. e \in Entries /\ left' \in Seq(Entries)
  BY <1>1, TailFacts
<1>4. e.id \in Forms /\ own \subseteq Forms /\ LastPart[e.id] \in Forms
  BY <1>3, FormsOfType, FormFacts
<1>5. name \in Forms \cup {None} /\ (name # e.name => name \in Forms)
  BY <1>3, <1>4 DEF Entries
<1>6. own \cup spelled \subseteq Forms
  BY <1>4, <1>5
<1>7. Redirected(e.parents, renamed) \in Edges
  BY <1>1, <1>3, RedirectedType DEF Entries
<1> HIDE DEF own, name, spelled
<1>8. PICK a \in SUBSET Forms : a = own \cup spelled
  BY <1>6
<1>9. PICK p \in Edges : p = Redirected(e.parents, renamed)
  BY <1>7
<1>10. kept = [e EXCEPT !.aliases = a, !.name = name, !.parents = p]
  BY <1>8, <1>9
<1>11. kept \in Entries
  BY <1>3, <1>5, <1>10 DEF Entries
<1> HIDE DEF at, kept
<1>12. slots' \in Seq(Entries)
  <2>1. CASE at \in DOMAIN slots
    BY <1>1, <1>2, <1>11, <2>1, PutFacts DEF Put
  <2>2. CASE at \notin DOMAIN slots
    <3>1. slots' = [n \in DOMAIN slots |-> slots[n]]
      BY <1>2, <2>2
    <3>2. slots = [n \in DOMAIN slots |-> slots[n]]
      BY <1>1, LenProperties
    <3> QED BY <1>1, <3>1, <3>2
  <2> QED BY <2>1, <2>2
<1>13. JobType'
  BY <1>1, <1>3, <1>12 DEF JobInv, JobType, files, order
<1>14. Forwarded'
  BY <1>1, ReceiverStays DEF files, JobInv, Received, Forwarded
<1> QED BY <1>1, <1>13, <1>14 DEF JobInv, Received, MintsApart, OrgsExist

\* A canonical org is resolved, and nothing else about the entry changes.
LEMMA CanonicalFacts ==
  ASSUME NEW e \in Entries
  PROVE  /\ Canonical(e) \in Entries /\ Canonical(e).id = e.id /\ Canonical(e).full = e.full
         /\ Resolved(Canonical(e))
<1>1. CASE e.org = None
  BY <1>1 DEF Canonical, Resolved
<1>2. CASE e.org # None
  <2>1. e.org \in Orgs
    BY <1>2 DEF Entries
  <2>2. PICK o \in Orgs : o = CanonOrg[e.org] /\ CanonOrg[o] = o
    BY <2>1, RefreshAssumption
  <2>3. Canonical(e) = [e EXCEPT !.org = o]
    BY <1>2, <2>2 DEF Canonical
  <2>4. Canonical(e).org = o
    BY <2>3 DEF Entries
  <2> QED BY <2>2, <2>3, <2>4 DEF Entries, Resolved
<1> QED BY <1>1, <1>2

\* Writing the first file preserves the invariant.
LEMMA WriteFullInv ==
  ASSUME JobInv, WriteFull
  PROVE  JobInv'
<1> DEFINE recs == Consolidated(slots \o extra)
           out == {Canonical(e) : e \in recs}
<1>1. /\ slots \in Seq(Entries) /\ extra \in Seq(Entries) /\ tree \in Files /\ FileOK(tree)
      /\ tree' = [tree EXCEPT !.full = out] /\ pc' = "catalog"
  BY DEF JobInv, JobType, WriteFull
<1>2. recs \subseteq Entries /\ OnePerId(recs)
  BY <1>1, ConcatProperties, ConsolidatedFacts
<1> HIDE DEF recs
<1>3. out \subseteq Entries /\ \A e \in out : Resolved(e)
  BY <1>2, CanonicalFacts
<1>4. OnePerId(out)
  BY <1>2, CanonicalFacts DEF OnePerId
<1> HIDE DEF out
<1>5. tree' \in Files /\ tree'.full = out /\ tree'.cat = tree.cat
  BY <1>1, <1>3 DEF Files
<1>6. FileOK(tree')
  <2>1. \A m, n \in DOMAIN tree.cat :
          tree.cat[m].id = tree.cat[n].id /\ tree.cat[m].full = tree.cat[n].full => m = n
    BY <1>1 DEF FileOK
  <2>2. PICK t \in Files : t = tree'
    BY <1>5
  <2>3. OnePerId(t.full) /\ t.cat = tree.cat
    BY <1>4, <1>5, <2>2
  <2>4. FileOK(t)
    BY <2>1, <2>3, FileForm
  <2> QED BY <2>2, <2>4
<1>7. JobType'
  BY <1>5, <1>6 DEF JobInv, JobType, WriteFull, order, work
<1>8. \A e \in tree'.full : Resolved(e)
  BY <1>3, <1>5
<1> QED BY <1>1, <1>7, <1>8 DEF JobInv, Received, MintsApart, OrgsExist, Resolved

-----------------------------------------------------------------------------
(* Step 2: the catalog's entries are split, the committed ones united.      *)

\* The split begins with nothing minted.
LEMMA StartSplitInv ==
  ASSUME JobInv, StartSplit
  PROVE  JobInv'
<1> DEFINE sources == Listed(Active(Oracle)) \o Listed(Active(tree.full)) \o Listed(Active(HubStats))
                        \o Listed(Active(Tier3)) \o Listed(today.core) \o Listed(Active(Enrichments))
           some == Only(sources, {e \in Range(sources) : e.id \in Defined(sources)})
<1>1. /\ tree \in Files /\ FileOK(tree) /\ today \in Days /\ fresh \in Seq(Entries)
      /\ AllFull(fresh) /\ LowerApart(fresh)
  BY DEF JobInv, JobType, MintsApart, StartSplit
<1>2. Listed(Active(tree.full)) \in Seq(Entries)
  <2>1. Active(tree.full) \subseteq Entries /\ OnePerId(Active(tree.full))
    BY <1>1, FileForm DEF Active, OnePerId
  <2>2. Listed(Active(tree.full)) \in Seq(Active(tree.full))
    BY <2>1, ListedFacts
  <2> QED BY <2>1, <2>2, SeqMonotonic
<1>3. sources \in Seq(Entries)
  <2>1. /\ Listed(Active(Oracle)) \in Seq(Entries) /\ Listed(Active(HubStats)) \in Seq(Entries)
        /\ Listed(Active(Tier3)) \in Seq(Entries) /\ Listed(Active(Enrichments)) \in Seq(Entries)
    BY SourceFacts
  <2>2. Listed(today.core) \in Seq(Entries)
    BY <1>1, IndependentType
  <2> QED BY <1>2, <2>1, <2>2, ConcatProperties
<1>4. index' = Index(some)
  BY DEF StartSplit
<1> HIDE DEF sources
<1>5. index' \in Indexes
  BY <1>3, <1>4, OnlyType, IndexType
<1>6. /\ left' = fresh /\ fresh' = <<>> /\ slots' = <<>> /\ extra' = <<>> /\ renamed' = NoMap /\ pc' = "split"
      /\ UNCHANGED <<today, files, pass, before, order, wide, days>>
  BY DEF StartSplit
<1>7. NoMap \in Maps(Forms) /\ <<>> \in Seq(Entries)
  BY MapFacts, EmptySeq
<1>8. JobType'
  BY <1>5, <1>6, <1>7 DEF JobInv, JobType, files, order
<1>9. /\ AllFull(slots') /\ LowerApart(slots') /\ AllEnrich(extra')
      /\ \A m \in DOMAIN left', n \in DOMAIN slots' : Lower[left'[m].id] # Lower[slots'[n].id]
  <2>1. DOMAIN slots' = {} /\ DOMAIN extra' = {}
    BY <1>6
  <2> QED BY <2>1 DEF AllFull, LowerApart, AllEnrich
<1>10. AllFull(left') /\ LowerApart(left')
  BY <1>1, <1>6
<1>11. \A e \in tree'.full : Resolved(e)
  BY <1>6 DEF files, JobInv, OrgsExist, StartSplit
<1> QED BY <1>6, <1>8, <1>9, <1>10, <1>11 DEF JobInv, Received, MintsApart, OrgsExist

\* What goes to an owner is an enrich record.
LEMMA EnrichTargetType ==
  ASSUME extra \in Seq(Entries), AllEnrich(extra), NEW id \in Forms, NEW forms, forms \subseteq Forms,
         NEW donors, NEW weak \in Nat, EnrichTarget(id, forms, donors, weak)
  PROVE  /\ extra' \in Seq(Entries) /\ AllEnrich(extra')
         /\ UNCHANGED <<fresh, slots, index, wide, renamed>>
<1>1. PICK keep \in SUBSET Forms : extra' = Into(id, keep, weak)
  <2>1. {f \in forms \ {id} : ~Steals(index, f, id) /\ At(claimed, f) \in {None, id} \cup donors} \in SUBSET Forms
    OBVIOUS
  <2> QED BY <2>1 DEF EnrichTarget
<1> QED BY <1>1, IntoFacts DEF EnrichTarget

\* The steps that take one entry of the split, and leave those minted apart.
LEMMA SplitInv ==
  ASSUME JobInv, pc = "split", left # <<>>, Next1,
         fresh' \in Seq(Entries), slots' \in Seq(Entries), extra' \in Seq(Entries),
         index' \in Indexes, wide' = wide, renamed' = renamed,
         AllFull(slots'), LowerApart(slots'), AllEnrich(extra'),
         \A n \in DOMAIN slots' : slots'[n].id = Head(left).id \/ \E k \in DOMAIN slots : slots'[n].id = slots[k].id
  PROVE  JobInv'
<1>1. /\ left \in Seq(Entries) /\ AllFull(left) /\ LowerApart(left) /\ left' = Tail(left)
      /\ \A m \in DOMAIN left, n \in DOMAIN slots : Lower[left[m].id] # Lower[slots[n].id]
      /\ \A e \in tree.full : Resolved(e)
      /\ UNCHANGED <<today, files, pc, pass, before, order, days>>
  BY DEF JobInv, JobType, MintsApart, OrgsExist, Next1
<1>2. left' \in Seq(Entries) /\ AllFull(left') /\ LowerApart(left')
  BY <1>1, TailFacts
<1>3. ASSUME NEW m \in DOMAIN left', NEW n \in DOMAIN slots'
      PROVE  Lower[left'[m].id] # Lower[slots'[n].id]
  <2>1. m + 1 \in DOMAIN left /\ left'[m] = left[m + 1] /\ Lower[left'[m].id] # Lower[Head(left).id]
    BY <1>1, TailFacts
  <2>2. CASE slots'[n].id = Head(left).id
    BY <2>1, <2>2
  <2>3. CASE \E k \in DOMAIN slots : slots'[n].id = slots[k].id
    BY <1>1, <2>1, <2>3
  <2> QED BY <2>2, <2>3
<1>4. JobType'
  BY <1>1, <1>2 DEF JobInv, JobType, files, order
<1>5. pc' = "split" /\ \A e \in tree'.full : Resolved(e)
  BY <1>1 DEF files
<1> QED BY <1>2, <1>3, <1>4, <1>5 DEF JobInv, Received, MintsApart, OrgsExist

\* What holds of the variables while the entries are split.
LEMMA SplitFacts ==
  ASSUME JobInv, pc = "split", left # <<>>
  PROVE  /\ fresh \in Seq(Entries) /\ slots \in Seq(Entries) /\ extra \in Seq(Entries) /\ left \in Seq(Entries)
         /\ index \in Indexes /\ AllFull(slots) /\ LowerApart(slots) /\ AllEnrich(extra)
         /\ Head(left) \in Entries /\ Head(left).id \in Forms /\ Head(left).full
         /\ \A n \in DOMAIN slots : Lower[slots[n].id] # Lower[Head(left).id]
<1>1. /\ fresh \in Seq(Entries) /\ slots \in Seq(Entries) /\ extra \in Seq(Entries) /\ left \in Seq(Entries)
      /\ index \in Indexes /\ AllFull(slots) /\ LowerApart(slots) /\ AllEnrich(extra)
      /\ AllFull(left)
      /\ \A m \in DOMAIN left, n \in DOMAIN slots : Lower[left[m].id] # Lower[slots[n].id]
  BY DEF JobInv, JobType, MintsApart
<1>2. /\ Head(left) \in Entries /\ Head(left) = left[1] /\ 1 \in DOMAIN left /\ Head(left).full
  BY <1>1, TailFacts
<1>3. \A n \in DOMAIN slots : Lower[left[1].id] # Lower[slots[n].id]
  BY <1>1, <1>2
<1> QED BY <1>1, <1>2, <1>3, FormsOfType

\* The owner of an entry of the split, if it has one, is a form.
LEMMA OwnerOfType ==
  ASSUME index \in Indexes, NEW e \in Entries
  PROVE  OwnerOf(e) \in Forms \cup {None}
<1>1. /\ index.exact \in Maps(Forms) /\ index.lower \in Maps({Lower[f] : f \in Forms})
  BY DEF Indexes
<1>2. \A l \in DOMAIN index.lower : index.lower[l] \in Forms
  BY <1>1, MapFacts
<1>3. \A f : At(index.exact, f) \in Forms \cup {None}
  BY <1>1, MapAt
<1>4. OwnerIn(index, e.id) \in Forms \cup {None}
  BY OwnerInType
<1>5. At(index.exact, e.name) # None => index.exact[e.name] \in Forms
  BY <1>3 DEF At
<1> QED BY <1>2, <1>4, <1>5, FoldTargetType DEF OwnerOf

\* An entry that is somebody's enriches that one.
LEMMA SplitEnrichInv ==
  ASSUME JobInv, SplitEnrich
  PROVE  JobInv'
<1> DEFINE e == Head(left)
           own == IF Lower[e.id] \in DOMAIN index.lower THEN {} ELSE {e.id}
<1>1. pc = "split" /\ left # <<>> /\ Next1 /\ OwnerOf(e) # None
  BY DEF SplitEnrich
<1>2. EnrichTarget(OwnerOf(e), own \cup e.aliases, {}, Donated(e))
  BY DEF SplitEnrich
<1>3. /\ fresh \in Seq(Entries) /\ slots \in Seq(Entries) /\ extra \in Seq(Entries)
      /\ index \in Indexes /\ AllFull(slots) /\ LowerApart(slots) /\ AllEnrich(extra)
      /\ e \in Entries /\ e.id \in Forms
  BY <1>1, SplitFacts
<1>4. OwnerOf(e) \in Forms
  BY <1>1, <1>3, OwnerOfType
<1>5. own \cup e.aliases \subseteq Forms /\ Donated(e) \in Nat
  BY <1>3, FormsOfType, ScalarType
<1> HIDE DEF own
<1>6. /\ extra' \in Seq(Entries) /\ AllEnrich(extra') /\ UNCHANGED <<fresh, slots, index, wide, renamed>>
  BY <1>2, <1>3, <1>4, <1>5, EnrichTargetType
<1> QED BY <1>1, <1>3, <1>6, SplitInv

\* An entry whose id is claimed is not minted.
LEMMA SplitClaimedInv ==
  ASSUME JobInv, SplitClaimed
  PROVE  JobInv'
<1>1. pc = "split" /\ left # <<>> /\ Next1 /\ UNCHANGED work
  BY DEF SplitClaimed
<1> QED BY <1>1, SplitFacts, SplitInv DEF work

\* A minted entry differs from those minted before.
LEMMA SplitMintInv ==
  ASSUME JobInv, SplitMint
  PROVE  JobInv'
<1> DEFINE e == Head(left)
           Taken(f) == At(index.exact, f) # None \/ At(claimed, f) \notin {None, e.id}
           own == {f \in e.aliases \ {e.id} : ~Steals(index, f, e.id) /\ At(claimed, f) \in {None, e.id}}
           name == IF ~Taken(e.name) THEN e.name ELSE IF Taken(LastPart[e.id]) THEN e.id ELSE LastPart[e.id]
           spelled == IF name \in {e.name, e.id} THEN {} ELSE {name}
           minted == [e EXCEPT !.aliases = own \cup spelled, !.name = name]
<1>1. /\ pc = "split" /\ left # <<>> /\ Next1
      /\ wide' = wide /\ renamed' = renamed /\ extra' = extra
  BY DEF SplitMint
<1>2. /\ Enter(minted)
      /\ index' = [index EXCEPT !.exact = @ ++ Owned(FormsOf(minted), e.id),
                                !.norm = @ ++ Owned({Norm[f] : f \in FormsOf(minted)}, e.id)]
  BY DEF SplitMint
<1>3. /\ fresh \in Seq(Entries) /\ slots \in Seq(Entries) /\ extra \in Seq(Entries)
      /\ index \in Indexes /\ AllFull(slots) /\ LowerApart(slots) /\ AllEnrich(extra)
      /\ e \in Entries /\ e.id \in Forms /\ e.full
      /\ \A n \in DOMAIN slots : Lower[slots[n].id] # Lower[e.id]
  BY <1>1, SplitFacts
<1>4. own \subseteq Forms /\ LastPart[e.id] \in Forms
  BY <1>3, FormsOfType, FormFacts
<1>5. name \in Forms \cup {None} /\ (name # e.name => name \in Forms)
  BY <1>3, <1>4 DEF Entries
<1>6. own \cup spelled \subseteq Forms
  BY <1>4, <1>5
<1> HIDE DEF own, name, spelled
<1>7. PICK a \in SUBSET Forms : a = own \cup spelled
  BY <1>6
<1>8. minted = [e EXCEPT !.aliases = a, !.name = name]
  BY <1>7
<1>9. minted \in Entries /\ minted.id = e.id /\ minted.full
  BY <1>3, <1>5, <1>8 DEF Entries
<1> HIDE DEF minted
<1>10. /\ fresh' = Append(fresh, minted) /\ slots' = Append(slots, minted)
  BY <1>2 DEF Enter
<1>11. /\ fresh' \in Seq(Entries) /\ slots' \in Seq(Entries) /\ AllFull(slots') /\ LowerApart(slots')
       /\ \A n \in DOMAIN slots' : slots'[n] = minted \/ (n \in DOMAIN slots /\ slots'[n] = slots[n])
  BY <1>3, <1>9, <1>10, AppendFacts
<1>12. index' \in Indexes
  <2> DEFINE N == {Norm[f] : f \in Forms}
             M == {Norm[f] : f \in FormsOf(minted)}
  <2>1. index.exact \in Maps(Forms) /\ index.norm \in Maps(N) /\ index.lower \in Maps({Lower[f] : f \in Forms})
    BY <1>3 DEF Indexes
  <2>2. FormsOf(minted) \subseteq Forms
    BY <1>9, FormsOfType
  <2>3. M \subseteq N
    BY <2>2
  <2> HIDE DEF N, M
  <2>4. index.exact ++ Owned(FormsOf(minted), e.id) \in Maps(Forms)
    BY <1>3, <2>1, <2>2, MapOwned, MapJoin
  <2>5. index.norm ++ Owned(M, e.id) \in Maps(N)
    BY <1>3, <2>1, <2>3, MapOwned, MapJoin
  <2>6. PICK x \in Maps(Forms) : x = index.exact ++ Owned(FormsOf(minted), e.id)
    BY <2>4
  <2>7. PICK y \in Maps(N) : y = index.norm ++ Owned(M, e.id)
    BY <2>5
  <2>8. index' = [index EXCEPT !.exact = x, !.norm = y]
    BY <1>2, <2>6, <2>7 DEF M
  <2> QED BY <1>3, <2>8 DEF Indexes, N
<1>13. \A n \in DOMAIN slots' : slots'[n].id = e.id \/ \E k \in DOMAIN slots : slots'[n].id = slots[k].id
  BY <1>9, <1>11
<1> QED BY <1>1, <1>3, <1>11, <1>12, <1>13, SplitInv

\* The committed file is united with what was split.
LEMMA StartUnionInv ==
  ASSUME JobInv, StartUnion
  PROVE  JobInv'
<1>1. /\ pc = "split" /\ pc' = "union" /\ left' = tree.cat
      /\ UNCHANGED <<today, files, pass, before, order, work, days>>
  BY DEF StartUnion
<1>2. tree.cat \in Seq(Entries)
  BY FileForm DEF JobInv, JobType
<1>3. JobType'
  BY <1>1, <1>2 DEF JobInv, JobType, files, order, work
<1> QED BY <1>1, <1>3 DEF JobInv, Received, MintsApart, OrgsExist, files, work

-----------------------------------------------------------------------------
(* Step 2, end: each committed record is united, and the file is written.   *)

\* What holds of the variables while committed records are visited.
LEMMA UnionFacts ==
  ASSUME JobInv, Visited
  PROVE  /\ fresh \in Seq(Entries) /\ slots \in Seq(Entries) /\ extra \in Seq(Entries) /\ index \in Indexes
         /\ renamed \in Maps(Forms) /\ AllFull(slots) /\ LowerApart(slots) /\ AllEnrich(extra)
         /\ Head(left) \in Entries /\ Head(left).id \in Forms
         /\ Head(left).aliases \subseteq Forms /\ Head(left).name \in Forms \cup {None}
<1>1. /\ fresh \in Seq(Entries) /\ slots \in Seq(Entries) /\ extra \in Seq(Entries) /\ index \in Indexes
      /\ left \in Seq(Entries) /\ left # <<>>
      /\ renamed \in Maps(Forms) /\ AllFull(slots) /\ LowerApart(slots) /\ AllEnrich(extra)
  BY DEF JobInv, JobType, MintsApart, Visited
<1>2. Head(left) \in Entries
  BY <1>1, TailFacts
<1> QED BY <1>1, <1>2 DEF Entries

\* The steps that visit one committed record.
LEMMA UnionInv ==
  ASSUME JobInv, Visited,
         fresh' \in Seq(Entries), slots' \in Seq(Entries), extra' \in Seq(Entries),
         index' \in Indexes, wide' = wide, renamed' \in Maps(Forms),
         AllFull(slots'), LowerApart(slots'), AllEnrich(extra')
  PROVE  JobInv'
<1>1. /\ left \in Seq(Entries) /\ left # <<>> /\ left' = Tail(left) /\ pc = "union"
      /\ UNCHANGED <<today, files, pc, pass, before, order, days>>
      /\ \A e \in tree.full : Resolved(e)
  BY DEF JobInv, JobType, OrgsExist, Visited, Next1
<1>2. left' \in Seq(Entries)
  BY <1>1, TailFacts
<1>3. JobType'
  BY <1>1, <1>2 DEF JobInv, JobType, files, order
<1>4. pc' = "union" /\ \A e \in tree'.full : Resolved(e)
  BY <1>1 DEF files
<1> QED BY <1>3, <1>4 DEF JobInv, Received, MintsApart, OrgsExist

\* A committed record is found in an entry of the step, and is found in one
\* that has its id in another casing, if there is one.
LEMMA PriorFacts ==
  ASSUME slots \in Seq(Entries), NEW c
  PROVE  /\ Prior(c) \subseteq DOMAIN slots
         /\ \A m \in DOMAIN slots : Lower[slots[m].id] = Lower[c.id] =>
              /\ Prior(c) # {}
              /\ \A n \in Prior(c) : Lower[c.id] \in {Lower[fresh[n].id], Lower[slots[n].id]}
<1> DEFINE lower == {n \in DOMAIN slots : Lower[c.id] \in {Lower[fresh[n].id], Lower[slots[n].id]}}
           close == {n \in DOMAIN slots : Twin[fresh[n].id] = Twin[c.id]}
           loose == {n \in DOMAIN slots : TwinExt[fresh[n].id] = TwinExt[c.id]}
           near == IF close # {} THEN close ELSE loose
<1>1. Prior(c) = IF lower # {} THEN {First(lower)}
                 ELSE IF ~c.full \/ near = {} THEN {}
                 ELSE {n \in {First(near)} : Size[slots[n].id] = Size[c.id]}
  BY DEF Prior
<1>2. lower \subseteq DOMAIN slots /\ near \subseteq DOMAIN slots /\ DOMAIN slots \subseteq Nat
  BY LenProperties
<1>3. \A n \in lower : Lower[c.id] \in {Lower[fresh[n].id], Lower[slots[n].id]}
  OBVIOUS
<1>4. \A m \in DOMAIN slots : Lower[slots[m].id] = Lower[c.id] => m \in lower
  OBVIOUS
<1> HIDE DEF lower, near
<1>5. lower # {} => First(lower) \in lower
  BY <1>2, FirstFacts
<1>6. near # {} => First(near) \in near
  BY <1>2, FirstFacts
<1>7. Prior(c) \subseteq DOMAIN slots
  BY <1>1, <1>2, <1>5, <1>6
<1> QED BY <1>1, <1>3, <1>4, <1>5, <1>7

\* What a committed record brings back are forms.
LEMMA RegainedType ==
  ASSUME NEW rec, NEW c \in Entries, NEW donor \in Forms \cup {None}, NEW own, NEW ix
  PROVE  Regained(rec, c, donor, own, ix) \subseteq Forms
BY DEF Regained, Entries

\* A suppressed record preserves the invariant.
LEMMA UnionSkippedInv ==
  ASSUME JobInv, UnionSkipped
  PROVE  JobInv'
<1> DEFINE c == Head(left)
           owner == OwnerIn(index, c.id)
<1>1. Visited
  BY DEF UnionSkipped
<1>2. /\ fresh \in Seq(Entries) /\ slots \in Seq(Entries) /\ extra \in Seq(Entries) /\ index \in Indexes
      /\ renamed \in Maps(Forms) /\ AllFull(slots) /\ LowerApart(slots) /\ AllEnrich(extra)
      /\ c \in Entries
  BY <1>1, UnionFacts
<1>3. CASE UNCHANGED work
  BY <1>1, <1>2, <1>3, UnionInv DEF work
<1>4. CASE owner # None /\ EnrichTarget(owner, {}, {}, Donated(c))
  <2>1. owner \in Forms /\ Donated(c) \in Nat
    BY <1>2, <1>4, OwnerInType, ScalarType
  <2> HIDE DEF owner
  <2>2. /\ extra' \in Seq(Entries) /\ AllEnrich(extra') /\ UNCHANGED <<fresh, slots, index, wide, renamed>>
    BY <1>2, <1>4, <2>1, EnrichTargetType
  <2> QED BY <1>1, <1>2, <2>2, UnionInv
<1> QED BY <1>3, <1>4 DEF UnionSkipped

\* A committed id that wins is no entry's id in another casing.
LEMMA UnionRenamedInv ==
  ASSUME JobInv, UnionRenamed
  PROVE  JobInv'
<1> DEFINE c == Head(left)
           To(map, old) == [f \in DOMAIN map |-> IF map[f] = old THEN c.id ELSE map[f]]
<1>1. Visited /\ fresh' = fresh /\ extra' = extra /\ wide' = wide
  BY DEF UnionRenamed
<1>2. /\ fresh \in Seq(Entries) /\ slots \in Seq(Entries) /\ extra \in Seq(Entries) /\ index \in Indexes
      /\ renamed \in Maps(Forms) /\ AllFull(slots) /\ LowerApart(slots) /\ AllEnrich(extra)
      /\ c \in Entries /\ c.id \in Forms
  BY <1>1, UnionFacts
<1>0. PICK n \in Prior(c) :
        LET old == slots[n].id
            own == Owned({old}, c.id) ++ To(claimed, old)
            ix == [index EXCEPT !.exact = To(@, old), !.norm = To(@, old)]
            rec == [slots[n] EXCEPT !.id = c.id, !.aliases = @ \cup {old}]
            back == Regained(rec, c, old, own, ix)
        IN /\ old = fresh[n].id
           /\ slots' = [slots EXCEPT ![n] = [rec EXCEPT !.aliases = @ \cup back]]
           /\ index' = ix
           /\ renamed' = Owned({old}, c.id) ++ renamed
  BY DEF UnionRenamed
<1> DEFINE own == Owned({slots[n].id}, c.id) ++ To(claimed, slots[n].id)
           ix == [index EXCEPT !.exact = To(@, slots[n].id), !.norm = To(@, slots[n].id)]
           rec == [slots[n] EXCEPT !.id = c.id, !.aliases = @ \cup {slots[n].id}]
           back == Regained(rec, c, slots[n].id, own, ix)
<1>3. /\ ix = [index EXCEPT !.exact = To(@, slots[n].id), !.norm = To(@, slots[n].id)]
      /\ rec = [slots[n] EXCEPT !.id = c.id, !.aliases = @ \cup {slots[n].id}]
      /\ back = Regained(rec, c, slots[n].id, own, ix)
      /\ slots[n].id = fresh[n].id
      /\ slots' = [slots EXCEPT ![n] = [rec EXCEPT !.aliases = @ \cup back]]
      /\ index' = ix
      /\ renamed' = Owned({slots[n].id}, c.id) ++ renamed
  BY <1>0
<1> HIDE DEF own, ix, rec, back
<1>4. n \in DOMAIN slots
  BY <1>2, <1>3, PriorFacts
<1>5. slots[n] \in Entries /\ slots[n].id \in Forms /\ slots[n].full
  BY <1>2, <1>4, ElementOfSeq, FormsOfType DEF AllFull
<1>6. rec \in Entries /\ rec.id = c.id /\ rec.full
  BY <1>2, <1>3, <1>5 DEF Entries
<1>7. back \subseteq Forms
  BY <1>2, <1>3, <1>5, RegainedType
<1>8. PICK e : e = [rec EXCEPT !.aliases = @ \cup back]
  OBVIOUS
<1>9. e \in Entries /\ e.id = c.id /\ e.full
  BY <1>6, <1>7, <1>8 DEF Entries
<1>10. slots' = Put(slots, n, e)
  BY <1>3, <1>8 DEF Put
<1>11. \A m \in DOMAIN slots \ {n} : Lower[slots[m].id] # Lower[e.id]
  <2> TAKE m \in DOMAIN slots \ {n}
  <2>1. ASSUME Lower[slots[m].id] = Lower[c.id]
        PROVE  FALSE
    <3>1. Lower[c.id] \in {Lower[fresh[n].id], Lower[slots[n].id]}
      BY <1>2, <1>3, <2>1, PriorFacts
    <3>2. Lower[slots[m].id] = Lower[slots[n].id]
      BY <1>3, <2>1, <3>1
    <3> QED BY <1>2, <1>4, <3>2 DEF LowerApart
  <2> QED BY <1>9, <2>1
<1>12. slots' \in Seq(Entries) /\ AllFull(slots') /\ LowerApart(slots')
  BY <1>2, <1>4, <1>9, <1>10, <1>11, PutFacts
<1>13. index' \in Indexes
  <2> DEFINE N == {Norm[f] : f \in Forms}
  <2>1. index.exact \in Maps(Forms) /\ index.norm \in Maps(N) /\ index.lower \in Maps({Lower[f] : f \in Forms})
    BY <1>2 DEF Indexes
  <2> HIDE DEF N
  <2>2. ASSUME NEW D, NEW map \in Maps(D), NEW old
        PROVE  To(map, old) \in Maps(D)
    <3>1. DOMAIN map \subseteq D /\ \A f \in DOMAIN map : map[f] \in Forms
      BY MapFacts
    <3>2. To(map, old) \in [DOMAIN map -> Forms]
      BY <1>2, <3>1
    <3> HIDE DEF To
    <3> QED BY <3>1, <3>2, MapFacts
  <2> HIDE DEF To
  <2>3. To(index.exact, slots[n].id) \in Maps(Forms) /\ To(index.norm, slots[n].id) \in Maps(N)
    BY <2>1, <2>2
  <2>4. PICK x \in Maps(Forms) : x = To(index.exact, slots[n].id)
    BY <2>3
  <2>5. PICK y \in Maps(N) : y = To(index.norm, slots[n].id)
    BY <2>3
  <2>6. index' = [index EXCEPT !.exact = x, !.norm = y]
    BY <1>3, <2>4, <2>5
  <2> QED BY <1>2, <2>6 DEF Indexes, N
<1>14. renamed' \in Maps(Forms)
  BY <1>2, <1>3, <1>5, MapOwned, MapJoin
<1> QED BY <1>1, <1>2, <1>12, <1>13, <1>14, UnionInv

\* A record that is merged changes no id.
LEMMA UnionMergedInv ==
  ASSUME JobInv, UnionMerged
  PROVE  JobInv'
<1> DEFINE c == Head(left)
<1>1. Visited /\ fresh' = fresh /\ extra' = extra /\ wide' = wide /\ index' = index
  BY DEF UnionMerged
<1>2. /\ fresh \in Seq(Entries) /\ slots \in Seq(Entries) /\ extra \in Seq(Entries) /\ index \in Indexes
      /\ renamed \in Maps(Forms) /\ AllFull(slots) /\ LowerApart(slots) /\ AllEnrich(extra)
      /\ c \in Entries /\ c.id \in Forms
  BY <1>1, UnionFacts
<1>3. PICK n, donor, back :
        /\ n \in Prior(c)
        /\ donor = IF slots[n].id = c.id THEN None ELSE c.id
        /\ back = Regained(slots[n], c, donor, claimed, index)
        /\ slots' = [slots EXCEPT ![n].aliases = @ \cup back]
        /\ renamed' = IF donor = None THEN renamed ELSE Owned({c.id}, slots[n].id) ++ renamed
  BY DEF UnionMerged
<1>4. n \in DOMAIN slots
  BY <1>2, <1>3, PriorFacts
<1>5. slots[n] \in Entries /\ slots[n].id \in Forms /\ slots[n].full
  BY <1>2, <1>4, ElementOfSeq, FormsOfType DEF AllFull
<1>6. back \subseteq Forms
  BY <1>2, <1>3, RegainedType
<1>7. PICK e : e = [slots[n] EXCEPT !.aliases = @ \cup back]
  OBVIOUS
<1>8. e \in Entries /\ e.id = slots[n].id /\ e.full
  BY <1>5, <1>6, <1>7 DEF Entries
<1>9. slots' = Put(slots, n, e)
  BY <1>3, <1>5, <1>7 DEF Put, Entries
<1>10. \A m \in DOMAIN slots \ {n} : Lower[slots[m].id] # Lower[e.id]
  BY <1>2, <1>4, <1>8 DEF LowerApart
<1>11. slots' \in Seq(Entries) /\ AllFull(slots') /\ LowerApart(slots')
  BY <1>2, <1>4, <1>8, <1>9, <1>10, PutFacts
<1>12. renamed' \in Maps(Forms)
  BY <1>2, <1>3, <1>5, MapOwned, MapJoin
<1> QED BY <1>1, <1>2, <1>11, <1>12, UnionInv

\* A record that enriches the same id as another one joins it.
LEMMA UnionEnrichingInv ==
  ASSUME JobInv, UnionEnriching
  PROVE  JobInv'
<1> DEFINE c == Head(left)
<1>1. Visited /\ fresh' = fresh /\ slots' = slots /\ wide' = wide /\ index' = index /\ renamed' = renamed
  BY DEF UnionEnriching, Unmatched
<1>2. /\ fresh \in Seq(Entries) /\ slots \in Seq(Entries) /\ extra \in Seq(Entries) /\ index \in Indexes
      /\ renamed \in Maps(Forms) /\ AllFull(slots) /\ LowerApart(slots) /\ AllEnrich(extra)
      /\ c \in Entries /\ c.id \in Forms
  BY <1>1, UnionFacts
<1>3. PICK n, back :
        /\ n \in Enriching(c)
        /\ back = Regained(extra[n], c, None, claimed, index)
        /\ extra' = [extra EXCEPT ![n].aliases = @ \cup back, ![n].weak = Kept(@, Donated(c))]
  BY DEF UnionEnriching
<1>4. n \in DOMAIN extra
  BY <1>3 DEF Enriching
<1>5. extra[n] \in Entries /\ ~extra[n].full /\ extra[n].org = None
  BY <1>2, <1>4, ElementOfSeq DEF AllEnrich
<1>6. back \subseteq Forms
  BY <1>2, <1>3, RegainedType
<1>7. PICK e : e = [extra[n] EXCEPT !.aliases = @ \cup back, !.weak = Kept(@, Donated(c))]
  OBVIOUS
<1>8. Kept(extra[n].weak, Donated(c)) \in Nat
  BY <1>2, <1>5, ScalarType
<1>9. e \in Entries /\ e.id = extra[n].id /\ ~e.full /\ e.org = None
  BY <1>5, <1>6, <1>7, <1>8 DEF Entries
<1>10. extra' = Put(extra, n, e)
  BY <1>3, <1>5, <1>7 DEF Put, Entries
<1>11. extra' \in Seq(Entries) /\ AllEnrich(extra')
  BY <1>2, <1>4, <1>9, <1>10, PutFacts
<1> QED BY <1>1, <1>2, <1>11, UnionInv

\* A record that is another source's enriches that one.
LEMMA UnionOwnedInv ==
  ASSUME JobInv, UnionOwned
  PROVE  JobInv'
<1> DEFINE c == Head(left)
           owner == OwnerIn(index, c.id)
           own == IF owner = c.id THEN {} ELSE {c.id}
           forms == own \cup c.aliases \cup ({c.name} \ {None})
<1>1. Visited /\ owner # None /\ EnrichTarget(owner, forms, own, Donated(c))
  BY DEF UnionOwned, Unmatched
<1>2. /\ fresh \in Seq(Entries) /\ slots \in Seq(Entries) /\ extra \in Seq(Entries) /\ index \in Indexes
      /\ renamed \in Maps(Forms) /\ AllFull(slots) /\ LowerApart(slots) /\ AllEnrich(extra)
      /\ c \in Entries /\ c.id \in Forms /\ c.aliases \subseteq Forms /\ c.name \in Forms \cup {None}
  BY <1>1, UnionFacts
<1>3. owner \in Forms /\ Donated(c) \in Nat /\ forms \subseteq Forms
  BY <1>1, <1>2, OwnerInType, ScalarType
<1> HIDE DEF owner, own, forms
<1>4. /\ extra' \in Seq(Entries) /\ AllEnrich(extra') /\ UNCHANGED <<fresh, slots, index, wide, renamed>>
  BY <1>1, <1>2, <1>3, EnrichTargetType
<1> QED BY <1>1, <1>2, <1>4, UnionInv

\* A mint that is retained is no entry's id in another casing.
LEMMA UnionRetainedInv ==
  ASSUME JobInv, UnionRetained
  PROVE  JobInv'
<1> DEFINE c == Head(left)
           kept == [c EXCEPT !.removed = TRUE]
<1>1. Visited /\ Prior(c) = {} /\ extra' = extra /\ wide' = wide /\ index' = index /\ renamed' = renamed
  BY DEF UnionRetained, Unmatched
<1>2. /\ fresh \in Seq(Entries) /\ slots \in Seq(Entries) /\ extra \in Seq(Entries) /\ index \in Indexes
      /\ renamed \in Maps(Forms) /\ AllFull(slots) /\ LowerApart(slots) /\ AllEnrich(extra)
      /\ c \in Entries /\ c.id \in Forms
  BY <1>1, UnionFacts
<1>3. CASE c.full /\ fresh' = Append(fresh, kept) /\ slots' = Append(slots, kept)
  <2>1. kept \in Entries /\ kept.id = c.id /\ kept.full
    BY <1>2, <1>3 DEF Entries
  <2>2. \A n \in DOMAIN slots : Lower[slots[n].id] # Lower[c.id]
    BY <1>1, <1>2, PriorFacts
  <2> HIDE DEF kept
  <2>3. fresh' \in Seq(Entries) /\ slots' \in Seq(Entries) /\ AllFull(slots') /\ LowerApart(slots')
    BY <1>2, <1>3, <2>1, <2>2, AppendFacts
  <2> QED BY <1>1, <1>2, <2>3, UnionInv
<1>4. CASE fresh' = fresh /\ slots' = slots
  BY <1>1, <1>2, <1>4, UnionInv
<1> QED BY <1>3, <1>4 DEF UnionRetained, Enter

\* Writing the catalog file preserves the invariant.
LEMMA WriteCatalogInv ==
  ASSUME JobInv, WriteCatalog
  PROVE  JobInv'
<1> DEFINE to == Final(renamed)
           out == [n \in DOMAIN slots |-> [Canonical(slots[n]) EXCEPT !.parents = Redirected(@, to)]]
           same == [n \in DOMAIN slots |-> Canonical(slots[n])]
           named == {e.org : e \in Range(out)} \ ({None} \cup KnownOrgs)
<1>1. /\ slots \in Seq(Entries) /\ extra \in Seq(Entries) /\ renamed \in Maps(Forms)
      /\ tree \in Files /\ FileOK(tree) /\ AllFull(slots) /\ LowerApart(slots) /\ AllEnrich(extra)
      /\ \A e \in tree.full : Resolved(e)
  BY DEF JobInv, JobType, MintsApart, OrgsExist, WriteCatalog
<1>2. tree' = [tree EXCEPT !.cat = out \o extra, !.orgs = @ \cup named] /\ pc' = "orgs"
  BY DEF WriteCatalog
<1>3. to \in Maps(Forms)
  BY <1>1, FinalType
<1> HIDE DEF to
<1>4. DOMAIN slots = 1 .. Len(slots) /\ Len(slots) \in Nat /\ \A n \in DOMAIN slots : slots[n] \in Entries
  BY <1>1, LenProperties, ElementOfSeq
<1>5. \A n \in DOMAIN slots : /\ same[n] \in Entries /\ same[n].id = slots[n].id /\ same[n].full
                              /\ Resolved(same[n])
  BY <1>1, <1>4, CanonicalFacts DEF AllFull
<1>6. DOMAIN same = DOMAIN slots /\ same \in Seq(Entries)
  BY <1>4, <1>5
<1>7. out = [n \in DOMAIN same |-> [same[n] EXCEPT !.parents = Redirected(@, to)]]
  OBVIOUS
<1> HIDE DEF same, out
<1>8. out \in Seq(Entries) /\ DOMAIN out = DOMAIN slots
  BY <1>3, <1>6, <1>7, RepointedType
<1>9. \A n \in DOMAIN slots : out[n].id = slots[n].id /\ out[n].full /\ out[n].org = same[n].org
  <2> TAKE n \in DOMAIN slots
  <2>1. same[n] \in Entries /\ out[n] = [same[n] EXCEPT !.parents = Redirected(@, to)]
    BY <1>5, <1>6, <1>7
  <2> QED BY <1>5, <2>1 DEF Entries
<1>10. \A n \in DOMAIN out : Resolved(out[n])
  BY <1>5, <1>8, <1>9 DEF Resolved
<1>11. \A n \in DOMAIN extra : Resolved(extra[n])
  BY <1>1 DEF AllEnrich, Resolved
<1> DEFINE all == out \o extra
<1>12. /\ all \in Seq(Entries) /\ Range(all) = Range(out) \cup Range(extra) /\ Range(out) \subseteq Entries
  BY <1>1, <1>8, RangeFacts
<1>13. \A e \in Range(all) : Resolved(e)
  BY <1>10, <1>11, <1>12 DEF Range
<1>14. named \subseteq Orgs
  BY <1>12 DEF Entries
<1>15. \A m, n \in DOMAIN out : out[m].id = out[n].id => m = n
  BY <1>1, <1>8, <1>9 DEF LowerApart
<1>16. ASSUME NEW m \in DOMAIN all, NEW n \in DOMAIN all, all[m].id = all[n].id, all[m].full = all[n].full
       PROVE  m = n
  <2>1. /\ Len(out) \in Nat /\ Len(extra) \in Nat
        /\ DOMAIN out = 1 .. Len(out) /\ DOMAIN extra = 1 .. Len(extra)
        /\ DOMAIN all = 1 .. (Len(out) + Len(extra))
        /\ \A k \in 1 .. (Len(out) + Len(extra)) : all[k] = IF k <= Len(out) THEN out[k] ELSE extra[k - Len(out)]
    BY <1>1, <1>8, ConcatProperties, LenProperties
  <2> HIDE DEF all
  <2>2. \A k \in DOMAIN all : \/ k \in DOMAIN out /\ all[k] = out[k] /\ all[k].full
                              \/ k - Len(out) \in DOMAIN extra /\ all[k] = extra[k - Len(out)] /\ ~all[k].full
    <3> TAKE k \in DOMAIN all
    <3>1. CASE k <= Len(out)
      BY <1>8, <1>9, <2>1, <3>1
    <3>2. CASE k > Len(out)
      <4>1. k - Len(out) \in DOMAIN extra /\ all[k] = extra[k - Len(out)]
        BY <2>1, <3>2
      <4> QED BY <1>1, <4>1 DEF AllEnrich
    <3> QED BY <2>1, <3>1, <3>2
  <2>3. CASE all[m].full
    BY <1>15, <1>16, <2>2, <2>3
  <2>4. CASE ~all[m].full
    <3>1. /\ m - Len(out) \in DOMAIN extra /\ all[m] = extra[m - Len(out)]
          /\ n - Len(out) \in DOMAIN extra /\ all[n] = extra[n - Len(out)]
      BY <1>16, <2>2, <2>4
    <3>2. m - Len(out) = n - Len(out)
      BY <1>1, <1>16, <3>1 DEF AllEnrich
    <3> QED BY <2>1, <3>2
  <2> QED BY <2>3, <2>4
<1> HIDE DEF all, named
<1>17. /\ tree' \in Files /\ tree'.full = tree.full /\ tree'.cat = all
  <2>1. tree' = [tree EXCEPT !.cat = all, !.orgs = @ \cup named]
    BY <1>2 DEF all
  <2> QED BY <1>1, <1>12, <1>14, <2>1 DEF Files
<1>18. FileOK(tree')
  <2>1. PICK t \in Files : t = tree'
    BY <1>17
  <2>2. OnePerId(t.full) /\ t.cat = all
    BY <1>1, <1>17, <2>1 DEF FileOK
  <2>3. FileOK(t)
    BY <1>16, <2>2, FileForm
  <2> QED BY <2>1, <2>3
<1>19. JobType'
  BY <1>17, <1>18 DEF JobInv, JobType, WriteCatalog, order, work
<1>20. /\ \A e \in tree'.full : Resolved(e)
       /\ \A e \in Range(tree'.cat) : Resolved(e)
  BY <1>1, <1>13, <1>17
<1> QED BY <1>2, <1>19, <1>20 DEF JobInv, Received, MintsApart, OrgsExist, Resolved

-----------------------------------------------------------------------------
(* Step 3, and what follows the last pass.                                  *)

\* Every org that is named is minted before the next pass or the commit.
LEMMA ReconcileOrgsInv ==
  ASSUME JobInv, ReconcileOrgs
  PROVE  JobInv'
<1> DEFINE all == Independent \o Listed(tree.full) \o tree.cat
           named == {CanonOrg[o] : o \in {e.org : e \in Range(all)} \ {None}}
           stale == {o \in tree.orgs \ named : CanonOrg[o] \in named}
           orgs == (tree.orgs \ stale) \cup (named \ KnownOrgs)
<1>1. /\ today \in Days /\ tree \in Files /\ FileOK(tree)
      /\ \A e \in tree.full : Resolved(e)
      /\ \A e \in Range(tree.cat) : Resolved(e)
  BY DEF JobInv, JobType, OrgsExist, ReconcileOrgs
<1>2. tree' = [tree EXCEPT !.orgs = orgs]
  BY DEF ReconcileOrgs
<1>3. tree.full \subseteq Entries /\ OnePerId(tree.full) /\ tree.cat \in Seq(Entries)
  BY <1>1, FileForm
<1>4. Listed(tree.full) \in Seq(Entries) /\ Range(Listed(tree.full)) = tree.full
  <2>1. Listed(tree.full) \in Seq(tree.full) /\ Range(Listed(tree.full)) = tree.full
    BY <1>3, ListedFacts
  <2> QED BY <1>3, <2>1, SeqMonotonic
<1>5. Range(all) \subseteq Entries /\ Records(tree) \subseteq Range(all)
  <2>1. Independent \in Seq(Entries)
    BY <1>1, IndependentType
  <2>2. PICK some \in Seq(Entries) : /\ some = Independent \o Listed(tree.full)
                                     /\ Range(some) = Range(Independent) \cup tree.full
    BY <1>4, <2>1, RangeFacts
  <2>3. /\ some \o tree.cat \in Seq(Entries)
        /\ Range(some \o tree.cat) = Range(some) \cup Range(tree.cat)
    BY <1>3, <2>2, RangeFacts
  <2>4. all = some \o tree.cat
    BY <2>2
  <2>5. Range(all) \subseteq Entries
    BY <2>3, <2>4, RangeFacts, EmptySeq
  <2> QED BY <2>2, <2>3, <2>4, <2>5 DEF Records
<1> HIDE DEF all
<1>6. {e.org : e \in Range(all)} \ {None} \subseteq Orgs
  BY <1>5 DEF Entries
<1>7. named \subseteq Orgs
  BY <1>6, RefreshAssumption
<1>8. orgs \subseteq Orgs
  BY <1>1, <1>7 DEF Files
<1>9. \A e \in Records(tree) : e.org \in {None} \cup KnownOrgs \cup orgs
  <2> TAKE e \in Records(tree)
  <2>1. Resolved(e)
    BY <1>1 DEF Records
  <2>2. CASE e.org # None
    <3>1. CanonOrg[e.org] = e.org
      BY <2>1, <2>2 DEF Resolved
    <3>2. e.org \in named
      BY <1>5, <2>2, <3>1
    <3> QED BY <3>2
  <2> QED BY <2>2
<1> HIDE DEF named, orgs
<1>10. /\ tree' \in Files /\ tree'.full = tree.full /\ tree'.cat = tree.cat /\ tree'.orgs = orgs
  BY <1>1, <1>2, <1>8 DEF Files
<1>11. FileOK(tree') /\ Records(tree') = Records(tree)
  BY <1>1, <1>10 DEF FileOK, Records
<1>12. \/ pass = 3 /\ pc' = "verify" /\ pass' = pass
       \/ pass # 3 /\ pc' = "full" /\ pass' = pass + 1
  BY DEF ReconcileOrgs
<1>13. pass' \in 0 .. 3
  BY <1>12 DEF JobInv, JobType
<1>14. JobType'
  BY <1>10, <1>11, <1>12, <1>13 DEF JobInv, JobType, ReconcileOrgs, order, work
<1>15. \A e \in Records(tree') : e.org \in {None} \cup KnownOrgs \cup tree'.orgs
  BY <1>9, <1>10, <1>11
<1> QED BY <1>12, <1>14, <1>15 DEF JobInv, Received, MintsApart, OrgsExist

\* Verifying and committing preserve the invariant.
LEMMA VerifyInv ==
  ASSUME JobInv, Verify
  PROVE  JobInv'
<1>1. pc = "verify" /\ pc' \in {"commit", "idle"} /\ UNCHANGED <<today, files, pass, before, order, left, work, days>>
  BY DEF Verify
<1>2. JobType'
  BY <1>1 DEF JobInv, JobType, files, order, work
<1> QED BY <1>1, <1>2 DEF JobInv, Received, MintsApart, OrgsExist, files

\* A commit preserves the invariant.
LEMMA CommitInv ==
  ASSUME JobInv, Commit
  PROVE  JobInv'
<1>1. JobType'
  BY DEF JobInv, JobType, Commit, order, work
<1> QED BY <1>1 DEF Commit, JobInv, Received, MintsApart, OrgsExist

\* The invariant is about these variables alone.
LEMMA StutterInv ==
  ASSUME JobInv, UNCHANGED vars
  PROVE  JobInv'
<1>1. JobType'
  BY DEF JobInv, JobType, vars, files, order, work
<1>2. Forwarded => Forwarded'
  BY ReceiverStays DEF vars, files, work, Forwarded
<1> QED BY <1>1, <1>2 DEF JobInv, Received, MintsApart, OrgsExist, vars, files, order, work

\* The job's invariant holds at every step of every job.
THEOREM JobInvariance == Spec => []JobInv
<1>1. Init => JobInv
  BY InitInv
<1>2. JobInv /\ [Next]_vars => JobInv'
  <2> SUFFICES ASSUME JobInv, [Next]_vars
               PROVE  JobInv'
    OBVIOUS
  <2>1. CASE NewDay \/ Produce \/ Refuse \/ StartCarry
    BY <2>1, NewDayInv, ProduceInv, RefuseInv, StartCarryInv
  <2>2. CASE CarrySame \/ CarrySkipped \/ CarryRenamed \/ CarryAbsorbed \/ CarryGone \/ EndCarry
    BY <2>2, CarrySameInv, CarrySkippedInv, CarryRenamedInv, CarryAbsorbedInv, CarryGoneInv, EndCarryInv
  <2>3. CASE Survive \/ Suppress \/ DropOrphan \/ EndJudge
    BY <2>3, SurviveInv, SuppressInv, DropOrphanInv, EndJudgeInv
  <2>4. CASE Give \/ EndGive \/ Keep \/ WriteFull
    BY <2>4, GiveInv, EndGiveInv, KeepInv, WriteFullInv
  <2>5. CASE StartSplit \/ SplitEnrich \/ SplitClaimed \/ SplitMint \/ StartUnion
    BY <2>5, StartSplitInv, SplitEnrichInv, SplitClaimedInv, SplitMintInv, StartUnionInv
  <2>6. CASE UnionSkipped \/ UnionRenamed \/ UnionMerged \/ UnionEnriching \/ UnionOwned \/ UnionRetained
    BY <2>6, UnionSkippedInv, UnionRenamedInv, UnionMergedInv, UnionEnrichingInv, UnionOwnedInv,
       UnionRetainedInv
  <2>7. CASE WriteCatalog \/ ReconcileOrgs \/ Verify \/ Commit
    BY <2>7, WriteCatalogInv, ReconcileOrgsInv, VerifyInv, CommitInv
  <2>8. CASE UNCHANGED vars
    BY <2>8, StutterInv
  <2> QED BY <2>1, <2>2, <2>3, <2>4, <2>5, <2>6, <2>7, <2>8 DEF Next
<1> QED BY <1>1, <1>2, PTL DEF Spec

\* The files of a job hold one record per id and well-typed records, whatever
\* upstream and the hub hold and however committed ids were respelled, removed
\* or suppressed; and when the job verifies or commits (refresh-models.yml), no
\* record names an org that was not minted (_write_yaml, reconcile_all_orgs).
THEOREM TypeCorrect == Spec => []TypeOK
<1>1. JobInv => TypeOK
  BY DEF JobInv, JobType, OrgsExist, TypeOK
<1> QED BY <1>1, JobInvariance, PTL

\* A suppressed record always has a receiver for its forms, some id defined in
\* full or an HF repository, and never itself unless another source defines it;
\* and two ids of the catalog's mints always differ in more than case
\* (reconcile_full_entries, regenerate_catalog).
THEOREM ForwardedAndApart == Spec => [](Received /\ MintsApart)
<1>1. JobInv => Received /\ MintsApart
  BY DEF JobInv
<1> QED BY <1>1, JobInvariance, PTL

-----------------------------------------------------------------------------
(* What is minted is claimed.                                               *)

\* While the catalog is split, every form of a minted entry is claimed by it.
Claims ==
  /\ claimed \in Maps(Forms)
  /\ \A n \in DOMAIN slots : \A f \in FormsOf(slots[n]) : f \in DOMAIN claimed /\ claimed[f] = slots[n].id
MintsClaim == pc = "split" => Claims
Unshared == \A m, n \in DOMAIN slots : m # n => FormsOf(slots[m]) \cap FormsOf(slots[n]) = {}

\* What is given to an owner is claimed by no mint.
LEMMA SplitEnrichClaims ==
  ASSUME JobInv, MintsClaim, SplitEnrich
  PROVE  Claims'
<1> DEFINE e == Head(left)
           id == OwnerOf(e)
           own == IF Lower[e.id] \in DOMAIN index.lower THEN {} ELSE {e.id}
           forms == own \cup e.aliases
           keep == {f \in forms \ {id} : ~Steals(index, f, id) /\ At(claimed, f) \in {None, id}}
<1>1. /\ pc = "split" /\ left # <<>> /\ id # None
      /\ EnrichTarget(id, forms, {}, Donated(e))
  BY DEF SplitEnrich
<1>2. /\ e \in Entries /\ e.id \in Forms /\ slots \in Seq(Entries) /\ index \in Indexes
  BY <1>1, SplitFacts
<1>3. Claims
  BY <1>1 DEF MintsClaim
<1>4. claimed' = Owned(keep, id) ++ claimed /\ slots' = slots
  BY <1>1 DEF EnrichTarget
<1>5. id \in Forms
  BY <1>1, <1>2, OwnerOfType
<1>6. forms \subseteq Forms
  BY <1>2, FormsOfType
<1>7. keep \subseteq Forms /\ \A f \in keep : At(claimed, f) \in {None, id}
  BY <1>6
<1> HIDE DEF id, own, forms, keep
<1>8. claimed' \in Maps(Forms)
  BY <1>3, <1>4, <1>5, <1>7, MapOwned, MapJoin DEF Claims
<1>9. ASSUME NEW n \in DOMAIN slots, NEW f \in FormsOf(slots[n])
      PROVE  f \in DOMAIN claimed' /\ claimed'[f] = slots[n].id
  <2>1. f \in DOMAIN claimed /\ claimed[f] = slots[n].id
    BY <1>3 DEF Claims
  <2>2. slots[n].id # None
    BY <1>2, ElementOfSeq, FormsOfType, FormFacts
  <2>3. f \in keep => slots[n].id = id
    BY <1>7, <2>1, <2>2 DEF At
  <2> QED BY <1>4, <2>1, <2>3 DEF Owned, ++
<1> QED BY <1>4, <1>8, <1>9 DEF Claims

\* What is minted claims its forms, and takes none from another mint.
LEMMA SplitMintClaims ==
  ASSUME JobInv, MintsClaim, SplitMint
  PROVE  Claims'
<1> DEFINE e == Head(left)
           Taken(f) == At(index.exact, f) # None \/ At(claimed, f) \notin {None, e.id}
           own == {f \in e.aliases \ {e.id} : ~Steals(index, f, e.id) /\ At(claimed, f) \in {None, e.id}}
           name == IF ~Taken(e.name) THEN e.name ELSE IF Taken(LastPart[e.id]) THEN e.id ELSE LastPart[e.id]
           spelled == IF name \in {e.name, e.id} THEN {} ELSE {name}
           minted == [e EXCEPT !.aliases = own \cup spelled, !.name = name]
<1>1. /\ pc = "split" /\ left # <<>> /\ At(claimed, e.id) \in {None, e.id}
      /\ slots' = Append(slots, minted) /\ claimed' = claimed ++ Owned(FormsOf(minted), e.id)
  BY DEF SplitMint, Enter
<1>2. /\ e \in Entries /\ e.id \in Forms /\ slots \in Seq(Entries)
  BY <1>1, SplitFacts
<1>3. Claims
  BY <1>1 DEF MintsClaim
<1>4. /\ own \subseteq Forms /\ LastPart[e.id] \in Forms
      /\ \A f \in own : At(claimed, f) \in {None, e.id}
  BY <1>2, FormsOfType, FormFacts
<1>5. At(claimed, name) \in {None, e.id}
  BY <1>1
<1>6. name \in Forms \cup {None} /\ (name # e.name => name \in Forms)
  BY <1>2, <1>4 DEF Entries
<1>7. own \cup spelled \subseteq Forms
  BY <1>4, <1>6
<1>8. \A f \in {e.id, name} \cup (own \cup spelled) : At(claimed, f) \in {None, e.id}
  BY <1>1, <1>4, <1>5
<1> HIDE DEF own, name, spelled
<1>9. PICK a \in SUBSET Forms : a = own \cup spelled
  BY <1>7
<1>10. minted = [e EXCEPT !.aliases = a, !.name = name]
  BY <1>9
<1>11. minted \in Entries /\ minted.id = e.id /\ minted.aliases = a /\ minted.name = name
  BY <1>2, <1>6, <1>10 DEF Entries
<1> HIDE DEF minted
<1>12. FormsOf(minted) \subseteq Forms /\ \A f \in FormsOf(minted) : At(claimed, f) \in {None, e.id}
  BY <1>8, <1>9, <1>11, FormsOfType DEF FormsOf
<1>13. claimed' \in Maps(Forms)
  BY <1>1, <1>2, <1>3, <1>12, MapOwned, MapJoin DEF Claims
<1>14. \A f \in DOMAIN claimed : claimed[f] \in Forms
  BY <1>3, MapFacts DEF Claims
<1>15. \A f \in FormsOf(minted) : f \in DOMAIN claimed' /\ claimed'[f] = e.id
  BY <1>1, <1>12, <1>14, FormFacts DEF At, Owned, ++
<1>16. ASSUME NEW n \in DOMAIN slots'
       PROVE  \A f \in FormsOf(slots'[n]) : f \in DOMAIN claimed' /\ claimed'[f] = slots'[n].id
  <2>1. slots'[n] = minted \/ (n \in DOMAIN slots /\ slots'[n] = slots[n])
    BY <1>1, <1>2, <1>11, AppendFacts
  <2>2. CASE slots'[n] = minted
    BY <1>11, <1>15, <2>2
  <2>3. CASE n \in DOMAIN slots /\ slots'[n] = slots[n]
    BY <1>1, <1>3, <2>3 DEF Claims, Owned, ++
  <2> QED BY <2>1, <2>2, <2>3
<1> QED BY <1>13, <1>16 DEF Claims

\* The claims begin with the committed forms, and hold of nothing minted.
LEMMA StartSplitClaims ==
  ASSUME JobInv, StartSplit
  PROVE  Claims'
<1>1. PICK S : claimed' = Index(Only(tree.cat, S)).exact
  BY DEF StartSplit
<1>2. tree.cat \in Seq(Entries)
  BY FileForm DEF JobInv, JobType
<1>3. Only(tree.cat, S) \in Seq(Entries)
  BY <1>2, OnlyType
<1>4. Index(Only(tree.cat, S)) \in Indexes
  BY <1>3, IndexType
<1>5. claimed' \in Maps(Forms)
  BY <1>1, <1>4 DEF Indexes
<1>6. slots' = <<>>
  BY DEF StartSplit
<1> QED BY <1>5, <1>6 DEF Claims

\* While the catalog is split against the other sources, no two of the entries
\* it mints answer to one form, whatever the committed file claims and whatever
\* was enriched in between (regenerate_catalog: a mint takes no form that
\* another mint or a committed entry carries).
THEOREM MintsShareNothing == Spec => [](pc = "split" => Unshared)
<1>1. Init => MintsClaim
  BY DEF Init, MintsClaim
<1>2. JobInv /\ MintsClaim /\ [Next]_vars => MintsClaim'
  <2> SUFFICES ASSUME JobInv, MintsClaim, [Next]_vars
               PROVE  MintsClaim'
    OBVIOUS
  <2>1. CASE StartSplit
    BY <2>1, StartSplitClaims DEF MintsClaim
  <2>2. CASE SplitEnrich
    BY <2>2, SplitEnrichClaims DEF MintsClaim
  <2>3. CASE SplitMint
    BY <2>3, SplitMintClaims DEF MintsClaim
  <2>4. CASE SplitClaimed
    BY <2>4 DEF SplitClaimed, Next1, work, MintsClaim, Claims
  <2>5. CASE NewDay \/ Produce \/ Refuse \/ StartCarry \/ EndCarry \/ EndJudge \/ EndGive \/ WriteFull
    BY <2>5 DEF NewDay, Produce, Refuse, StartCarry, EndCarry, EndJudge, EndGive, WriteFull, MintsClaim
  <2>6. CASE CarrySame \/ CarrySkipped \/ CarryRenamed \/ CarryAbsorbed \/ CarryGone
    BY <2>6 DEF CarrySame, CarrySkipped, CarryRenamed, CarryAbsorbed, CarryGone, Absorb, Visit, Steady, MintsClaim
  <2>7. CASE Survive \/ Suppress \/ DropOrphan
    BY <2>7 DEF Survive, Suppress, DropOrphan, Judging, Judged, MintsClaim
  <2>8. CASE Give
    BY <2>8 DEF Give, MintsClaim
  <2>9. CASE Keep
    BY <2>9 DEF Keep, MintsClaim
  <2>10. CASE StartUnion \/ WriteCatalog \/ ReconcileOrgs \/ Verify \/ Commit
    BY <2>10 DEF StartUnion, WriteCatalog, ReconcileOrgs, Verify, Commit, MintsClaim
  <2>11. CASE UnionSkipped \/ UnionRenamed \/ UnionMerged
    <3>1. Visited
      BY <2>11 DEF UnionSkipped, UnionRenamed, UnionMerged
    <3> QED BY <3>1 DEF Visited, Next1, MintsClaim
  <2>12. CASE UnionEnriching \/ UnionOwned \/ UnionRetained
    BY <2>12 DEF UnionEnriching, UnionOwned, UnionRetained, Unmatched, Visited, Next1, MintsClaim
  <2>13. CASE UNCHANGED vars
    BY <2>13 DEF vars, work, MintsClaim, Claims
  <2> QED BY <2>1, <2>2, <2>3, <2>4, <2>5, <2>6, <2>7, <2>8, <2>9, <2>10, <2>11, <2>12, <2>13 DEF Next
<1>3. JobInv /\ MintsClaim => (pc = "split" => Unshared)
  <2> SUFFICES ASSUME JobInv, MintsClaim, pc = "split", NEW m \in DOMAIN slots, NEW n \in DOMAIN slots, m # n,
                      NEW f \in FormsOf(slots[m]), f \in FormsOf(slots[n])
               PROVE  FALSE
    BY DEF Unshared
  <2>1. slots[m].id = slots[n].id
    BY DEF MintsClaim, Claims
  <2>2. LowerApart(slots)
    BY DEF JobInv, MintsApart
  <2> QED BY <2>1, <2>2 DEF LowerApart
<1> QED BY <1>1, <1>2, <1>3, JobInvariance, PTL DEF Spec

-----------------------------------------------------------------------------
(* The carry loses no form of the committed file.                           *)

Held == Spellings(Range(slots)) \cup Spellings(Range(extra))

\* While committed records are carried, each is still to visit, or suppressed
\* by core.yaml, or its forms are held; an entry keeps its generated id.
Carried ==
  /\ DOMAIN fresh = DOMAIN slots /\ \A n \in DOMAIN slots : fresh[n].id \in FormsOf(slots[n])
  /\ \A c \in tree.full : c \in Range(left) \/ c.id \in Skipped \/ FormsOf(c) \subseteq Held
FormsCarried == \A c \in tree.full : c.id \in Skipped \/ FormsOf(c) \subseteq Spellings(Range(fresh))
CarryKeeps == (pc = "carry" => Carried) /\ (pc \in {"judge", "give", "keep"} => FormsCarried)

\* An entry in the place of one whose forms it has brings its own.
LEMMA PutSpellings ==
  ASSUME NEW s \in Seq(Entries), NEW n \in DOMAIN s, NEW e \in Entries, FormsOf(s[n]) \subseteq FormsOf(e)
  PROVE  Spellings(Range(s)) \cup FormsOf(e) \subseteq Spellings(Range(Put(s, n, e)))
<1> DEFINE t == Put(s, n, e)
<1>1. DOMAIN t = DOMAIN s /\ \A m \in DOMAIN s : t[m] = IF m = n THEN e ELSE s[m]
  BY ExceptSeq DEF Put
<1> HIDE DEF t
<1>2. \A m \in DOMAIN s : \E k \in DOMAIN t : FormsOf(s[m]) \subseteq FormsOf(t[k])
  BY <1>1
<1>3. n \in DOMAIN t /\ t[n] = e
  BY <1>1
<1> QED BY <1>2, <1>3 DEF Spellings, Range, t

\* An entry at the end brings its forms.
LEMMA AppendSpellings ==
  ASSUME NEW s \in Seq(Entries), NEW e \in Entries
  PROVE  Spellings(Range(s)) \cup FormsOf(e) \subseteq Spellings(Range(Append(s, e)))
<1> DEFINE t == Append(s, e)
<1>1. /\ DOMAIN s = 1 .. Len(s) /\ Len(s) \in Nat /\ DOMAIN t = 1 .. (Len(s) + 1)
      /\ \A n \in 1 .. Len(s) : t[n] = s[n]
      /\ t[Len(s) + 1] = e
  BY AppendProperties, LenProperties
<1> HIDE DEF t
<1>2. \A m \in DOMAIN s : m \in DOMAIN t /\ t[m] = s[m]
  BY <1>1
<1>3. Len(s) + 1 \in DOMAIN t
  BY <1>1
<1> QED BY <1>1, <1>2, <1>3 DEF Spellings, Range, t

\* An absorbed record's aliases and name are forms of the entry, whose own stay.
LEMMA AbsorbForms ==
  ASSUME slots \in Seq(Entries), NEW n \in DOMAIN slots, NEW c \in Entries, NEW id \in Forms,
         NEW more \in SUBSET Forms, slots[n].id \in more \cup {id}, Absorb(n, c, id, more),
         DOMAIN fresh = DOMAIN slots, \A m \in DOMAIN slots : fresh[m].id \in FormsOf(slots[m])
  PROVE  /\ FormsOf(slots[n]) \cup {id} \cup more \cup (FormsOf(c) \ {c.id}) \subseteq Spellings(Range(slots'))
         /\ Spellings(Range(slots)) \subseteq Spellings(Range(slots'))
         /\ DOMAIN fresh = DOMAIN slots' /\ \A m \in DOMAIN slots' : fresh[m].id \in FormsOf(slots'[m])
<1>1. slots[n] \in Entries
  BY ElementOfSeq
<1>2. PICK a : a = slots[n].aliases \cup ((c.aliases \cup more) \ {id}) \cup ({c.name} \ {None, c.id, id, slots[n].name})
  OBVIOUS
<1>3. PICK e : e = [slots[n] EXCEPT !.id = id, !.aliases = a]
  OBVIOUS
<1>4. e \in Entries /\ e.id = id /\ e.aliases = a /\ e.name = slots[n].name
  BY <1>1, <1>2, <1>3 DEF Entries
<1>5. slots' = Put(slots, n, e)
  BY <1>1, <1>2, <1>3 DEF Absorb, Put, Entries
<1>6. None \notin slots[n].aliases \cup c.aliases \cup more \cup {id}
  BY <1>1, FormFacts DEF Entries
<1>7. FormsOf(slots[n]) \cup {id} \cup more \cup (FormsOf(c) \ {c.id}) \subseteq FormsOf(e)
  BY <1>2, <1>4, <1>6 DEF FormsOf
<1>8. Spellings(Range(slots)) \cup FormsOf(e) \subseteq Spellings(Range(slots'))
  BY <1>4, <1>5, <1>7, PutSpellings
<1>9. DOMAIN slots' = DOMAIN slots /\ \A m \in DOMAIN slots : slots'[m] = IF m = n THEN e ELSE slots[m]
  BY <1>4, <1>5, ExceptSeq DEF Put
<1>10. \A m \in DOMAIN slots' : fresh[m].id \in FormsOf(slots'[m])
  BY <1>7, <1>9
<1> QED BY <1>7, <1>8, <1>9, <1>10

\* What the steps of the carry have in common.
LEMMA CarryForms ==
  ASSUME JobInv, Carried, Visit, Steady,
         DOMAIN fresh = DOMAIN slots', \A m \in DOMAIN slots' : fresh[m].id \in FormsOf(slots'[m]),
         Held \subseteq Held', Head(left).id \in Skipped \/ FormsOf(Head(left)) \subseteq Held'
  PROVE  Carried'
<1>1. /\ left \in Seq(Entries) /\ left # <<>> /\ left' = Tail(left)
      /\ tree' = tree /\ fresh' = fresh /\ today' = today
  BY DEF JobInv, JobType, Visit, Steady, files
<1>2. ASSUME NEW c \in tree.full
      PROVE  c \in Range(left') \/ c.id \in Skipped \/ FormsOf(c) \subseteq Held'
  <2>1. CASE c \in Range(left)
    <3>1. PICK n \in DOMAIN left : left[n] = c
      BY <2>1 DEF Range
    <3>2. CASE n = 1
      <4>1. Head(left) = c
        BY <1>1, <3>1, <3>2, TailFacts
      <4> QED BY <4>1
    <3>3. CASE n # 1
      <4>1. /\ DOMAIN left = 1 .. Len(left) /\ Len(left) \in Nat /\ DOMAIN Tail(left) = 1 .. (Len(left) - 1)
        BY <1>1, HeadTailProperties, LenProperties
      <4>2. n - 1 \in DOMAIN Tail(left) /\ (n - 1) + 1 = n
        BY <3>3, <4>1
      <4>3. Tail(left)[n - 1] = c
        BY <1>1, <3>1, <4>2, TailFacts
      <4> QED BY <1>1, <4>2, <4>3 DEF Range
    <3> QED BY <3>2, <3>3
  <2>2. CASE c.id \in Skipped \/ FormsOf(c) \subseteq Held
    BY <2>2
  <2> QED BY <2>1, <2>2 DEF Carried
<1>3. Skipped' = Skipped
  BY <1>1 DEF Skipped
<1> QED BY <1>1, <1>2, <1>3 DEF Carried

\* A record found under its id leaves its forms with the entry.
LEMMA CarrySameForms ==
  ASSUME JobInv, Carried, CarrySame
  PROVE  Carried'
<1> DEFINE c == Head(left)
           bare == [c EXCEPT !.aliases = @ \ {c.id}]
<1>1. slots \in Seq(Entries) /\ left \in Seq(Entries) /\ left # <<>> /\ Visit
  BY DEF JobInv, JobType, CarrySame, Visit
<1>2. c \in Entries
  BY <1>1, TailFacts
<1>3. bare \in Entries /\ bare.id = c.id /\ FormsOf(bare) \ {c.id} = FormsOf(c) \ {c.id}
  BY <1>2 DEF Entries, FormsOf
<1>4. PICK n \in Found(c) : Absorb(n, bare, slots[n].id, {})
  BY DEF CarrySame
<1>5. n \in DOMAIN slots /\ slots[n] \in Entries /\ slots[n].id \in Forms /\ c.id \in {fresh[n].id, slots[n].id}
  BY <1>1, <1>4, ElementOfSeq, FormsOfType DEF Found, Same
<1>6. /\ DOMAIN fresh = DOMAIN slots /\ \A m \in DOMAIN slots : fresh[m].id \in FormsOf(slots[m])
  BY DEF Carried
<1> HIDE DEF bare
<1>7. /\ FormsOf(slots[n]) \cup (FormsOf(bare) \ {bare.id}) \subseteq Spellings(Range(slots'))
      /\ Spellings(Range(slots)) \subseteq Spellings(Range(slots'))
      /\ DOMAIN fresh = DOMAIN slots' /\ \A m \in DOMAIN slots' : fresh[m].id \in FormsOf(slots'[m])
  BY <1>1, <1>3, <1>4, <1>5, <1>6, AbsorbForms
<1>8. c.id \in FormsOf(slots[n])
  BY <1>5, <1>6, FormFacts DEF FormsOf
<1>9. FormsOf(c) \subseteq Spellings(Range(slots'))
  BY <1>3, <1>7, <1>8
<1>10. extra' = extra /\ Steady
  BY <1>4 DEF Absorb
<1> QED BY <1>1, <1>7, <1>9, <1>10, CarryForms DEF Held

\* A suppressed record takes none of the others' forms away.
LEMMA CarrySkippedForms ==
  ASSUME JobInv, Carried, CarrySkipped
  PROVE  Carried'
<1> DEFINE c == Head(left)
           owner == OwnerIn(index, c.id)
<1>1. /\ extra \in Seq(Entries) /\ left \in Seq(Entries) /\ left # <<>> /\ Visit /\ Steady /\ index \in Indexes
      /\ c.id \in Skipped /\ slots' = slots
  BY DEF JobInv, JobType, CarrySkipped, Visit
<1>2. c \in Entries
  BY <1>1, TailFacts
<1>3. owner \in Forms \cup {None} /\ Donated(c) \in Nat
  BY <1>1, <1>2, OwnerInType, ScalarType
<1>4. extra' = extra \/ (owner # None /\ extra' = Append(extra, Enrich(owner, {}, Donated(c))))
  BY DEF CarrySkipped
<1>5. owner # None => Enrich(owner, {}, Donated(c)) \in Entries
  BY <1>3, EnrichType
<1>6. Spellings(Range(extra)) \subseteq Spellings(Range(extra'))
  BY <1>1, <1>4, <1>5, AppendSpellings
<1>7. DOMAIN fresh = DOMAIN slots /\ \A m \in DOMAIN slots : fresh[m].id \in FormsOf(slots[m])
  BY DEF Carried
<1> QED BY <1>1, <1>6, <1>7, CarryForms DEF Held

\* An entry that takes the committed id keeps its own as an alias.
LEMMA CarryRenamedForms ==
  ASSUME JobInv, Carried, CarryRenamed
  PROVE  Carried'
<1> DEFINE c == Head(left)
<1>1. slots \in Seq(Entries) /\ left \in Seq(Entries) /\ left # <<>> /\ Visit
  BY DEF JobInv, JobType, CarryRenamed, Visit
<1>2. c \in Entries /\ c.id \in Forms
  BY <1>1, TailFacts, FormsOfType
<1>3. PICK n \in Respelled(c) : Absorb(n, c, c.id, {slots[n].id})
  BY DEF CarryRenamed
<1>4. n \in DOMAIN slots
  BY <1>1, <1>3, PickDomain
<1>5. slots[n] \in Entries /\ slots[n].id \in Forms
  BY <1>1, <1>4, ElementOfSeq, FormsOfType
<1>6. DOMAIN fresh = DOMAIN slots /\ \A m \in DOMAIN slots : fresh[m].id \in FormsOf(slots[m])
  BY DEF Carried
<1>7. /\ {c.id} \cup (FormsOf(c) \ {c.id}) \subseteq Spellings(Range(slots'))
      /\ Spellings(Range(slots)) \subseteq Spellings(Range(slots'))
      /\ DOMAIN fresh = DOMAIN slots' /\ \A m \in DOMAIN slots' : fresh[m].id \in FormsOf(slots'[m])
  BY <1>1, <1>2, <1>3, <1>4, <1>5, <1>6, AbsorbForms
<1>8. extra' = extra /\ Steady
  BY <1>3 DEF Absorb
<1> QED BY <1>1, <1>7, <1>8, CarryForms DEF Held

\* A committed id that is not kept becomes an alias.
LEMMA CarryAbsorbedForms ==
  ASSUME JobInv, Carried, CarryAbsorbed
  PROVE  Carried'
<1> DEFINE c == Head(left)
           near == IF Respelled(c) # {} THEN Respelled(c) ELSE ByForm(c)
<1>1. slots \in Seq(Entries) /\ left \in Seq(Entries) /\ left # <<>> /\ Visit
  BY DEF JobInv, JobType, CarryAbsorbed, Visit
<1>2. c \in Entries /\ c.id \in Forms
  BY <1>1, TailFacts, FormsOfType
<1>3. PICK n \in near : Absorb(n, c, slots[n].id, {c.id})
  BY DEF CarryAbsorbed
<1>4. n \in DOMAIN slots
  BY <1>1, <1>3, PickDomain DEF ByForm
<1>5. slots[n] \in Entries /\ slots[n].id \in Forms
  BY <1>1, <1>4, ElementOfSeq, FormsOfType
<1>6. DOMAIN fresh = DOMAIN slots /\ \A m \in DOMAIN slots : fresh[m].id \in FormsOf(slots[m])
  BY DEF Carried
<1>7. /\ {c.id} \cup (FormsOf(c) \ {c.id}) \subseteq Spellings(Range(slots'))
      /\ Spellings(Range(slots)) \subseteq Spellings(Range(slots'))
      /\ DOMAIN fresh = DOMAIN slots' /\ \A m \in DOMAIN slots' : fresh[m].id \in FormsOf(slots'[m])
  BY <1>1, <1>2, <1>3, <1>4, <1>5, <1>6, AbsorbForms
<1>8. extra' = extra /\ Steady
  BY <1>3 DEF Absorb
<1> QED BY <1>1, <1>7, <1>8, CarryForms DEF Held

\* A record that upstream removed stays as it is.
LEMMA CarryGoneForms ==
  ASSUME JobInv, Carried, CarryGone
  PROVE  Carried'
<1> DEFINE c == Head(left)
           gone == [c EXCEPT !.removed = @ \/ c.full]
<1>1. /\ extra \in Seq(Entries) /\ left \in Seq(Entries) /\ left # <<>> /\ Visit /\ Steady
      /\ extra' = Append(extra, gone) /\ slots' = slots
  BY DEF JobInv, JobType, CarryGone, Visit
<1>2. c \in Entries
  BY <1>1, TailFacts
<1>3. gone \in Entries /\ FormsOf(gone) = FormsOf(c)
  BY <1>2 DEF Entries, FormsOf
<1> HIDE DEF gone
<1>4. Spellings(Range(extra)) \cup FormsOf(c) \subseteq Spellings(Range(extra'))
  BY <1>1, <1>3, AppendSpellings
<1>5. DOMAIN fresh = DOMAIN slots /\ \A m \in DOMAIN slots : fresh[m].id \in FormsOf(slots[m])
  BY DEF Carried
<1> QED BY <1>1, <1>4, <1>5, CarryForms DEF Held

\* The carry begins with every committed record to visit.
LEMMA StartCarryForms ==
  ASSUME JobInv, StartCarry
  PROVE  Carried'
<1>1. tree.full \subseteq Entries /\ OnePerId(tree.full) /\ fresh \in Seq(Entries)
  BY FileForm DEF JobInv, JobType
<1>2. Range(Listed(tree.full)) = tree.full
  BY <1>1, ListedFacts
<1>3. slots' = fresh /\ fresh' = fresh /\ left' = Listed(tree.full) /\ tree' = tree
  BY DEF StartCarry, files
<1>4. \A n \in DOMAIN fresh : fresh[n].id \in FormsOf(fresh[n])
  <2> TAKE n \in DOMAIN fresh
  <2>1. fresh[n] \in Entries
    BY <1>1, ElementOfSeq
  <2>2. fresh[n].id \in Forms
    BY <2>1, FormsOfType
  <2> QED BY <2>2, FormFacts DEF FormsOf
<1> QED BY <1>2, <1>3, <1>4 DEF Carried

\* Repointing edges changes no form.
LEMMA EndCarryForms ==
  ASSUME JobInv, Carried, EndCarry
  PROVE  FormsCarried'
<1> DEFINE to == Final(renamed)
           all == slots \o extra
<1>1. slots \in Seq(Entries) /\ extra \in Seq(Entries) /\ left = <<>> /\ tree' = tree /\ today' = today
  BY DEF JobInv, JobType, EndCarry, files
<1>2. all \in Seq(Entries) /\ Range(all) = Range(slots) \cup Range(extra)
  BY <1>1, RangeFacts
<1>3. fresh' = [n \in DOMAIN all |-> [all[n] EXCEPT !.parents = Redirected(@, to)]]
  BY DEF EndCarry
<1> HIDE DEF to, all
<1>4. \A n \in DOMAIN all : n \in DOMAIN fresh' /\ FormsOf(fresh'[n]) = FormsOf(all[n])
  <2> TAKE n \in DOMAIN all
  <2>1. all[n] \in Entries
    BY <1>2, ElementOfSeq
  <2>2. fresh'[n] = [all[n] EXCEPT !.parents = Redirected(@, to)] /\ n \in DOMAIN fresh'
    BY <1>3
  <2>3. fresh'[n].id = all[n].id /\ fresh'[n].name = all[n].name /\ fresh'[n].aliases = all[n].aliases
    BY <2>1, <2>2 DEF Entries
  <2> QED BY <2>2, <2>3 DEF FormsOf
<1>5. Held \subseteq Spellings(Range(fresh'))
  <2>1. Held = Spellings(Range(all))
    BY <1>2 DEF Held, Spellings
  <2>2. \A n \in DOMAIN all : FormsOf(all[n]) \subseteq Spellings(Range(fresh'))
    BY <1>4 DEF Spellings, Range
  <2> QED BY <2>1, <2>2 DEF Spellings, Range
<1>6. Range(left) = {}
  BY <1>1 DEF Range
<1>7. Skipped' = Skipped
  BY <1>1 DEF Skipped
<1> QED BY <1>1, <1>5, <1>6, <1>7 DEF Carried, FormsCarried

\* Carrying the committed file forward loses none of its spellings: whatever
\* upstream respelled, moved to the hub or removed, what the reconciliation
\* with the other sources starts from answers to every form that a committed
\* record answered to, unless core.yaml suppresses the record
\* (_carry_forward_committed).
THEOREM CarryLosesNothing == Spec => [](pc \in {"judge", "give", "keep"} => FormsCarried)
<1>1. Init => CarryKeeps
  BY DEF Init, CarryKeeps
<1>2. JobInv /\ CarryKeeps /\ [Next]_vars => CarryKeeps'
  <2> SUFFICES ASSUME JobInv, CarryKeeps, [Next]_vars
               PROVE  CarryKeeps'
    OBVIOUS
  <2>1. CASE StartCarry
    BY <2>1, StartCarryForms DEF StartCarry, CarryKeeps
  <2>2. CASE CarrySame \/ CarrySkipped \/ CarryRenamed \/ CarryAbsorbed \/ CarryGone
    <3>1. pc = "carry" /\ pc' = "carry"
      BY <2>2 DEF CarrySame, CarrySkipped, CarryRenamed, CarryAbsorbed, CarryGone, Absorb, Visit, Steady
    <3>2. Carried'
      BY <2>2, <3>1, CarrySameForms, CarrySkippedForms, CarryRenamedForms, CarryAbsorbedForms, CarryGoneForms
         DEF CarryKeeps
    <3> QED BY <3>1, <3>2 DEF CarryKeeps
  <2>3. CASE EndCarry
    <3>1. pc = "carry" /\ pc' = "judge"
      BY <2>3 DEF EndCarry
    <3> QED BY <2>3, <3>1, EndCarryForms DEF CarryKeeps
  <2>4. CASE NewDay \/ Produce \/ Refuse \/ WriteFull
    BY <2>4 DEF NewDay, Produce, Refuse, WriteFull, CarryKeeps
  <2>5. CASE Survive \/ Suppress \/ DropOrphan
    BY <2>5 DEF Survive, Suppress, DropOrphan, Judging, Judged, files, CarryKeeps, FormsCarried, Skipped
  <2>6. CASE EndJudge \/ EndGive
    BY <2>6 DEF EndJudge, EndGive, files, work, CarryKeeps, FormsCarried, Skipped
  <2>7. CASE Give
    BY <2>7 DEF Give, files, CarryKeeps, FormsCarried, Skipped
  <2>8. CASE Keep
    BY <2>8 DEF Keep, files, CarryKeeps, FormsCarried, Skipped
  <2>9. CASE StartSplit \/ SplitEnrich \/ SplitClaimed \/ SplitMint \/ StartUnion
    BY <2>9 DEF StartSplit, SplitEnrich, SplitClaimed, SplitMint, StartUnion, Next1, CarryKeeps
  <2>10. CASE UnionSkipped \/ UnionRenamed \/ UnionMerged
    <3>1. Visited
      BY <2>10 DEF UnionSkipped, UnionRenamed, UnionMerged
    <3> QED BY <3>1 DEF Visited, Next1, CarryKeeps
  <2>11. CASE UnionEnriching \/ UnionOwned \/ UnionRetained
    BY <2>11 DEF UnionEnriching, UnionOwned, UnionRetained, Unmatched, Visited, Next1, CarryKeeps
  <2>12. CASE WriteCatalog \/ ReconcileOrgs \/ Verify \/ Commit
    BY <2>12 DEF WriteCatalog, ReconcileOrgs, Verify, Commit, CarryKeeps
  <2>13. CASE UNCHANGED vars
    BY <2>13 DEF vars, files, work, CarryKeeps, Carried, FormsCarried, Held, Skipped
  <2> QED BY <2>1, <2>2, <2>3, <2>4, <2>5, <2>6, <2>7, <2>8, <2>9, <2>10, <2>11, <2>12, <2>13 DEF Next
<1>3. CarryKeeps => (pc \in {"judge", "give", "keep"} => FormsCarried)
  BY DEF CarryKeeps
<1> QED BY <1>1, <1>2, <1>3, JobInvariance, PTL DEF Spec
=============================================================================
