-------------------------- MODULE SeedMergeProofs --------------------------
(***************************************************************************)
(* The merge and fold of the models' files, whatever the files hold, the    *)
(* overrides say and the order in which losers are transferred: spellings   *)
(* and edges survive, and the values of the fields the fold backfills, and  *)
(* no two repositories become one.                                          *)
(***************************************************************************)
EXTENDS SeedMerge, FiniteSetTheorems, SequenceTheorems, NaturalsInduction,
        WellFoundedInduction, TLAPS

Stages == {"absorb", "promote", "fold", "transfer", "fill", "done", "KeyError"}

(* A map of entries by id.  What comes from HF has an org prefix.           *)
Store(m) ==
  /\ DOMAIN m \subseteq Forms /\ m \in [DOMAIN m -> Entries]
  /\ \A f \in DOMAIN m : m[f].id = f /\ (m[f].src = "hf" => f \in Slashed)

Typed ==
  /\ stage \in Stages /\ Store(byId) /\ Store(absorbed)
  /\ files \in Seq(SUBSET Records) /\ weak \in Seq(SUBSET Records)
  /\ remap \in [DOMAIN remap -> DOMAIN absorbed] /\ DOMAIN remap \subseteq DOMAIN absorbed
  /\ todo \subseteq DOMAIN remap

(* What the fold reads of an entry is what was absorbed.                    *)
Same(f) ==
  /\ byId[f].src = absorbed[f].src /\ byId[f].name = absorbed[f].name
  /\ byId[f].aliases = absorbed[f].aliases /\ byId[f].parents = absorbed[f].parents
  /\ byId[f].value = absorbed[f].value

(* Before the fold nothing is remapped, and nothing an HF repository's id   *)
(* could lose by: an attribution is of an id without a prefix, a promotion  *)
(* of an id that is not HF-true.                                            *)
BeforeFold ==
  /\ stage \in {"absorb", "promote", "fold"} => todo = {} /\ DOMAIN remap = {}
  /\ stage = "absorb" => DOMAIN force = {}
  /\ stage \in {"promote", "fold"} =>
       DOMAIN byId = DOMAIN absorbed /\ \A f \in DOMAIN absorbed : Same(f)
  /\ stage = "promote" => DOMAIN force \cap Slashed = {}
  /\ stage = "fold" => \A f \in DOMAIN force \cap DOMAIN absorbed :
                         absorbed[f].src = "hf" => f \in DOMAIN curation.merge

(* What the records merged into f so far say of x, the losers in D done.    *)
Strongs(f, x, D) ==
  {absorbed[g].value[x] :
     g \in {h \in DOMAIN absorbed : h = f \/ (h \in D /\ remap[h] = f)}} \ {None}
ValuedIn(f, x, D) ==
  /\ x \in Backfilled =>
       /\ byId[f].value[x] \in Strongs(f, x, D) \cup {None}
       /\ Strongs(f, x, D) # {} => byId[f].value[x] # None
  /\ absorbed[f].value[x] # None => byId[f].value[x] = absorbed[f].value[x]
Valued(f, D) == \A x \in Fields : ValuedIn(f, x, D)

(* The parents f came with, and those its losers in D may have brought.     *)
Lineage(f, D) ==
  DOMAIN absorbed[f].parents
    \cup UNION {DOMAIN absorbed[g].parents \ NonLineage : g \in {h \in D : remap[h] = f}}

(* A survivor has all it had, and what the losers done have brought it.     *)
Survivor(f) ==
  /\ byId[f].name = absorbed[f].name
  /\ absorbed[f].aliases \subseteq byId[f].aliases
  /\ f \in byId[f].aliases => f \in absorbed[f].aliases
  /\ DOMAIN absorbed[f].parents \subseteq DOMAIN byId[f].parents
  /\ DOMAIN byId[f].parents \subseteq Lineage(f, DOMAIN remap \ todo)
  /\ Valued(f, DOMAIN remap \ todo)

DuringFold ==
  stage \in {"transfer", "KeyError"} =>
    /\ DOMAIN byId = DOMAIN absorbed
    /\ \A l \in DOMAIN remap : Same(l)
    /\ \A l \in DOMAIN remap \ todo :
         remap[l] \notin DOMAIN remap /\ Surface(absorbed[l]) \subseteq Surface(byId[remap[l]])
    /\ \A f \in DOMAIN absorbed \ DOMAIN remap : Survivor(f)

(* An edge of f is of a record that became f; an umbrella, of f itself.     *)
Bequeathed(f, p) ==
  \E g \in DOMAIN absorbed : \E q \in DOMAIN absorbed[g].parents :
    Final(g) = f /\ Final(q) = p /\ (q \in NonLineage => g = f)

(* What is promised at the end holds from the repointing on.                *)
Folded ==
  /\ DOMAIN byId = DOMAIN absorbed \ DOMAIN remap /\ todo = {}
  /\ \A f \in DOMAIN absorbed :
       Final(f) \in DOMAIN byId /\ Surface(absorbed[f]) \subseteq Surface(byId[Final(f)])
  /\ \A f \in DOMAIN byId :
       /\ f \in byId[f].aliases => f \in absorbed[f].aliases
       /\ DOMAIN byId[f].parents \cap (DOMAIN remap \cup {f}) = {}
       /\ {Final(p) : p \in DOMAIN absorbed[f].parents \ NonLineage}
            \subseteq DOMAIN byId[f].parents \cup {f}
       /\ \A p \in DOMAIN byId[f].parents : Bequeathed(f, p)
AfterFold ==
  /\ stage \in {"fill", "done"} => Folded
  /\ stage = "fill" => \A f \in DOMAIN byId : Valued(f, DOMAIN remap)

(* Two repositories with one key are folded by a curated merge or not at    *)
(* all.                                                                     *)
Apart ==
  \A f, g \in DOMAIN absorbed :
    (absorbed[f].src = "hf" /\ absorbed[g].src = "hf" /\ Key[f] = Key[g] /\ f # g)
      => \/ {f, g} \cap DOMAIN curation.merge # {}
         \/ {f, g} \cap DOMAIN remap = {}
Distinct == stage \in {"transfer", "fill", "done"} => Apart

(* The inductive invariant.                                                 *)
IInv == Typed /\ BeforeFold /\ DuringFold /\ AfterFold /\ Distinct /\ StrongBeatsWeak
-----------------------------------------------------------------------------
(* Entries and their edges.                                                 *)

\* One map of edges over another has the edges of both.
LEMMA OverEdges ==
  ASSUME NEW e \in Edges, NEW g \in Edges
  PROVE  Over(e, g) \in Edges /\ DOMAIN Over(e, g) = DOMAIN e \cup DOMAIN g
<1>1. PICK S \in SUBSET Forms : e \in [S -> Relations]
  BY DEF Edges
<1>2. PICK T \in SUBSET Forms : g \in [T -> Relations]
  BY DEF Edges
<1>3. Over(e, g) \in [S \cup T -> Relations] /\ DOMAIN Over(e, g) = DOMAIN e \cup DOMAIN g
  BY <1>1, <1>2 DEF Over
<1>4. S \cup T \in SUBSET Forms
  OBVIOUS
<1> QED BY <1>3, <1>4 DEF Edges

\* Dropping edges leaves edges.
LEMMA RestrictEdges ==
  ASSUME NEW e \in Edges, NEW S
  PROVE  Restrict(e, DOMAIN e \ S) \in Edges
<1>1. PICK T \in SUBSET Forms : e \in [T -> Relations]
  BY DEF Edges
<1>2. Restrict(e, DOMAIN e \ S) \in [T \ S -> Relations]
  BY <1>1 DEF Restrict
<1>3. T \ S \in SUBSET Forms
  OBVIOUS
<1> QED BY <1>2, <1>3 DEF Edges

\* The types of an entry's fields.
LEMMA EntryFacts ==
  ASSUME NEW e \in Entries
  PROVE  /\ e.id \in Forms /\ e.src \in Origins /\ e.deferred \in BOOLEAN
         /\ e.org \in Range(Dev) \cup {None} /\ e.name \in Forms \cup {None}
         /\ e.aliases \subseteq Forms /\ e.parents \in Edges /\ DOMAIN e.parents \subseteq Forms
         /\ e.status \in {"reviewed", "draft", None} /\ e.value \in Scalars
<1>1. e.parents \in Edges
  BY DEF Entries
<1>2. DOMAIN e.parents \subseteq Forms
  BY <1>1 DEF Edges
<1> QED BY <1>1, <1>2 DEF Entries

-----------------------------------------------------------------------------
(* Absorbing the files.                                                     *)

\* A record without its weak value is an entry of its id and source.
LEMMA StrongFacts ==
  ASSUME NEW e \in Records
  PROVE  Strong(e) \in Entries /\ Strong(e).id = e.id /\ Strong(e).src = e.src
<1>1. e \in [id : Forms, src : Origins, deferred : BOOLEAN, org : Range(Dev) \cup {None},
             name : Forms \cup {None}, aliases : SUBSET Forms, parents : Edges,
             status : {"reviewed", "draft", None}, value : Scalars,
             file : 1 .. Sources + 2, weak : Scalars, explicit : SUBSET Fields]
  BY RecordsAssumption
<1> QED BY <1>1 DEF Strong, Entries

\* Merging keeps the id of the entry merged into, and the source of one of the two.
LEMMA MergeFacts ==
  ASSUME NEW e \in Entries, NEW g \in Entries
  PROVE  /\ MergeInto(e, g) \in Entries /\ MergeInto(e, g).id = e.id
         /\ MergeInto(e, g).src \in {e.src, g.src}
<1>1. Over(g.parents, e.parents) \in Edges
  BY OverEdges, EntryFacts
<1>2. PICK p \in Edges : p = Over(g.parents, e.parents)
  BY <1>1
<1>3. PICK al \in SUBSET Forms : al = e.aliases \cup g.aliases
  BY EntryFacts
<1>4. PICK d \in BOOLEAN : d = (e.deferred \/ g.deferred)
  OBVIOUS
<1>7. PICK v \in Scalars : v = Latest(e.value, g.value)
  BY EntryFacts DEF Latest, Later, Scalars
<1>5. MergeInto(e, g) =
        [e EXCEPT !.src = Later(@, g.src), !.org = Later(@, g.org), !.deferred = d,
           !.name = Later(@, g.name), !.status = Later(@, g.status),
           !.value = v, !.aliases = al, !.parents = p]
  BY <1>2, <1>3, <1>4, <1>7 DEF MergeInto
<1>6. /\ Later(e.src, g.src) \in Origins /\ Later(e.src, g.src) \in {e.src, g.src}
      /\ Later(e.org, g.org) \in Range(Dev) \cup {None}
      /\ Later(e.name, g.name) \in Forms \cup {None}
      /\ Later(e.status, g.status) \in {"reviewed", "draft", None}
  BY EntryFacts DEF Later
<1> HIDE DEF Later
<1> QED BY <1>5, <1>6 DEF Entries

\* A file is absorbed: entries stay keyed by their ids.
LEMMA AbsorbKeeps ==
  ASSUME IInv, AbsorbFile
  PROVE  IInv'
<1> DEFINE i == Sources + 3 - Len(files)
           kept == {e \in Head(files) : e.id \notin Dropped(i)}
           ids == {e.id : e \in kept}
           Absorbed(e) == IF e.id \in DOMAIN byId THEN MergeInto(byId[e.id], Strong(e)) ELSE Strong(e)
           new == [id \in ids |-> Absorbed(CHOOSE e \in kept : e.id = id)]
<1>1. stage = "absorb" /\ files # <<>> /\ files \in Seq(SUBSET Records) /\ Store(byId)
  BY DEF AbsorbFile, IInv, Typed
<1>2. Head(files) \subseteq Records /\ files' \in Seq(SUBSET Records)
  BY <1>1, HeadTailProperties DEF AbsorbFile
<1>3. weak' \in Seq(SUBSET Records)
  <2>1. {e \in Head(files) : \E x \in Fields : e.weak[x] # None} \in SUBSET Records
    BY <1>2
  <2> QED BY <2>1, AppendProperties DEF AbsorbFile, IInv, Typed
<1>4. ASSUME NEW e \in Records
      PROVE  /\ Absorbed(e) \in Entries /\ Absorbed(e).id = e.id
             /\ Absorbed(e).src = "hf" => e.id \in Slashed
  <2>1. Strong(e) \in Entries /\ Strong(e).id = e.id /\ (Strong(e).src = "hf" => e.id \in Slashed)
    BY StrongFacts, RecordsAssumption
  <2>2. CASE e.id \in DOMAIN byId
    <3>1. /\ byId[e.id] \in Entries /\ byId[e.id].id = e.id
          /\ byId[e.id].src = "hf" => e.id \in Slashed
      BY <1>1, <2>2 DEF Store
    <3> QED BY <2>1, <2>2, <3>1, MergeFacts
  <2>3. CASE e.id \notin DOMAIN byId
    BY <2>1, <2>3
  <2> QED BY <2>2, <2>3
<1>5. ASSUME NEW id \in ids
      PROVE  /\ new[id] \in Entries /\ new[id].id = id /\ (new[id].src = "hf" => id \in Slashed)
             /\ id \in Forms
  <2>1. PICK e \in kept : e = (CHOOSE x \in kept : x.id = id)
    OBVIOUS
  <2>2. e.id = id /\ e \in Records /\ new[id] = Absorbed(e)
    BY <1>2, <2>1
  <2>3. Absorbed(e) \in Entries /\ Absorbed(e).id = e.id /\ (Absorbed(e).src = "hf" => e.id \in Slashed)
    BY <1>4, <2>2
  <2> HIDE DEF Absorbed, new
  <2> QED BY <2>2, <2>3, EntryFacts
<1>6. byId' = Over(new, byId) /\ DOMAIN new = ids
  BY DEF AbsorbFile
<1> HIDE DEF ids, new
<1>7. Store(byId')
  BY <1>1, <1>5, <1>6 DEF Store, Over
<1>8. UNCHANGED <<core, curation, stage, absorbed, force, remap, todo>>
  BY DEF AbsorbFile
<1>9. Typed'
  BY <1>2, <1>3, <1>7, <1>8 DEF IInv, Typed, Store
<1> QED BY <1>1, <1>8, <1>9
        DEF IInv, BeforeFold, DuringFold, AfterFold, Distinct, StrongBeatsWeak
-----------------------------------------------------------------------------
(* The merges decided before the fold.                                      *)

\* attribute_orgs names the malformed ids to be merged; none of them is a
\* repository.
LEMMA AttributeKeeps ==
  ASSUME IInv, AttributeOrgs
  PROVE  IInv'
<1>1. stage = "absorb" /\ stage' = "promote" /\ absorbed' = byId /\ Store(byId)
  BY DEF AttributeOrgs, IInv, Typed
<1>2. UNCHANGED <<files, core, curation, weak, remap, todo>>
  BY DEF AttributeOrgs
<1>3. DOMAIN byId' = DOMAIN byId
  BY DEF AttributeOrgs
<1>4. ASSUME NEW f \in DOMAIN byId
      PROVE  /\ byId'[f] \in Entries /\ byId'[f].id = byId[f].id /\ byId'[f].src = byId[f].src
             /\ byId'[f].name = byId[f].name /\ byId'[f].aliases = byId[f].aliases
             /\ byId'[f].parents = byId[f].parents /\ byId'[f].value = byId[f].value
  <2>1. byId[f] \in Entries /\ f \in Forms
    BY <1>1 DEF Store
  <2>2. Dev[f] \in Range(Dev)
    BY <2>1, SeedMergeAssumption
  <2>3. byId'[f] = [byId[f] EXCEPT !.org = Dev[f]] \/ byId'[f] = byId[f]
    BY DEF AttributeOrgs
  <2> QED BY <2>1, <2>2, <2>3 DEF Entries
<1>5. Store(byId') /\ Store(absorbed')
  <2>1. byId' \in [DOMAIN byId' -> Entries]
    BY <1>3, <1>4 DEF AttributeOrgs
  <2> QED BY <1>1, <1>3, <1>4, <2>1 DEF Store
<1>6. DOMAIN force' \cap Slashed = {}
  BY DEF AttributeOrgs, Malformed
<1>7. todo' = {} /\ DOMAIN remap' = {}
  BY <1>1, <1>2 DEF IInv, BeforeFold
<1>8. Typed'
  <2>1. remap' \in [DOMAIN remap' -> DOMAIN absorbed']
    BY <1>2, <1>7 DEF IInv, Typed
  <2> QED BY <1>1, <1>2, <1>5, <1>7, <2>1 DEF IInv, Typed, Stages
<1>9. BeforeFold'
  BY <1>1, <1>3, <1>4, <1>6, <1>7 DEF BeforeFold, Same
<1> QED BY <1>1, <1>8, <1>9 DEF IInv, DuringFold, AfterFold, Distinct, StrongBeatsWeak

\* HF promotion names the ids repositories take over; an HF entry is only folded
\* on by curation.
LEMMA PromoteKeeps ==
  ASSUME IInv, PromoteHf
  PROVE  IInv'
<1>1. stage = "promote" /\ stage' = "fold"
  BY DEF PromoteHf
<1>2. UNCHANGED <<files, core, byId, absorbed, weak, remap, todo>>
  BY DEF PromoteHf
<1>3. PICK first \in [Replaced -> DOMAIN byId] :
        LET chosen == Restrict(first, {f \in Replaced : first[f] \notin Replaced})
        IN force' = Over(curation.merge, Over(chosen, force))
  BY DEF PromoteHf
<1>4. curation'.merge = curation.merge
  <2>1. \E p : curation' = [curation EXCEPT !.prefer = p]
    BY DEF PromoteHf
  <2> QED BY <2>1
<1>5. DOMAIN force' \subseteq DOMAIN curation.merge \cup Replaced \cup DOMAIN force
  BY <1>3 DEF Over, Restrict
<1>6. ASSUME NEW f \in DOMAIN force', f \in DOMAIN absorbed, absorbed[f].src = "hf"
      PROVE  f \in DOMAIN curation.merge
  <2>1. DOMAIN byId = DOMAIN absorbed /\ byId[f].src = "hf"
    BY <1>1, <1>6 DEF IInv, BeforeFold, Same
  <2>2. f \notin Replaced
    BY <1>6, <2>1 DEF Replaced, Replaces, HfTrue
  <2>3. f \notin DOMAIN force
    BY <1>1, <1>6 DEF IInv, BeforeFold, Typed, Store
  <2> QED BY <1>5, <1>6, <2>2, <2>3
<1>7. BeforeFold'
  BY <1>1, <1>2, <1>4, <1>6 DEF IInv, BeforeFold, Same
<1>8. Typed'
  BY <1>1, <1>2 DEF IInv, Typed, Store, Stages
<1> QED BY <1>1, <1>7, <1>8 DEF IInv, DuringFold, AfterFold, Distinct, StrongBeatsWeak

-----------------------------------------------------------------------------
(* Winners and chains.                                                      *)

(* Every group has a winner: of its entries, one that the fewest others     *)
(* beat outright, which is none.                                            *)
LEMMA GroupHasWinner ==
  ASSUME Typed, NEW k, NEW m \in Group(k)
  PROVE  \E f \in Group(k) : \A g \in Group(k) : Beats(f, g)
<1> DEFINE G == Group(k)
           Above(f) == {g \in G : ~Beats(f, g)}
           n(f) == Cardinality(Above(f))
<1>1. G \subseteq Forms /\ G \subseteq DOMAIN byId
  BY DEF Typed, Store, Group
<1>2. IsFiniteSet(G)
  BY <1>1, SeedMergeAssumption, FS_Subset
<1>3. \A f \in G : IsFiniteSet(Above(f)) /\ n(f) \in Nat
  BY <1>2, FS_Subset, FS_CardinalityType
<1>4. \A f \in G : Spelling[f] \in Nat /\ SourceRank(byId[f].src) \in Nat
  BY <1>1, SeedMergeAssumption DEF SourceRank
<1>5. \A f, g \in G : Beats(f, g) \/ Beats(g, f)
  BY <1>4 DEF Beats
<1>6. \A f, g, h \in G : Beats(f, g) /\ Beats(g, h) => Beats(f, h)
  <2> TAKE f, g, h \in G
  <2> HAVE Beats(f, g) /\ Beats(g, h)
  <2>1. PICK a, b, c : /\ a = SourceRank(byId[f].src) /\ b = SourceRank(byId[g].src)
                       /\ c = SourceRank(byId[h].src)
    OBVIOUS
  <2>2. a \in Nat /\ b \in Nat /\ c \in Nat
    BY <1>4, <2>1
  <2> QED BY <1>4, <2>1, <2>2 DEF Beats
<1>7. PICK c \in {n(f) : f \in G} : \A d \in {n(f) : f \in G} : c <= d
  <2>1. {n(f) : f \in G} \subseteq Nat /\ {n(f) : f \in G} # {}
    BY <1>3
  <2> HIDE DEF n
  <2>2. PICK c \in {n(f) : f \in G} : \A d \in {n(f) : f \in G} : <<d, c>> \notin OpToRel(<, Nat)
    BY <2>1, NatLessThanWellFounded, WFMin
  <2>3. \A d \in {n(f) : f \in G} : ~(d < c)
    BY <2>1, <2>2 DEF OpToRel
  <2> QED BY <2>1, <2>3
<1>8. PICK f \in G : c = n(f)
  OBVIOUS
<1>9. ASSUME NEW g \in G, ~Beats(f, g)
      PROVE  FALSE
  <2>1. Above(g) \subseteq Above(f) /\ g \in Above(f) /\ g \notin Above(g)
    BY <1>5, <1>6, <1>9
  <2>2. n(g) < n(f)
    BY <1>3, <2>1, FS_Subset
  <2>3. n(f) <= n(g) /\ n(f) \in Nat /\ n(g) \in Nat
    BY <1>3, <1>7, <1>8
  <2> HIDE DEF n
  <2> QED BY <2>2, <2>3
<1> QED BY <1>9
\* A set with two elements has cardinality two at least.
LEMMA TwoElements ==
  ASSUME NEW S, IsFiniteSet(S), NEW a \in S, NEW b \in S, a # b
  PROVE  ~(Cardinality(S) < 2)
<1>1. Cardinality({a}) = 1 /\ IsFiniteSet({a})
  BY FS_Singleton
<1>2. Cardinality({a} \cup {b}) = 2 /\ IsFiniteSet({a} \cup {b})
  BY <1>1, FS_AddElement
<1>3. Cardinality({a} \cup {b}) <= Cardinality(S) /\ Cardinality(S) \in Nat
  BY FS_Subset, FS_CardinalityType
<1> QED BY <1>2, <1>3

(* Winners are entries of the merge.                                        *)
LEMMA OneFoldFacts ==
  ASSUME Typed
  PROVE  /\ OneFold \in [DOMAIN OneFold -> DOMAIN byId]
         /\ DOMAIN OneFold = Forced \cup Grouped /\ DOMAIN OneFold \subseteq DOMAIN byId
<1>1. ASSUME NEW f \in Grouped PROVE WinnerOf(Key[f]) \in DOMAIN byId
  <2>1. f \in Group(Key[f])
    BY DEF Grouped, Group
  <2>2. \E w \in Group(Key[f]) : \A g \in Group(Key[f]) : Beats(w, g)
    BY <2>1, GroupHasWinner
  <2>3. WinnerOf(Key[f]) \in Group(Key[f])
    BY <2>2 DEF WinnerOf
  <2> QED BY <2>3 DEF Group
<1>2. \A f \in Forced : force[f] \in DOMAIN byId
  BY DEF Forced
<1>3. Forced \subseteq DOMAIN byId /\ Grouped \subseteq DOMAIN byId
  BY DEF Forced, Grouped
<1>4. \A f \in Forced \cup Grouped :
        (IF f \in Forced THEN force[f] ELSE WinnerOf(Key[f])) \in DOMAIN byId
  BY <1>1, <1>2
<1> QED BY <1>3, <1>4 DEF OneFold

(* A chain of folds leads to a winner of one of them.                       *)
LEMMA ChasedFacts ==
  ASSUME NEW fold, NEW S, fold \in [DOMAIN fold -> S]
  PROVE  Chased(fold) \in [DOMAIN fold -> S] /\ DOMAIN Chased(fold) = DOMAIN fold
<1>1. ASSUME NEW f \in DOMAIN fold PROVE Chased(fold)[f] \in S
  <2> DEFINE last == Through(fold, f) \ DOMAIN fold
  <2>1. Chased(fold)[f] = IF last = {} THEN fold[f] ELSE CHOOSE w \in last : TRUE
    BY DEF Chased
  <2>2. last \subseteq S
    BY DEF Through, Range
  <2> HIDE DEF last
  <2>3. CASE last = {}
    BY <2>1, <2>3
  <2>4. CASE last # {}
    <3>1. (CHOOSE w \in last : TRUE) \in last
      BY <2>4
    <3> QED BY <2>1, <2>2, <2>4, <3>1
  <2> QED BY <2>3, <2>4
<1>2. DOMAIN Chased(fold) = DOMAIN fold /\ Chased(fold) = [f \in DOMAIN fold |-> Chased(fold)[f]]
  BY DEF Chased
<1> QED BY <1>1, <1>2

(* The fold leaves alone whatever two repositories share a key, unless a    *)
(* merge decided before it names one of them.                               *)
LEMMA ReposUnfolded ==
  ASSUME IInv, stage = "fold", NEW f \in DOMAIN absorbed, NEW g \in DOMAIN absorbed,
         absorbed[f].src = "hf", absorbed[g].src = "hf", Key[f] = Key[g], f # g,
         f \notin DOMAIN curation.merge
  PROVE  f \notin DOMAIN OneFold
<1>1. DOMAIN byId = DOMAIN absorbed /\ byId[f].src = "hf" /\ byId[g].src = "hf"
  BY DEF IInv, BeforeFold, Same
<1>2. f \notin Forced
  BY DEF Forced, IInv, BeforeFold
<1>3. f \notin Grouped
  <2> DEFINE repos == {x \in Group(Key[f]) : byId[x].src = "hf"}
  <2>1. f \in repos /\ g \in repos
    BY <1>1 DEF Group
  <2>2. IsFiniteSet(repos)
    BY SeedMergeAssumption, FS_Subset DEF Group, IInv, Typed, Store
  <2>3. ~(Cardinality(repos) < 2)
    BY <2>1, <2>2, TwoElements
  <2> QED BY <2>3 DEF Grouped, Folds
<1> QED BY <1>2, <1>3, OneFoldFacts DEF IInv

\* The groups are folded: every chain ends at an entry that is not folded itself,
\* or the end of a forced cycle.
LEMMA FoldKeeps ==
  ASSUME IInv, FoldGroups
  PROVE  IInv'
<1>1. stage = "fold" /\ stage' = "transfer" /\ remap' = Chased(OneFold) /\ todo' = DOMAIN remap'
  BY DEF FoldGroups
<1>2. UNCHANGED <<files, core, curation, byId, absorbed, weak, force>>
  BY DEF FoldGroups
<1>3. DOMAIN byId = DOMAIN absorbed /\ \A f \in DOMAIN absorbed : Same(f)
  BY <1>1 DEF IInv, BeforeFold
<1>4. remap' \in [DOMAIN OneFold -> DOMAIN absorbed] /\ DOMAIN remap' = DOMAIN OneFold
      /\ DOMAIN OneFold \subseteq DOMAIN absorbed
  BY <1>1, <1>3, OneFoldFacts, ChasedFacts DEF IInv
<1>5. Typed'
  BY <1>1, <1>2, <1>4 DEF IInv, Typed, Store, Stages
<1>6. \A f \in DOMAIN absorbed : Same(f)'
  BY <1>2, <1>3 DEF Same
<1>7. ASSUME NEW f \in DOMAIN absorbed PROVE Survivor(f)'
  <2>1. ASSUME NEW x \in Fields PROVE ValuedIn(f, x, {})'
    <3>1. Strongs(f, x, {})' = {absorbed[f].value[x]} \ {None}
      BY <1>2 DEF Strongs
    <3>2. byId'[f].value = absorbed'[f].value /\ absorbed'[f].value = absorbed[f].value
      BY <1>2, <1>6 DEF Same
    <3>3. PICK v : v = absorbed[f].value[x]
      OBVIOUS
    <3> QED BY <3>1, <3>2, <3>3 DEF ValuedIn
  <2>2. Valued(f, {})'
    BY <2>1 DEF Valued
  <2>3. (DOMAIN remap \ todo)' = {}
    BY <1>1
  <2>4. (DOMAIN byId[f].parents \subseteq Lineage(f, {}))'
    BY <1>6 DEF Same, Lineage
  <2> QED BY <1>2, <1>6, <2>2, <2>3, <2>4 DEF Survivor, Same
<1>8. DuringFold'
  BY <1>1, <1>2, <1>3, <1>4, <1>6, <1>7 DEF DuringFold
<1>9. Apart'
  <2> SUFFICES ASSUME NEW f \in DOMAIN absorbed, NEW g \in DOMAIN absorbed,
                      absorbed[f].src = "hf", absorbed[g].src = "hf", Key[f] = Key[g], f # g,
                      {f, g} \cap DOMAIN curation.merge = {}
               PROVE  {f, g} \cap DOMAIN remap' = {}
    BY <1>2 DEF Apart
  <2>1. f \notin DOMAIN OneFold /\ g \notin DOMAIN OneFold
    BY <1>1, ReposUnfolded
  <2> QED BY <1>4, <2>1
<1> QED BY <1>1, <1>5, <1>8, <1>9 DEF IInv, BeforeFold, AfterFold, Distinct, StrongBeatsWeak
-----------------------------------------------------------------------------
(* The transfer of the losers.                                              *)

(* What a transfer makes of the winner: it keeps its edges and gains the    *)
(* loser's surface; its own value, when it has one, stays.                  *)
LEMMA Transferred ==
  ASSUME Typed, NEW l \in DOMAIN byId, NEW w \in DOMAIN byId, w # l, remap[l] = w, Transfer(l)
  PROVE  /\ DOMAIN byId' = DOMAIN byId /\ \A f \in DOMAIN byId \ {w} : byId'[f] = byId[f]
         /\ byId'[w] \in Entries /\ byId'[w].id = w
         /\ byId'[w].src = byId[w].src /\ byId'[w].name = byId[w].name
         /\ byId'[w].aliases =
              byId[w].aliases \cup
                (({l} \cup byId[l].aliases
                   \cup IF byId[l].name = byId[w].name THEN {} ELSE {byId[l].name} \ {None}) \ {w})
         /\ DOMAIN byId[w].parents \subseteq DOMAIN byId'[w].parents
         /\ DOMAIN byId'[w].parents
              \subseteq DOMAIN byId[w].parents \cup (DOMAIN byId[l].parents \ NonLineage)
         /\ byId'[w].value = Backfill(byId[w].value, byId[l].value)
<1>1. /\ byId[l] \in Entries /\ byId[w] \in Entries /\ byId[w].id = w /\ l \in Forms
      /\ byId \in [DOMAIN byId -> Entries]
  BY DEF Typed, Store
<1> DEFINE loser == byId[l]
           names == IF loser.name = byId[w].name THEN {} ELSE {loser.name} \ {None}
           new == byId[w].aliases \cup (({l} \cup loser.aliases \cup names) \ {w})
           edges == Restrict(loser.parents, DOMAIN loser.parents \ NonLineage)
           curated == byId[w].status = "reviewed" /\ byId[w].parents # NoMap
           inferred == loser.status = "draft" \/ loser.src = "inferred"
           kept == IF curated /\ inferred THEN byId[w].parents ELSE Over(byId[w].parents, edges)
<1>2. new \in SUBSET Forms
  <2>1. names \subseteq Forms
    BY <1>1, EntryFacts
  <2> QED BY <1>1, <2>1, EntryFacts
<1>3. /\ kept \in Edges /\ DOMAIN byId[w].parents \subseteq DOMAIN kept
      /\ DOMAIN kept \subseteq DOMAIN byId[w].parents \cup (DOMAIN loser.parents \ NonLineage)
  <2>1. edges \in Edges /\ byId[w].parents \in Edges
    BY <1>1, RestrictEdges, EntryFacts
  <2>5. DOMAIN edges = DOMAIN loser.parents \ NonLineage
    BY DEF Restrict
  <2> HIDE DEF edges, curated, inferred
  <2>2. /\ Over(byId[w].parents, edges) \in Edges
        /\ DOMAIN Over(byId[w].parents, edges) = DOMAIN byId[w].parents \cup DOMAIN edges
    BY <2>1, OverEdges
  <2>3. CASE (curated /\ inferred) = TRUE
    BY <2>1, <2>3
  <2>4. CASE (curated /\ inferred) = FALSE
    BY <2>2, <2>4, <2>5
  <2> QED BY <2>3, <2>4
<1>4. Backfill(byId[w].value, loser.value) \in Scalars
  BY <1>1, EntryFacts DEF Backfill, Later, Scalars
<1>5. byId' = [byId EXCEPT ![w] = [byId[w] EXCEPT !.aliases = new, !.parents = kept,
                                      !.value = Backfill(byId[w].value, loser.value)]]
  BY DEF Transfer
<1>6. PICK al \in SUBSET Forms : al = new
  BY <1>2
<1>7. PICK p \in Edges : p = kept
  BY <1>3
<1>8. PICK v \in Scalars : v = Backfill(byId[w].value, loser.value)
  BY <1>4
<1>9. PICK g : g = [byId[w] EXCEPT !.aliases = al, !.parents = p, !.value = v]
  OBVIOUS
<1>10. byId' = [byId EXCEPT ![w] = g]
  <2> HIDE DEF new, kept, loser
  <2> QED BY <1>5, <1>6, <1>7, <1>8, <1>9
<1>11. /\ g \in Entries /\ g.id = w /\ g.src = byId[w].src /\ g.name = byId[w].name
       /\ g.aliases = new /\ g.parents = kept /\ g.value = Backfill(byId[w].value, loser.value)
  <2>1. PICK e \in Entries : e = byId[w]
    BY <1>1
  <2>2. g = [e EXCEPT !.aliases = al, !.parents = p, !.value = v]
    BY <1>9, <2>1
  <2>3. /\ g \in Entries /\ g.id = e.id /\ g.src = e.src /\ g.name = e.name
        /\ g.aliases = al /\ g.parents = p /\ g.value = v
    BY <2>2 DEF Entries
  <2> HIDE DEF new, kept, loser
  <2> QED BY <1>1, <1>6, <1>7, <1>8, <2>1, <2>3
<1>12. DOMAIN byId' = DOMAIN byId /\ byId'[w] = g /\ \A f \in DOMAIN byId \ {w} : byId'[f] = byId[f]
  BY <1>1, <1>10
<1> HIDE DEF kept
<1> QED BY <1>3, <1>11, <1>12

\* One loser is transferred: its winner gains its surface, edges and value.
LEMMA TransferKeeps ==
  ASSUME IInv, NEW l \in todo, Transfer(l)
  PROVE  IInv'
<1>1. stage = "transfer" /\ remap[l] \notin DOMAIN remap /\ todo' = todo \ {l}
  BY DEF Transfer
<1>2. UNCHANGED <<files, core, curation, stage, absorbed, weak, force, remap>>
  BY DEF Transfer
<1>3. PICK w : w = remap[l]
  OBVIOUS
<1>4. /\ DOMAIN byId = DOMAIN absorbed /\ l \in DOMAIN remap /\ DOMAIN remap \subseteq DOMAIN absorbed
      /\ w \in DOMAIN absorbed /\ w \notin DOMAIN remap /\ w # l /\ todo \subseteq DOMAIN remap
      /\ Store(byId)
  BY <1>1, <1>3 DEF IInv, Typed, DuringFold
<1>5. /\ Same(l)
      /\ \A m \in DOMAIN remap : Same(m)
      /\ \A m \in DOMAIN remap \ todo :
           remap[m] \notin DOMAIN remap /\ Surface(absorbed[m]) \subseteq Surface(byId[remap[m]])
      /\ \A f \in DOMAIN absorbed \ DOMAIN remap : Survivor(f)
  BY <1>1, <1>4 DEF IInv, DuringFold
<1>6. /\ DOMAIN byId' = DOMAIN byId /\ \A f \in DOMAIN byId \ {w} : byId'[f] = byId[f]
      /\ byId'[w] \in Entries /\ byId'[w].id = w
      /\ byId'[w].src = byId[w].src /\ byId'[w].name = byId[w].name
      /\ byId'[w].aliases =
           byId[w].aliases \cup
             (({l} \cup byId[l].aliases
                \cup IF byId[l].name = byId[w].name THEN {} ELSE {byId[l].name} \ {None}) \ {w})
      /\ DOMAIN byId[w].parents \subseteq DOMAIN byId'[w].parents
      /\ DOMAIN byId'[w].parents
           \subseteq DOMAIN byId[w].parents \cup (DOMAIN byId[l].parents \ NonLineage)
      /\ byId'[w].value = Backfill(byId[w].value, byId[l].value)
  BY <1>3, <1>4, Transferred DEF IInv
<1>7. Store(byId')
  <2>1. \A f \in DOMAIN byId : byId'[f] \in Entries /\ byId'[f].id = f /\ byId'[f].src = byId[f].src
    BY <1>4, <1>6 DEF Store
  <2>2. byId' \in [DOMAIN byId' -> Entries]
    <3>1. byId' = [f \in DOMAIN byId' |-> byId'[f]]
      BY <1>4 DEF Transfer, Store
    <3> QED BY <1>6, <2>1, <3>1
  <2> QED BY <1>4, <1>6, <2>1, <2>2 DEF Store
<1>8. Typed'
  BY <1>1, <1>2, <1>4, <1>7 DEF IInv, Typed, Store
<1>9. \A m \in DOMAIN remap : Same(m)'
  <2> TAKE m \in DOMAIN remap
  <2>1. byId'[m] = byId[m]
    BY <1>4, <1>6
  <2> QED BY <1>2, <1>5, <2>1 DEF Same
<1>10. Surface(byId[w]) \subseteq Surface(byId'[w]) /\ Surface(absorbed[l]) \subseteq Surface(byId'[w])
  <2>1. Surface(byId[l]) = Surface(absorbed[l])
    BY <1>4, <1>5 DEF Same, Surface, Store, IInv, Typed
  <2>2. byId[w].id = w /\ byId[l].id = l
    BY <1>4 DEF Store
  <2>3. Surface(byId[w]) \subseteq Surface(byId'[w])
    BY <1>6, <2>2 DEF Surface
  <2>4. Surface(byId[l]) \subseteq Surface(byId'[w])
    BY <1>4, <1>6, <2>2 DEF Surface
  <2> QED BY <2>1, <2>3, <2>4
<1>11. ASSUME NEW m \in DOMAIN remap \ todo'
       PROVE  remap[m] \notin DOMAIN remap /\ Surface(absorbed[m]) \subseteq Surface(byId'[remap[m]])
  <2>1. CASE m = l
    BY <1>1, <1>3, <1>10, <2>1
  <2>2. CASE m # l
    <3>1. /\ remap[m] \notin DOMAIN remap /\ remap[m] \in DOMAIN absorbed
          /\ Surface(absorbed[m]) \subseteq Surface(byId[remap[m]])
      BY <1>1, <1>5, <2>2 DEF IInv, Typed
    <3>2. CASE remap[m] = w
      BY <1>10, <3>1, <3>2
    <3>3. CASE remap[m] # w
      <4>1. byId'[remap[m]] = byId[remap[m]]
        BY <1>4, <1>6, <3>1, <3>3
      <4> QED BY <3>1, <4>1
    <3> QED BY <3>2, <3>3
  <2> QED BY <2>1, <2>2
<1>12. PICK D : D = DOMAIN remap \ todo
  OBVIOUS
<1>13. (DOMAIN remap \ todo)' = D \cup {l}
  BY <1>1, <1>2, <1>4, <1>12
<1>14. ASSUME NEW f \in DOMAIN absorbed \ DOMAIN remap, f # w
       PROVE  Survivor(f)'
  <2>1. byId'[f] = byId[f] /\ Survivor(f)
    BY <1>4, <1>5, <1>6, <1>14
  <2>2. ASSUME NEW x \in Fields PROVE ValuedIn(f, x, D \cup {l})'
    <3>1. {h \in DOMAIN absorbed : h = f \/ (h \in D \cup {l} /\ remap[h] = f)}
            = {h \in DOMAIN absorbed : h = f \/ (h \in D /\ remap[h] = f)}
      BY <1>3, <1>14
    <3>2. Strongs(f, x, D \cup {l})' = Strongs(f, x, D)
      BY <1>2, <3>1 DEF Strongs
    <3>3. ValuedIn(f, x, D)
      BY <1>12, <2>1 DEF Survivor, Valued
    <3> QED BY <1>2, <2>1, <3>2, <3>3 DEF ValuedIn
  <2>3. Valued(f, D \cup {l})'
    BY <2>2 DEF Valued
  <2>4. Lineage(f, D \cup {l})' = Lineage(f, D)
    <3>1. {h \in D \cup {l} : remap[h] = f} = {h \in D : remap[h] = f}
      BY <1>3, <1>14
    <3> QED BY <1>2, <3>1 DEF Lineage
  <2> QED BY <1>2, <1>12, <1>13, <2>1, <2>3, <2>4 DEF Survivor
<1>15. Survivor(w)'
  <2>1. Survivor(w)
    BY <1>4, <1>5
  <2>2. ASSUME NEW x \in Fields PROVE ValuedIn(w, x, D \cup {l})'
    <3>1. {h \in DOMAIN absorbed : h = w \/ (h \in D \cup {l} /\ remap[h] = w)}
            = {h \in DOMAIN absorbed : h = w \/ (h \in D /\ remap[h] = w)} \cup {l}
      BY <1>3, <1>4
    <3>2. Strongs(w, x, D \cup {l})' = Strongs(w, x, D) \cup ({absorbed[l].value[x]} \ {None})
      BY <1>2, <3>1 DEF Strongs
    <3>3. PICK a, b, c, s : /\ a = absorbed[w].value[x] /\ b = byId[w].value[x]
                            /\ c = absorbed[l].value[x] /\ s = Strongs(w, x, D)
      OBVIOUS
    <3>4. /\ x \in Backfilled => (b \in s \cup {None}) /\ (s # {} => b # None)
          /\ a # None => b = a
      BY <1>12, <2>1, <3>3 DEF Survivor, Valued, ValuedIn
    <3>5. byId'[w].value[x] = IF x \in Backfilled /\ b = None THEN c ELSE b
      BY <1>5, <1>6, <3>3 DEF Backfill, Later, Same
    <3>6. absorbed'[w].value[x] = a /\ Strongs(w, x, D \cup {l})' = s \cup ({c} \ {None})
      BY <1>2, <3>2, <3>3
    <3> QED BY <3>4, <3>5, <3>6 DEF ValuedIn
  <2>3. Valued(w, D \cup {l})'
    BY <2>2 DEF Valued
  <2>4. w \in byId'[w].aliases => w \in absorbed[w].aliases
    BY <1>6, <2>1 DEF Survivor
  <2>5. /\ byId'[w].name = absorbed[w].name /\ absorbed[w].aliases \subseteq byId'[w].aliases
        /\ DOMAIN absorbed[w].parents \subseteq DOMAIN byId'[w].parents
    BY <1>6, <2>1 DEF Survivor
  <2>6. DOMAIN byId'[w].parents \subseteq Lineage(w, D \cup {l})'
    <3>1. Lineage(w, D \cup {l})' = Lineage(w, D) \cup (DOMAIN absorbed[l].parents \ NonLineage)
      <4>1. {h \in D \cup {l} : remap[h] = w} = {h \in D : remap[h] = w} \cup {l}
        BY <1>3
      <4> QED BY <1>2, <4>1 DEF Lineage
    <3>2. DOMAIN byId[w].parents \subseteq Lineage(w, D)
      BY <1>12, <2>1 DEF Survivor
    <3> QED BY <1>5, <1>6, <3>1, <3>2 DEF Same
  <2> QED BY <1>2, <1>13, <2>3, <2>4, <2>5, <2>6 DEF Survivor
<1>16. DuringFold'
  <2>1. \A f \in DOMAIN absorbed \ DOMAIN remap : Survivor(f)'
    BY <1>14, <1>15
  <2> QED BY <1>2, <1>4, <1>6, <1>9, <1>11, <2>1 DEF DuringFold
<1>17. Apart'
  BY <1>1, <1>2 DEF IInv, Distinct, Apart
<1> QED BY <1>1, <1>2, <1>8, <1>16, <1>17
        DEF IInv, BeforeFold, AfterFold, Distinct, StrongBeatsWeak

(* A failed look-up changes nothing but the stage.                          *)
LEMMA LoseWinnerKeeps ==
  ASSUME IInv, NEW l \in todo, LoseWinner(l)
  PROVE  IInv'
<1>1. /\ stage = "transfer" /\ stage' = "KeyError"
      /\ UNCHANGED <<files, core, curation, byId, absorbed, weak, force, remap, todo>>
  BY DEF LoseWinner
<1>2. Typed'
  BY <1>1 DEF IInv, Typed, Store, Stages
<1>3. DuringFold'
  <2>1. DOMAIN byId = DOMAIN absorbed /\ stage' \in {"transfer", "KeyError"}
    BY <1>1 DEF IInv, DuringFold
  <2>2. ASSUME NEW f \in DOMAIN remap PROVE Same(f)'
    BY <1>1 DEF IInv, DuringFold, Same
  <2>3. ASSUME NEW f \in DOMAIN absorbed \ DOMAIN remap PROVE Survivor(f)'
    <3>1. Survivor(f)
      BY <1>1 DEF IInv, DuringFold
    <3>2. (Survivor(f)) <=> (Survivor(f)')
      BY <1>1 DEF Survivor, Valued, ValuedIn, Strongs, Lineage
    <3> QED BY <3>1, <3>2
  <2>4. ASSUME NEW m \in DOMAIN remap \ todo
        PROVE  remap[m] \notin DOMAIN remap /\ Surface(absorbed[m]) \subseteq Surface(byId[remap[m]])
    BY <1>1 DEF IInv, DuringFold
  <2> QED BY <1>1, <2>1, <2>2, <2>3, <2>4 DEF DuringFold
<1> QED BY <1>1, <1>2, <1>3 DEF IInv, BeforeFold, AfterFold, Distinct, StrongBeatsWeak

-----------------------------------------------------------------------------
(* The edges and the weak values.                                           *)

(* What the records that became f say of x.                                 *)
LEMMA StrongsOf ==
  ASSUME DOMAIN remap \subseteq DOMAIN absorbed, NEW f \in DOMAIN absorbed \ DOMAIN remap, NEW x
  PROVE  Said(f, x) = Strongs(f, x, DOMAIN remap)
<1>1. {h \in DOMAIN absorbed : Final(h) = f}
        = {h \in DOMAIN absorbed : h = f \/ (h \in DOMAIN remap /\ remap[h] = f)}
  BY DEF Final
<1> QED BY <1>1 DEF Strongs, Said

\* The losers go and the edges to them are repointed to their winners.
LEMMA RepointKeeps ==
  ASSUME IInv, RepointEdges
  PROVE  IInv'
<1> DEFINE Moved(f, edges) ==
             [p \in {Final(q) : q \in DOMAIN edges} \ {f} |->
                edges[CHOOSE q \in DOMAIN edges : Final(q) = p]]
<1>1. stage = "transfer" /\ todo = {} /\ stage' = "fill"
  BY DEF RepointEdges
<1>2. UNCHANGED <<files, core, curation, absorbed, weak, force, remap, todo>>
  BY DEF RepointEdges
<1>3. byId' = [f \in DOMAIN byId \ DOMAIN remap |-> [byId[f] EXCEPT !.parents = Moved(f, byId[f].parents)]]
  BY DEF RepointEdges
<1>4. /\ DOMAIN byId = DOMAIN absorbed /\ DOMAIN remap \subseteq DOMAIN absorbed
      /\ DOMAIN absorbed \subseteq Forms /\ Store(byId) /\ Store(absorbed)
      /\ \A l \in DOMAIN remap :
           /\ remap[l] \in DOMAIN absorbed \ DOMAIN remap
           /\ Surface(absorbed[l]) \subseteq Surface(byId[remap[l]])
      /\ \A f \in DOMAIN absorbed \ DOMAIN remap : Survivor(f)
  BY <1>1 DEF IInv, Typed, DuringFold, Store
<1>5. \A q \in Forms : Final(q) \in Forms \ DOMAIN remap
  BY <1>4 DEF Final
<1>6. ASSUME NEW f, NEW e \in Edges
      PROVE  /\ Moved(f, e) \in Edges
             /\ DOMAIN Moved(f, e) = {Final(q) : q \in DOMAIN e} \ {f}
             /\ DOMAIN Moved(f, e) \cap (DOMAIN remap \cup {f}) = {}
  <2>1. PICK S \in SUBSET Forms : e \in [S -> Relations]
    BY DEF Edges
  <2>2. PICK T \in SUBSET Forms : T = {Final(q) : q \in S} \ {f}
    BY <1>5, <2>1
  <2>3. DOMAIN e = S /\ DOMAIN Moved(f, e) = T
    BY <2>1, <2>2
  <2>4. ASSUME NEW p \in T PROVE e[CHOOSE q \in S : Final(q) = p] \in Relations
    <3>1. \E q \in S : Final(q) = p
      BY <2>2
    <3>2. (CHOOSE q \in S : Final(q) = p) \in S
      BY <3>1
    <3> QED BY <2>1, <3>2
  <2>5. Moved(f, e) \in [T -> Relations]
    BY <2>2, <2>3, <2>4
  <2>6. T \cap (DOMAIN remap \cup {f}) = {}
    BY <1>5, <2>2
  <2> HIDE DEF Moved
  <2> QED BY <2>2, <2>3, <2>5, <2>6 DEF Edges
<1>7. ASSUME NEW f \in DOMAIN byId \ DOMAIN remap
      PROVE  /\ byId'[f] \in Entries /\ byId'[f].id = byId[f].id /\ byId'[f].src = byId[f].src
             /\ byId'[f].name = byId[f].name /\ byId'[f].aliases = byId[f].aliases
             /\ byId'[f].value = byId[f].value
             /\ DOMAIN byId'[f].parents = {Final(q) : q \in DOMAIN byId[f].parents} \ {f}
             /\ DOMAIN byId'[f].parents \cap (DOMAIN remap \cup {f}) = {}
  <2>1. byId[f] \in Entries /\ byId[f].parents \in Edges
    BY <1>4, EntryFacts DEF Store
  <2>2. PICK p : p = Moved(f, byId[f].parents)
    OBVIOUS
  <2>3. /\ p \in Edges /\ DOMAIN p = {Final(q) : q \in DOMAIN byId[f].parents} \ {f}
        /\ DOMAIN p \cap (DOMAIN remap \cup {f}) = {}
    BY <1>6, <2>1, <2>2
  <2>4. byId'[f] = [byId[f] EXCEPT !.parents = p]
    BY <1>3, <2>2
  <2>5. /\ byId'[f] \in Entries /\ byId'[f].id = byId[f].id /\ byId'[f].src = byId[f].src
        /\ byId'[f].name = byId[f].name /\ byId'[f].aliases = byId[f].aliases
        /\ byId'[f].value = byId[f].value /\ byId'[f].parents = p
    BY <2>1, <2>3, <2>4 DEF Entries
  <2> QED BY <2>3, <2>5
<1>8. DOMAIN byId' = DOMAIN absorbed \ DOMAIN remap
  BY <1>3, <1>4
<1>9. Store(byId')
  <2>1. byId' = [f \in DOMAIN byId' |-> byId'[f]]
    BY <1>3
  <2>2. byId' \in [DOMAIN byId' -> Entries]
    BY <1>4, <1>7, <1>8, <2>1
  <2> QED BY <1>4, <1>7, <1>8, <2>2 DEF Store
<1>10. Typed'
  BY <1>1, <1>2, <1>9 DEF IInv, Typed, Store, Stages
<1>11. ASSUME NEW f \in DOMAIN absorbed
       PROVE  Final(f)' \in DOMAIN byId' /\ Surface(absorbed[f]) \subseteq Surface(byId'[Final(f)'])
  <2>1. PICK w \in DOMAIN absorbed \ DOMAIN remap : w = Final(f)
    BY <1>4, <1>11 DEF Final
  <2>2. Final(f)' = w
    BY <1>2, <2>1 DEF Final
  <2>3. Surface(byId'[w]) = Surface(byId[w])
    BY <1>4, <1>7 DEF Surface
  <2>4. Surface(absorbed[f]) \subseteq Surface(byId[w])
    <3>1. CASE f \in DOMAIN remap
      BY <1>4, <2>1, <3>1 DEF Final
    <3>2. CASE f \notin DOMAIN remap
      <4>1. w = f /\ byId[f].id = f /\ absorbed[f].id = f
        BY <1>4, <2>1, <3>2 DEF Final, Store
      <4>2. byId[f].name = absorbed[f].name /\ absorbed[f].aliases \subseteq byId[f].aliases
        BY <1>4, <3>2 DEF Survivor
      <4> QED BY <4>1, <4>2 DEF Surface
    <3> QED BY <3>1, <3>2
  <2> QED BY <1>8, <2>1, <2>2, <2>3, <2>4
<1>12. ASSUME NEW f \in DOMAIN byId'
       PROVE  /\ f \in byId'[f].aliases => f \in absorbed[f].aliases
              /\ DOMAIN byId'[f].parents \cap (DOMAIN remap \cup {f}) = {}
              /\ {Final(p) : p \in DOMAIN absorbed[f].parents \ NonLineage}
                   \subseteq DOMAIN byId'[f].parents \cup {f}
              /\ \A p \in DOMAIN byId'[f].parents : Bequeathed(f, p)
              /\ Valued(f, DOMAIN remap)
              /\ byId'[f].value = byId[f].value
  <2>1. Survivor(f) /\ DOMAIN remap \ todo = DOMAIN remap
    BY <1>1, <1>4, <1>8
  <2>2. /\ f \in byId'[f].aliases => f \in absorbed[f].aliases
        /\ DOMAIN byId'[f].parents \cap (DOMAIN remap \cup {f}) = {}
        /\ byId'[f].value = byId[f].value
    BY <1>4, <1>7, <1>8, <2>1 DEF Survivor
  <2>3. DOMAIN absorbed[f].parents \subseteq DOMAIN byId[f].parents
    BY <2>1 DEF Survivor
  <2>4. {Final(p) : p \in DOMAIN absorbed[f].parents \ NonLineage}
          \subseteq DOMAIN byId'[f].parents \cup {f}
    BY <1>4, <1>7, <1>8, <2>3
  <2>5. Valued(f, DOMAIN remap)
    BY <2>1 DEF Survivor
  <2>6. ASSUME NEW p \in DOMAIN byId'[f].parents PROVE Bequeathed(f, p)
    <3>1. PICK q \in DOMAIN byId[f].parents : Final(q) = p
      BY <1>4, <1>7, <1>8
    <3>2. q \in Lineage(f, DOMAIN remap)
      BY <2>1, <3>1 DEF Survivor
    <3>3. CASE q \in DOMAIN absorbed[f].parents
      <4>1. f \in DOMAIN absorbed /\ Final(f) = f
        BY <1>8 DEF Final
      <4> QED BY <3>1, <3>3, <4>1 DEF Bequeathed
    <3>4. CASE q \notin DOMAIN absorbed[f].parents
      <4>1. PICK g \in DOMAIN remap : remap[g] = f /\ q \in DOMAIN absorbed[g].parents \ NonLineage
        BY <3>2, <3>4 DEF Lineage
      <4>2. g \in DOMAIN absorbed /\ Final(g) = f
        BY <1>4, <4>1 DEF Final
      <4> QED BY <3>1, <4>1, <4>2 DEF Bequeathed
    <3> QED BY <3>3, <3>4
  <2> QED BY <2>2, <2>4, <2>5, <2>6
<1>13. \A p : Final(p)' = Final(p)
  BY <1>2 DEF Final
<1>14. Folded'
  <2>1. \A f \in DOMAIN byId' : {Final(p)' : p \in DOMAIN absorbed[f].parents \ NonLineage}
                                   = {Final(p) : p \in DOMAIN absorbed[f].parents \ NonLineage}
    BY <1>13
  <2>2. \A f, p : Bequeathed(f, p) => Bequeathed(f, p)'
    BY <1>2, <1>13 DEF Bequeathed
  <2> QED BY <1>1, <1>2, <1>8, <1>11, <1>12, <2>1, <2>2 DEF Folded
<1>15. ASSUME NEW f \in DOMAIN byId'
       PROVE  Valued(f, DOMAIN remap)'
  <2>1. \A x : Strongs(f, x, DOMAIN remap)' = Strongs(f, x, DOMAIN remap)
    BY <1>2 DEF Strongs
  <2> QED BY <1>2, <1>12, <2>1 DEF Valued, ValuedIn
<1>16. StrongBeatsWeak'
  <2> SUFFICES ASSUME NEW f \in DOMAIN byId', NEW x \in Fields
               PROVE  (/\ x \in Backfilled /\ Said(f, x) # {} => byId[f].value[x] \in Said(f, x)
                       /\ absorbed[f].value[x] # None => byId[f].value[x] = absorbed[f].value[x])'
    BY DEF StrongBeatsWeak
  <2>1. Said(f, x) = Strongs(f, x, DOMAIN remap)
    BY <1>4, <1>8, StrongsOf
  <2>2. Said(f, x)' = Said(f, x)
    BY <1>2, <1>13 DEF Said
  <2>3. ValuedIn(f, x, DOMAIN remap) /\ byId'[f].value = byId[f].value
    BY <1>12 DEF Valued
  <2> QED BY <1>2, <2>1, <2>2, <2>3 DEF ValuedIn
<1>17. Apart'
  BY <1>1, <1>2 DEF IInv, Distinct, Apart
<1> QED BY <1>1, <1>10, <1>14, <1>15, <1>16, <1>17
        DEF IInv, BeforeFold, DuringFold, AfterFold, Distinct

\* Weak values fill what no strong value has filled.
LEMMA WeakFillKeeps ==
  ASSUME IInv, WeakFill
  PROVE  IInv'
<1>1. stage = "fill" /\ stage' = "done" /\ Folded /\ Store(byId) /\ weak \in Seq(SUBSET Records)
  BY DEF WeakFill, IInv, AfterFold, Typed
<1>2. UNCHANGED <<files, core, curation, absorbed, weak, force, remap, todo>>
  BY DEF WeakFill
<1>3. DOMAIN byId' = DOMAIN byId /\ \A f \in DOMAIN byId :
        byId'[f] = [byId[f] EXCEPT !.value = Filled(f)]
  BY DEF WeakFill
<1>4. ASSUME NEW f \in DOMAIN byId, NEW x \in Fields, Fillable(f, x)
      PROVE  WeakValue(f, x) \in Values \cup {None}
  <2>1. Given(f, x) \subseteq Nat /\ Given(f, x) # {}
    BY <1>1, <1>4 DEF Fillable, Given
  <2>2. PICK i \in Given(f, x) : \A j \in Given(f, x) : i <= j
    <3>1. PICK i \in Given(f, x) : \A j \in Given(f, x) : <<j, i>> \notin OpToRel(<, Nat)
      BY <2>1, NatLessThanWellFounded, WFMin
    <3>2. \A j \in Given(f, x) : ~(j < i)
      BY <2>1, <3>1 DEF OpToRel
    <3> QED BY <2>1, <3>2
  <2>3. Min(Given(f, x)) \in Given(f, x)
    BY <2>2 DEF Min
  <2>4. PICK m : m = Min(Given(f, x))
    OBVIOUS
  <2>5. m \in DOMAIN weak /\ Donors(f, x, m) # {}
    BY <2>3, <2>4 DEF Given
  <2>6. Donors(f, x, m) \subseteq Records
    BY <1>1, <2>5 DEF Donors
  <2>7. PICK e \in Records : WeakValue(f, x) = e.weak[x]
    <3>1. (CHOOSE e \in Donors(f, x, m) : TRUE) \in Records
      BY <2>5, <2>6
    <3>2. WeakValue(f, x) = (CHOOSE e \in Donors(f, x, m) : TRUE).weak[x]
      BY <2>4 DEF WeakValue
    <3> QED BY <3>1, <3>2
  <2>8. e.weak \in Scalars
    BY RecordsAssumption
  <2> QED BY <2>7, <2>8 DEF Scalars
<1>5. ASSUME NEW f \in DOMAIN byId
      PROVE  /\ byId'[f] \in Entries /\ byId'[f].id = byId[f].id /\ byId'[f].src = byId[f].src
             /\ byId'[f].name = byId[f].name /\ byId'[f].aliases = byId[f].aliases
             /\ byId'[f].parents = byId[f].parents
             /\ \A x \in Fields : byId[f].value[x] # None => byId'[f].value[x] = byId[f].value[x]
  <2>1. byId[f] \in Entries /\ byId[f].value \in Scalars
    BY <1>1, EntryFacts DEF Store
  <2>2. PICK v : v = Filled(f)
    OBVIOUS
  <2>3. \A x \in Fields : v[x] = IF Fillable(f, x) THEN WeakValue(f, x) ELSE byId[f].value[x]
    BY <2>2 DEF Filled
  <2>4. v \in Scalars
    BY <1>4, <2>1, <2>2 DEF Filled, Scalars
  <2>5. \A x \in Fields : byId[f].value[x] # None => v[x] = byId[f].value[x]
    BY <2>3 DEF Fillable
  <2>6. byId'[f] = [byId[f] EXCEPT !.value = v]
    BY <1>3, <2>2
  <2>7. /\ byId'[f] \in Entries /\ byId'[f].id = byId[f].id /\ byId'[f].src = byId[f].src
        /\ byId'[f].name = byId[f].name /\ byId'[f].aliases = byId[f].aliases
        /\ byId'[f].parents = byId[f].parents /\ byId'[f].value = v
    BY <2>1, <2>4, <2>6 DEF Entries
  <2> QED BY <2>5, <2>7
<1>6. Store(byId')
  <2>1. byId' = [f \in DOMAIN byId' |-> byId'[f]]
    BY DEF WeakFill
  <2>2. byId' \in [DOMAIN byId' -> Entries]
    BY <1>3, <1>5, <2>1
  <2> QED BY <1>1, <1>3, <1>5, <2>2 DEF Store
<1>7. Typed'
  BY <1>1, <1>2, <1>6 DEF IInv, Typed, Store, Stages
<1>8. \A p : Final(p)' = Final(p)
  BY <1>2 DEF Final
<1>9. \A f \in DOMAIN byId : Surface(byId'[f]) = Surface(byId[f])
  BY <1>5 DEF Surface
<1>10. Folded'
  <2>1. \A f \in DOMAIN byId : {Final(p)' : p \in DOMAIN absorbed[f].parents \ NonLineage}
                                  = {Final(p) : p \in DOMAIN absorbed[f].parents \ NonLineage}
    BY <1>8
  <2>3. \A f, p : Bequeathed(f, p) => Bequeathed(f, p)'
    BY <1>2, <1>8 DEF Bequeathed
  <2>2. \A f \in DOMAIN absorbed :
          Final(f)' \in DOMAIN byId' /\ Surface(absorbed[f]) \subseteq Surface(byId'[Final(f)'])
    BY <1>1, <1>3, <1>8, <1>9 DEF Folded
  <2> QED BY <1>1, <1>2, <1>3, <1>5, <2>1, <2>2, <2>3 DEF Folded
<1>11. StrongBeatsWeak'
  <2> SUFFICES ASSUME NEW f \in DOMAIN byId', NEW x \in Fields
               PROVE  (/\ x \in Backfilled /\ Said(f, x) # {} => byId[f].value[x] \in Said(f, x)
                       /\ absorbed[f].value[x] # None => byId[f].value[x] = absorbed[f].value[x])'
    BY DEF StrongBeatsWeak
  <2>1. f \in DOMAIN absorbed \ DOMAIN remap /\ DOMAIN remap \subseteq DOMAIN absorbed
    BY <1>1, <1>3 DEF Folded, IInv, Typed
  <2>2. Said(f, x) = Strongs(f, x, DOMAIN remap)
    BY <2>1, StrongsOf
  <2>3. Said(f, x)' = Said(f, x)
    BY <1>2, <1>8 DEF Said
  <2>4. ValuedIn(f, x, DOMAIN remap)
    BY <1>1, <1>3 DEF IInv, AfterFold, Valued
  <2>5. byId[f].value[x] # None => byId'[f].value[x] = byId[f].value[x]
    BY <1>3, <1>5
  <2> QED BY <1>2, <2>2, <2>3, <2>4, <2>5 DEF ValuedIn
<1>12. Apart'
  BY <1>1, <1>2 DEF IInv, Distinct, Apart
<1> QED BY <1>1, <1>7, <1>10, <1>11, <1>12 DEF IInv, BeforeFold, DuringFold, AfterFold, Distinct

-----------------------------------------------------------------------------
(* The invariant and what follows from it.                                  *)

\* Before the first file nothing is absorbed.
LEMMA InitHolds ==
  ASSUME Init
  PROVE  IInv
<1>1. files \in Seq(SUBSET Records)
  <2>1. PICK held \in SUBSET Records : files = [i \in 1 .. Sources + 2 |-> {e \in held : e.file = i}]
    BY DEF Init
  <2>2. Sources + 2 \in Nat
    BY SeedMergeAssumption
  <2>3. files \in [1 .. Sources + 2 -> SUBSET Records]
    BY <2>1
  <2> QED BY <2>2, <2>3, SeqDef
<1>2. /\ stage = "absorb" /\ byId = NoMap /\ absorbed = NoMap /\ weak = <<>>
      /\ force = NoMap /\ remap = NoMap /\ todo = {}
  BY DEF Init
<1>3. Store(NoMap) /\ DOMAIN NoMap = {} /\ NoMap \in [{} -> {}]
  BY DEF Store, NoMap
<1>4. Typed
  <2>1. weak \in Seq(SUBSET Records)
    BY <1>2, EmptySeq
  <2>2. remap \in [DOMAIN remap -> DOMAIN absorbed] /\ DOMAIN remap \subseteq DOMAIN absorbed
    BY <1>2, <1>3
  <2> QED BY <1>1, <1>2, <1>3, <2>1, <2>2 DEF Typed, Stages
<1> QED BY <1>2, <1>3, <1>4
        DEF IInv, BeforeFold, DuringFold, AfterFold, Distinct, StrongBeatsWeak

\* A step that changes nothing keeps the invariant.
LEMMA StutterKeeps ==
  ASSUME IInv, UNCHANGED vars
  PROVE  IInv'
<1>1. UNCHANGED <<files, core, curation, stage, byId, absorbed, weak, force, remap, todo>>
  BY DEF vars
<1>2. Typed'
  BY <1>1 DEF IInv, Typed, Store
<1>3. BeforeFold'
  BY <1>1 DEF IInv, BeforeFold, Same
<1>4. \A f, x, D : Strongs(f, x, D)' = Strongs(f, x, D)
  BY <1>1 DEF Strongs
<1>5. \A f : Valued(f, DOMAIN remap) => Valued(f, DOMAIN remap)'
  BY <1>1, <1>4 DEF Valued, ValuedIn
<1>6. \A f : Survivor(f) => Survivor(f)'
  <2>1. \A f, D : Lineage(f, D)' = Lineage(f, D)
    BY <1>1 DEF Lineage
  <2>2. \A f, D : Valued(f, D) => Valued(f, D)'
    BY <1>1, <1>4 DEF Valued, ValuedIn
  <2> QED BY <1>1, <2>1, <2>2 DEF Survivor
<1>7. Folded => Folded'
  BY <1>1 DEF Folded, Final, Bequeathed
<1>8. DuringFold'
  <2>1. \A f : Same(f) => Same(f)'
    BY <1>1 DEF Same
  <2> QED BY <1>1, <1>6, <2>1 DEF IInv, DuringFold
<1>9. AfterFold'
  BY <1>1, <1>5, <1>7 DEF IInv, AfterFold
<1>10. Distinct'
  BY <1>1 DEF IInv, Distinct, Apart
<1>11. StrongBeatsWeak'
  <2>1. \A f, x : Said(f, x)' = Said(f, x)
    BY <1>1 DEF Said, Final
  <2> QED BY <1>1, <2>1 DEF IInv, StrongBeatsWeak
<1> QED BY <1>2, <1>3, <1>8, <1>9, <1>10, <1>11 DEF IInv

\* Every step keeps the invariant.
LEMMA NextKeeps ==
  ASSUME IInv, [Next]_vars
  PROVE  IInv'
<1>1. CASE AbsorbFile
  BY <1>1, AbsorbKeeps
<1>2. CASE AttributeOrgs
  BY <1>2, AttributeKeeps
<1>3. CASE PromoteHf
  BY <1>3, PromoteKeeps
<1>4. CASE FoldGroups
  BY <1>4, FoldKeeps
<1>5. ASSUME NEW l \in todo, Transfer(l) PROVE IInv'
  BY <1>5, TransferKeeps
<1>6. ASSUME NEW l \in todo, LoseWinner(l) PROVE IInv'
  BY <1>6, LoseWinnerKeeps
<1>7. CASE RepointEdges
  BY <1>7, RepointKeeps
<1>8. CASE WeakFill
  BY <1>8, WeakFillKeeps
<1>9. CASE UNCHANGED vars
  BY <1>9, StutterKeeps
<1> QED BY <1>1, <1>2, <1>3, <1>4, <1>5, <1>6, <1>7, <1>8, <1>9 DEF Next

(* The inductive invariant holds of every run of the merge.                 *)
THEOREM Invariance == Spec => []IInv
<1>1. Init => IInv
  BY InitHolds
<1>2. IInv /\ [Next]_vars => IInv'
  BY NextKeeps
<1> QED BY <1>1, <1>2, PTL DEF Spec

(* Entries stay well formed through every pass, and none makes an entry an  *)
(* alias of itself (the transfer of fold_collisions leaves the winner out). *)
THEOREM TypeCorrect == Spec => []TypeOK
<1>1. IInv => TypeOK
  <2> SUFFICES ASSUME IInv PROVE TypeOK
    OBVIOUS
  <2>1. /\ stage \in Stages /\ byId \in [DOMAIN byId -> Entries]
        /\ remap \in [DOMAIN remap -> DOMAIN absorbed] /\ todo \subseteq DOMAIN remap
    BY DEF IInv, Typed, Store
  <2>2. ASSUME NEW f \in DOMAIN byId, stage # "absorb", f \in byId[f].aliases
        PROVE  f \in absorbed[f].aliases
    <3>1. CASE stage \in {"promote", "fold"}
      BY <2>2, <3>1 DEF IInv, BeforeFold, Same
    <3>2. CASE stage \in {"transfer", "KeyError"}
      <4>1. CASE f \in DOMAIN remap
        BY <2>2, <3>2, <4>1 DEF IInv, DuringFold, Same
      <4>2. CASE f \notin DOMAIN remap
        BY <2>2, <3>2, <4>2 DEF IInv, DuringFold, Survivor
      <4> QED BY <4>1, <4>2
    <3>3. CASE stage \in {"fill", "done"}
      BY <2>2, <3>3 DEF IInv, AfterFold, Folded
    <3> QED BY <2>1, <2>2, <3>1, <3>2, <3>3 DEF Stages
  <2>3. \A f \in DOMAIN byId : byId[f].id = f
    BY DEF IInv, Typed, Store
  <2> QED BY <2>1, <2>2, <2>3 DEF TypeOK, Stages
<1> QED BY <1>1, Invariance, PTL

(* The folds lose no spelling, no edge to a real parent and no value an     *)
(* entry came with, pass on no umbrella, and keep what the folded records   *)
(* say in a field that is backfilled, whatever chains of attribution,       *)
(* promotion and curation they form (fold_collisions, weak fill).           *)
THEOREM FoldLosesNothingHolds == Spec => []FoldLosesNothing
<1>1. IInv => FoldLosesNothing
  <2> SUFFICES ASSUME IInv PROVE FoldLosesNothing
    OBVIOUS
  <2>1. SurfaceKept
    BY DEF IInv, AfterFold, Folded, SurfaceKept
  <2>2. LineageLands
    BY DEF IInv, AfterFold, Folded, Bequeathed, LineageLands
  <2> QED BY <2>1, <2>2 DEF FoldLosesNothing, IInv
<1> QED BY <1>1, Invariance, PTL

(* Two HF repositories with one collision key end as two models unless a    *)
(* curated merge names one of them (the guard of fold_collisions).          *)
THEOREM ReposStayDistinctHolds == Spec => []ReposStayDistinct
<1>1. IInv => ReposStayDistinct
  <2> SUFFICES ASSUME IInv, stage = "done",
                      NEW f \in DOMAIN absorbed, NEW g \in DOMAIN absorbed,
                      absorbed[f].src = "hf", absorbed[g].src = "hf", Key[f] = Key[g],
                      Final(f) = Final(g), f # g, {f, g} \cap DOMAIN curation.merge = {}
               PROVE  FALSE
    BY DEF ReposStayDistinct
  <2>1. {f, g} \cap DOMAIN remap = {}
    BY DEF IInv, Distinct, Apart
  <2> QED BY <2>1 DEF Final
<1> QED BY <1>1, Invariance, PTL
=============================================================================
