-------------------------- MODULE ModelsDevCatalog --------------------------
(***************************************************************************)
(* From the models.dev catalog to canonical entries: provider records are   *)
(* grouped into underlying models, each group is minted, built as a family  *)
(* or deferred to an HF repository, its spellings become aliases, and the   *)
(* whole output is made free of duplicates and of shared forms.             *)
(*                                                                         *)
(* A form is a surface string.  What the code computes from a string (its   *)
(* normal form, the identity of its tokens, the id minted for it under an   *)
(* org, the chain of family ids above it) is given by constant functions.   *)
(***************************************************************************)
EXTENDS Naturals, Sequences, FiniteSets, SequencesExt

CONSTANTS
  Forms,     \* surface strings
  Orgs,      \* org ids, in every spelling
  Relations, \* kinds of parent edges
  None,      \* an absent string
  Before,    \* [Forms -> Nat]: shorter first, then by string
  Norm,      \* [Forms -> _]: the resolver's normalize
  Names,     \* [Forms -> SUBSET _]: name norms, with and without the brand
  Sig,       \* [Forms -> _]: identity signature, variant tokens kept
  Sigs,      \* [Forms -> SUBSET _]: signatures an entry of that id answers to
  Developer, \* [Forms -> _]: the developer its org prefix folds to, or None
  NameOrg,   \* [Forms -> _]: the developer a display name leads with, or None
  Slashed,   \* forms with an org prefix
  Cased,     \* forms with an upper-case letter
  LastPart,  \* [Forms -> Forms]: the last segment
  Title,     \* [Forms -> Forms]: humanize_model_slug
  Spelled,   \* [Forms -> SUBSET Forms]: bare spellings a raw id resolves by
  Slug,      \* [Forms -> Forms]: the bare slug, variants stripped
  Minted,    \* [<<org, raw>> -> Forms]: org/slug
  Qualified, \* [<<org, raw>> -> Forms]: org/slug, variants kept
  LeafForms, \* [Forms -> SUBSET Forms]: aliases of an author's snapshot
  Lineage,   \* [Forms -> Seq]: family chain of an author's raw id, root first
  OrKey,     \* [Forms -> Forms or None]: the adoptable OpenRouter key
  AuthorOf,  \* [providers -> org or None]: labs publishing their own models
  FamilyOrg, \* [families -> org or None]
  Unmapped,  \* providers that map to no inference platform
  KnownOrgs, \* ids in orgs.yaml
  KeepsName, \* pairs <<hf, mint>>: variant, size and name kept
  Junk,      \* curated ids never adopted
  OracleIds, \* HF ids of the frozen oracle
  NonLineage \* curated umbrella ids

NoMap == [f \in {} |-> None]
Owned(S, value) == [f \in S |-> value]
map ++ older ==  \* what map does not hold is as before
  [f \in DOMAIN map \cup DOMAIN older |-> IF f \in DOMAIN map THEN map[f] ELSE older[f]]

(* The functions return what the code's return: strings of the vocabulary,  *)
(* and a string always has a normal form, a display name and a last part.   *)
(* Each step of a family below its root is an edge.                         *)
ASSUME CatalogAssumption ==
  /\ IsFiniteSet(Forms) /\ None \notin Forms \cup Orgs /\ OracleIds \subseteq Forms
  /\ \A f \in Forms :
       /\ Before[f] \in Nat /\ \A g \in Forms : Before[g] = Before[f] => g = f
       /\ {Developer[f], NameOrg[f]} \subseteq Orgs \cup {None}
       /\ {LastPart[f], Title[f]} \subseteq Forms /\ OrKey[f] \in Forms \cup {None}
       /\ Spelled[f] \cup LeafForms[f] \subseteq Forms
       /\ \A n \in DOMAIN Lineage[f] :
            /\ Lineage[f][n].id \in Forms
            /\ n # 1 => n - 1 \in DOMAIN Lineage[f] /\ Lineage[f][n].rel \in Relations
       /\ \A org \in Orgs : {Minted[<<org, f>>], Qualified[<<org, f>>]} \subseteq Forms
       /\ Minted[<<None, f>>] \in Forms

IsCatalog(records) ==
  /\ IsFiniteSet(records)
  /\ \A r \in records :
       /\ {r.raw, r.name} \subseteq Forms /\ r.claim \in Forms \cup {None} /\ r.value \in Nat
       /\ AuthorOf[r.provider] \in Orgs \cup {None}

FirstOf(S) == CHOOSE f \in S : S = {f} \/ \A g \in S : Before[f] <= Before[g]
FirstTier(tiers) ==  \* the first that is not empty
  tiers[CHOOSE n \in DOMAIN tiers : tiers[n] # {} /\ \A m \in 1 .. n - 1 : tiers[m] = {}]
OrElse(found, otherwise) == IF found = {} THEN otherwise ELSE found
Least(values) == IF values \subseteq {0} THEN 0 ELSE CHOOSE v \in values \ {0} : \A w \in values \ {0} : v <= w
Redirected(parents, to) ==
  LET New(p) == IF p \in DOMAIN to THEN to[p] ELSE p
  IN [p \in {New(q) : q \in DOMAIN parents} |-> parents[CHOOSE q \in DOMAIN parents : New(q) = p]]

(* The elements of S by rank, and entries of distinct ids in file order.    *)
InOrder(S, rank) ==
  [n \in 1 .. Cardinality(S) |->
     CHOOSE x \in S : Cardinality({y \in S : rank[y] < rank[x]}) = n - 1]
Listed(entries) == InOrder(entries, [e \in entries |-> Before[e.id]])

Entry(id, org, name, aliases) ==
  [id |-> id, full |-> TRUE, org |-> org, name |-> name, aliases |-> aliases,
   parents |-> NoMap, deferred |-> FALSE, adopted |-> FALSE, reviewed |-> TRUE,
   open |-> FALSE, value |-> 0, weak |-> 0, removed |-> FALSE]

IsEntry(e) ==
  /\ e \in [id : Forms, full : BOOLEAN, org : Orgs \cup {None}, name : Forms \cup {None},
            aliases : SUBSET Forms, parents : {e.parents}, deferred : BOOLEAN, adopted : BOOLEAN,
            reviewed : BOOLEAN, open : BOOLEAN, value : Nat, weak : Nat, removed : BOOLEAN]
  /\ DOMAIN e.parents \subseteq Forms /\ e.parents \in [DOMAIN e.parents -> Relations]

----------------------------------------------------------------------------
(* Records of one key are one model; so are records of two keys with the    *)
(* same tokens, unless both name families and share none.                   *)
Groups(catalog) ==
  LET keys == {r.key : r \in catalog}
      TokensOf(k) == (CHOOSE r \in catalog : r.key = k).tokens
      Held(ks) == {r.family : r \in {c \in catalog : c.key \in ks}} \ {None}
      Join(ks, k) == IF \/ Held(ks) \cap Held({k}) # {}
                        \/ Held(ks) = {} \/ Held({k}) = {}
                     THEN ks \cup {k} ELSE ks
      Alike(k) == LET ls == {l \in keys : TokensOf(l) = TokensOf(k)}
                  IN [n \in 1 .. Cardinality(ls) |->
                        CHOOSE l \in ls : Cardinality({m \in ls : m < l}) = n - 1]
      Joined(k) == FoldLeft(Join, {Head(Alike(k))}, Tail(Alike(k)))
      RecordsOf(ks) == {r \in catalog : r.key \in ks}
  IN {RecordsOf(IF k \in Joined(k) THEN Joined(k) ELSE {k}) : k \in keys}

(* An uploader's prefix decides the org; failing that, the display names.   *)
GroupOrg(recs) ==
  LET uploaded == {r \in recs : r.raw \in Slashed /\ Developer[r.raw] # None}
      named == {r \in recs \ uploaded : NameOrg[r.name] # None}
      Uploads(o) == Cardinality({r \in uploaded : Developer[r.raw] = o})
      Namings(o) == Cardinality({r \in named : NameOrg[r.name] = o})
      prefixes == {Developer[r.raw] : r \in uploaded}
      brands == {NameOrg[r.name] : r \in named}
  IN IF uploaded # {} THEN CHOOSE o \in prefixes : \A p \in prefixes : Uploads(p) <= Uploads(o)
     ELSE IF named # {} THEN CHOOSE o \in brands : \A p \in brands : Namings(p) <= Namings(o)
     ELSE None

(* A lab's own record speaks for the group when its family is the lab's.    *)
Authors(recs) ==
  LET families == {r.family : r \in recs} \ {None}
      Count(f) == Cardinality({r \in recs : r.family = f})
      org == IF families = {} THEN None
             ELSE FamilyOrg[CHOOSE f \in families : \A g \in families : Count(g) <= Count(f)]
  IN {r \in recs : AuthorOf[r.provider] # None /\ org \in {None, AuthorOf[r.provider]}}

Underlying(recs) ==
  LET authors == Authors(recs)
      Spelling == FirstOf({r.raw : r \in IF authors # {} THEN authors ELSE recs})
      Spoken == {r.name : r \in IF authors # {} THEN {a \in authors : a.raw = Spelling} ELSE recs}
  IN [org |-> GroupOrg(recs), raw |-> Spelling, name |-> FirstOf(Spoken), authored |-> authors # {},
      open |-> \E r \in recs : r.open, value |-> Least({r.value : r \in recs})]

----------------------------------------------------------------------------
(* The HF repository of a group, if any: by the oracle, by an id the hub    *)
(* index holds verbatim, then by name under the org, one kind of spelling   *)
(* at a time.  A protected root only takes a repository of its own name.    *)
HfTarget(mint, org, recs, spellings, hub, roots) ==
  LET Own(h) == mint \in roots => Norm[LastPart[h]] = Norm[LastPart[mint]]
      Fits(h) == <<h, mint>> \in KeepsName /\ Own(h)
      Held(ids, tier) == {h \in ids : Developer[h] = org
                            /\ \E s \in tier : Norm[LastPart[h]] \in Names[s]}
      claims == {r.claim : r \in recs} \ {None}
      raws == {r.raw : r \in recs} \cap Slashed
      known == {h \in Held(OracleIds, spellings \cup {mint}) : Own(h)}
      verbatim == {h \in hub \cap (claims \cup raws) : Developer[h] = org /\ Fits(h)}
      ByName(tier) == {h \in Held(OracleIds \cup hub, tier) : Fits(h)}
      tiers == <<known, verbatim, ByName({mint}), ByName(claims), ByName(raws),
                 ByName(spellings \cup {r.name : r \in recs}), {None}>>
  IN IF org = None \/ mint \in NonLineage THEN None ELSE FirstOf(FirstTier(tiers))

DeferredEntry(hf, org, name, aliases, recs) ==
  LET claims == {c \in {r.claim : r \in recs} \ {None} : Norm[LastPart[hf]] \in Names[c]}
  IN [Entry(hf, org, name, (aliases \cup claims) \ {hf}) EXCEPT
        !.deferred = TRUE, !.open = \E r \in recs : r.open, !.value = Least({r.value : r \in recs})]

(* An entry that is no HF repository takes the OpenRouter key of the same   *)
(* identity and org; its minted id stays an alias, and edges follow.        *)
Adopt(entries, recs) ==
  LET cands == {OrKey[r.raw] : r \in {c \in recs : c.provider = "openrouter"}} \ ({None} \cup Junk)
      free == cands \ {e.id : e \in entries}
      Wants(e, k) == /\ e.id \in Slashed \ cands /\ ~e.deferred
                     /\ Sig[k] \in Sigs[e.id] /\ Developer[k] = e.org
      Take(given, e) ==
        LET keys == {k \in free \ Range(given) : Wants(e, k)}
        IN IF keys = {} THEN given ELSE Owned({e.id}, FirstOf(keys)) ++ given
      order == Listed(entries)
      taken[n \in 0 .. Len(order)] == IF n = 0 THEN NoMap ELSE Take(taken[n - 1], order[n])
      to == taken[Len(order)]
      Renamed(e) == IF e.id \notin DOMAIN to THEN e
                    ELSE [e EXCEPT !.id = to[e.id], !.aliases = @ \cup {e.id}, !.adopted = TRUE]
  IN {[Renamed(e) EXCEPT !.parents = Redirected(@, to)] : e \in entries}

MintOrDefer(org, head, recs, hub, roots) ==
  LET mint == Minted[<<org, head.raw>>]
      hf == HfTarget(mint, org, recs, {mint, head.name} \cup {r.raw : r \in recs}, hub, roots)
      minted == [Entry(mint, org, head.name, {}) EXCEPT
                   !.open = head.open, !.value = head.value, !.reviewed = head.authored]
  IN OrElse({DeferredEntry(h, org, head.name, {mint, head.name}, recs) : h \in {hf} \ {None}},
            Adopt({minted}, recs))

(* A family: its root, and below it one entry per prefix of each snapshot's *)
(* chain, made by the first record that reaches it.  Only the end of that   *)
(* record's chain carries the snapshot's spellings and name.                *)
FamilyEntry(org, recs, id, maker) ==
  LET chain == Lineage[maker.raw]
      n == CHOOSE k \in DOMAIN chain : chain[k].id = id
      leaf == n = Len(chain)
      itself == {r \in recs : Len(Lineage[r.raw]) = 1}
      top == [Entry(id, org, IF itself = {} THEN Title[id] ELSE (CHOOSE r \in itself : TRUE).name, {})
                EXCEPT !.value = Least({r.value : r \in recs})]
      below == [Entry(id, org, IF leaf THEN maker.name ELSE Title[id],
                      IF leaf THEN LeafForms[maker.raw] ELSE {}) EXCEPT
                  !.parents = Owned({chain[n - 1].id}, chain[n].rel), !.value = IF leaf THEN maker.value ELSE 0]
  IN [IF n = 1 THEN top ELSE below EXCEPT !.open = \E r \in recs : r.open]

FamilyEntries(org, recs) ==
  LET Ids(r) == {step.id : step \in Range(Lineage[r.raw])}
      Maker(id) == CHOOSE r \in recs :
        id \in Ids(r) /\ \A s \in recs : id \in Ids(s) => Before[r.raw] <= Before[s.raw]
  IN {FamilyEntry(org, recs, id, Maker(id)) : id \in UNION {Ids(r) : r \in recs}}

(* A record of the author goes to its HF repository when there is one, and  *)
(* to its family otherwise; a group left without entries is minted.         *)
FamiliesOf(org, snapshots, recs) ==
  UNION {Adopt(FamilyEntries(org, {r \in snapshots : Head(Lineage[r.raw]).id = top}), recs) :
           top \in {Head(Lineage[r.raw]).id : r \in snapshots}}

AuthoredEntries(org, head, authors, recs, hub, roots) ==
  LET Mint(r) == Minted[<<org, r.raw>>]
      Target(r) == HfTarget(Mint(r), org, recs, {r.raw, r.name}, hub, roots)
      Deferred(r) == {DeferredEntry(h, org, r.name, {Mint(r), r.name}, {r}) : h \in {Target(r)} \ {None}}
  IN OrElse(FamiliesOf(org, {r \in authors : Target(r) = None /\ Lineage[r.raw] # <<>>}, recs)
              \cup UNION {Deferred(r) : r \in authors},
            MintOrDefer(org, head, recs, hub, roots))

(* Every spelling of the group becomes an alias of the entry it names, when *)
(* it is the same identity: a variant's spelling never goes to its root,    *)
(* and nothing goes to two entries.                                         *)
AttachSpellings(entries, org, recs) ==
  LET Owners(f) == LET byId == {e \in entries : e.id = f}
                   IN IF byId # {} THEN byId ELSE {e \in entries : f \in e.aliases}
      tops == {e \in entries : e.parents = NoMap}
      Sought(r) == <<r.raw, Slug[r.raw]>> \o (IF org = None THEN <<>> ELSE <<Minted[<<org, r.raw>>]>>)
      First(es) == CHOOSE e \in es : \A o \in es : Before[e.id] <= Before[o.id]
      Target(r) ==
        LET hits == {n \in DOMAIN Sought(r) : Owners(Sought(r)[n]) # {}}
        IN IF hits # {} THEN First(Owners(Sought(r)[CHOOSE n \in hits : \A m \in hits : n <= m]))
           ELSE First(IF tops # {} THEN tops ELSE entries)
      Same(r, e) == \/ Sig[r.raw] = Sig[e.id]
                    \/ e.deferred /\ \E a \in e.aliases : Sig[r.raw] = Sig[a]
      Spellings(r) == Spelled[r.raw] \cup (IF org = None THEN {} ELSE {Qualified[<<org, r.raw>>]})
      Given(e) == UNION {Spellings(r) : r \in {c \in recs : Target(c) = e /\ Same(c, e)}}
  IN {[e EXCEPT !.aliases = @ \cup {f \in Given(e) \ {e.id} : Owners(f) \subseteq {e}}] : e \in entries}

(* A lab's own bare records build the family, if the group's org is theirs. *)
CuratedAuthors(recs) ==
  {r \in Authors(recs) : r.raw \notin Slashed /\ GroupOrg(recs) \in {None, AuthorOf[r.provider]}}

BuildGroup(head, authors, recs, hub, roots) ==
  LET lab == AuthorOf[(CHOOSE r \in authors : TRUE).provider]
  IN IF authors = {} THEN AttachSpellings(MintOrDefer(head.org, head, recs, hub, roots), head.org, recs)
     ELSE AttachSpellings(AuthoredEntries(lab, head, authors, recs, hub, roots), lab, recs)

GroupEntries(recs, hub, roots) == BuildGroup(Underlying(recs), CuratedAuthors(recs), recs, hub, roots)

MappedGroups(catalog) == {{r \in g : r.provider \notin Unmapped} : g \in Groups(catalog)} \ {{}}

(* Labs whose org orgs.yaml does not hold: the refresh stops on them.       *)
UnknownAuthors(catalog) ==
  {r \in UNION {CuratedAuthors(g) : g \in MappedGroups(catalog)} : AuthorOf[r.provider] \notin KnownOrgs}

----------------------------------------------------------------------------
(* An open-weight entry without an org is the deferred entry of its name,   *)
(* when there is exactly one.                                               *)
MergeBare(entries) ==
  LET Named(e) == {d \in entries : d.deferred /\ Norm[d.name] = Norm[e.name]}
      Bare(e) == e.id \notin Slashed /\ e.open /\ ~e.deferred /\ Cardinality(Named(e)) = 1
      Given(d) == UNION {{e.id} \cup e.aliases : e \in {b \in entries : Bare(b) /\ Named(b) = {d}}}
  IN {[e EXCEPT !.aliases = @ \cup (Given(e) \ {e.id})] : e \in {k \in entries : ~Bare(k)}}

(* Duplicates give the winner their forms and values.                       *)
Combined(winner, group) ==
  [winner EXCEPT
     !.aliases = UNION {e.aliases \cup {e.id} : e \in group} \ {winner.id},
     !.reviewed = \E e \in group : e.reviewed, !.open = \E e \in group : e.open,
     !.value = Least({e.value : e \in group})]

Dedup(entries) ==
  LET Group(id) == {e \in entries : e.id = id}
  IN {Combined(CHOOSE e \in Group(id) : TRUE, Group(id)) : id \in {e.id : e \in entries}}

(* _pick_winner: an HF repository, then an adopted id, an org, HF casing.   *)
Weight(e) ==
  (IF e.deferred THEN 16 ELSE 0) + (IF e.adopted THEN 8 ELSE 0) + (IF e.id \in Slashed THEN 4 ELSE 0)
    + (IF e.id \in Cased THEN 2 ELSE 0) + (IF e.reviewed THEN 1 ELSE 0)
Winner(group) == CHOOSE e \in group : \A o \in group :
  Weight(e) > Weight(o) \/ (Weight(e) = Weight(o) /\ Before[e.id] <= Before[o.id])

(* Entries with one normalized id, or one org and a shared name, are one, *)
(* and so are all that are linked by such pairs (union-find).               *)
SameModel(a, b) ==
  Norm[a.id] = Norm[b.id] \/ (a.org # None /\ a.org = b.org /\ Names[a.id] \cap Names[b.id] # {})
Linked(entries, S) == \A a \in S, b \in entries : SameModel(a, b) => b \in S
Class(entries, e) ==
  {o \in entries : \A S \in SUBSET entries : e \in S /\ Linked(entries, S) => o \in S}
Classes(entries) == {Class(entries, e) : e \in entries}

MergedClass(class, winner, to) ==
  LET Holding(p) == {e \in class : p \in DOMAIN e.parents}
      Giver(p) == IF winner \in Holding(p) THEN winner
                  ELSE CHOOSE e \in Holding(p) : \A o \in Holding(p) : Before[e.id] <= Before[o.id]
      edges == [p \in UNION {DOMAIN e.parents : e \in class} |-> Giver(p).parents[p]]
  IN [Combined(winner, class) EXCEPT !.parents = Redirected(edges, to)]
Collapsed(classes) ==
  LET Winning(id) == Winner(CHOOSE c \in classes : \E e \in c : e.id = id).id
      to == [id \in {e.id : e \in UNION classes} |-> Winning(id)]
  IN {MergedClass(c, Winner(c), to) : c \in classes}
OneEach(entries) == Collapsed(Classes(entries))

(* A form belongs to the entry whose id it spells; of several claimants the *)
(* one it names, or else the first, keeps it, as alias or as display name.  *)
OneOwnerEach(entries) ==
  LET ids == {e.id : e \in entries}
      Steals(f, id) == f # id /\ \E o \in ids \ {id} : o = f \/ Norm[o] = Norm[f]
      own == {[e EXCEPT !.aliases = {f \in @ : ~Steals(f, e.id)}] : e \in entries}
      Claimers(f) == {e.id : e \in {o \in own : f \in o.aliases \cup {o.name}}}
      Natural(f) == {c \in Claimers(f) : Norm[LastPart[c]] = Norm[f]}
      Keeper(f) == FirstOf(IF Natural(f) # {} THEN Natural(f) ELSE Claimers(f))
  IN {[e EXCEPT !.aliases = {f \in @ : Keeper(f) = e.id},
                !.name = IF Keeper(@) = e.id THEN @ ELSE LastPart[e.id]] : e \in own}

(* The entries of a catalog, with every OpenRouter key that is an id tagged *)
(* as adopted.                                                              *)
MintedEntries(catalog, hub, roots) == UNION {GroupEntries(g, hub, roots) : g \in MappedGroups(catalog)}

Generate(catalog, hub, roots) ==
  LET keys == {OrKey[r.raw] : r \in {c \in catalog : c.provider = "openrouter"}}
  IN {[e EXCEPT !.aliases = @ \ {e.id}, !.adopted = @ \/ (e.id \in keys /\ ~e.deferred)] :
        e \in OneOwnerEach(OneEach(Dedup(MergeBare(MintedEntries(catalog, hub, roots)))))}
=============================================================================
