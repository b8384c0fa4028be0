-------------------------- MODULE ModelsDevRefresh --------------------------
(***************************************************************************)
(* The daily models.dev job.  Step 1 builds the catalog's entries, carries  *)
(* the committed file forward onto them, one committed record at a time,    *)
(* and reconciles the result with every other source.  Step 2 splits the    *)
(* same entries against all of it into the catalog file and carries that    *)
(* file forward.  Step 3 mints the orgs they name.  The job takes three     *)
(* passes, requires the third to change nothing, and commits.  Between two  *)
(* jobs the catalog, the hub index and core.yaml may become anything.       *)
(***************************************************************************)
EXTENDS ModelsDevCatalog

CONSTANTS
  Days,     \* [catalog, hub, core, skip]: what models.dev lists, the hub
            \* index holds, core.yaml defines and core.yaml suppresses
  Families, \* ids that may be the root of several variants
  Heads,    \* files earlier versions of the job have committed
  Oracle, HubStats, Tier3, Enrichments, \* entries of the other sources
  Twin,     \* [Forms -> _]: org-aware collision key
  TwinExt,  \* [Forms -> _]: the same without order or brand
  Glued,    \* [Forms -> _]: the name without separators
  Unbranded,\* [Forms -> SUBSET _]: the same without leading brands
  Size,     \* [Forms -> _]: the sizes an id spells
  Lower,    \* [Forms -> _]
  Hosts,    \* forms whose prefix is a serving host
  CanonOrg, \* [orgs -> orgs]: the developer's canonical spelling
  MaxDays,  \* bound on the jobs
  MaxTurns  \* bound on the changes of iteration order

(* What the job has written: one record per id, in the catalog file one to  *)
(* mint and one to enrich.                                                  *)
OnePerId(entries) == \A d, e \in entries : d.id = e.id => d = e
Records(f) == f.full \cup Range(f.cat)
FileOK(f) ==
  /\ \A e \in Records(f) : IsEntry(e)
  /\ OnePerId(f.full)
  /\ \A m, n \in DOMAIN f.cat : f.cat[m].id = f.cat[n].id /\ f.cat[m].full = f.cat[n].full => m = n

ASSUME RefreshAssumption ==
  /\ MaxDays \in Nat /\ MaxTurns \in Nat
  /\ \A S \in {Oracle, HubStats, Tier3, Enrichments} \cup {d.core : d \in Days} :
       OnePerId(S) /\ \A e \in S : IsEntry(e)
  /\ \A d \in Days : IsCatalog(d.catalog) /\ d.hub \subseteq Forms
  /\ \A h \in Heads : FileOK(h) /\ h \in [full : {h.full}, cat : Seq(Range(h.cat)), orgs : SUBSET Orgs]
  /\ \A o \in Orgs : CanonOrg[o] \in Orgs /\ CanonOrg[CanonOrg[o]] = CanonOrg[o]
  /\ \A f, g \in Forms : Lower[f] = Lower[g] => Norm[f] = Norm[g]

VARIABLES
  today,        \* the day's upstream and core.yaml
  master,         \* committed files: [full, cat, orgs]
  tree,         \* the files of the working tree
  pc, pass,     \* step of the job and number of its pass
  before,       \* the files when the last pass began
  flip,         \* how this process iterates over a set of strings
  turns,        \* how often that has changed
  fresh,        \* entries as they entered the step, in file order
  slots,        \* the same entries as they now are
  left,         \* generated entries and committed records still to visit
  extra,        \* further records of the file, in file order
  claimed,       \* form -> the id that carries it forward (fresh_form_owner)
  index, wide,  \* who owns a form, in the step's sources and in all files
  renamed,      \* id -> the id that replaced it
  days

files == <<master, tree>>
order == <<flip, turns>>
work == <<fresh, slots, extra, claimed, index, wide, renamed>>
vars == <<today, files, pc, pass, before, order, left, work, days>>

FormsOf(e) == ({e.id, e.name} \cup e.aliases) \ {None}
At(map, f) == IF f \in DOMAIN map THEN map[f] ELSE None
Enrich(id, aliases, weak) == [Entry(id, None, None, aliases) EXCEPT !.full = FALSE, !.weak = weak]
Donated(e) == IF e.value # 0 THEN e.value ELSE e.weak
Kept(weak, given) == IF weak # 0 THEN weak ELSE given
First(S) == CHOOSE n \in S : \A m \in S : n <= m
Defined(sources) == {e.id : e \in {d \in Range(sources) : d.full}}

(* The elements of a sequence that are in S; a sequence sorted by ids, in   *)
(* which records of one id keep their order.                                *)
Only(seq, S) ==
  LET at == {n \in DOMAIN seq : seq[n] \in S}
  IN [k \in 1 .. Cardinality(at) |-> seq[InOrder(at, [n \in at |-> n])[k]]]
Sorted(seq) ==
  LET places == InOrder(DOMAIN seq, [n \in DOMAIN seq |-> Before[seq[n].id] * (Len(seq) + 1) + n])
  IN [k \in DOMAIN seq |-> seq[places[k]]]

(* Mutant: neither edges nor claims follow a rename.                        *)
FinalUnmoved(to) == NoMap

(* Renames are followed to the end before edges and claims are repointed.   *)
Final(to) ==
  LET Follow(map) == [i \in DOMAIN map |-> IF map[i] \in DOMAIN to THEN to[map[i]] ELSE map[i]]
      after[n \in Nat] == IF n = 0 THEN to ELSE Follow(after[n - 1])
  IN after[Cardinality(DOMAIN to)]

----------------------------------------------------------------------------
(* Who owns a form among some sources: the first record that carries it,    *)
(* exactly or else by its normal form.                                      *)
Skipped == today.skip
Active(entries) == {e \in entries : e.id \notin Skipped}
Independent == Listed(Active(Oracle)) \o Listed(Active(HubStats)) \o Listed(Active(Tier3))
                 \o Listed(today.core) \o Listed(Active(Enrichments))

NoIndex == [exact |-> NoMap, norm |-> NoMap, lower |-> NoMap]
Index(sources) ==
  LET Of(n) == FormsOf(sources[n])
      Owner(ns) == sources[First(ns)].id
      forms == UNION {Of(n) : n \in DOMAIN sources}
      ids == UNION {{e.id} \cup e.aliases : e \in Range(sources)}
  IN [exact |-> [f \in forms |-> Owner({n \in DOMAIN sources : f \in Of(n)})],
      norm |-> [m \in {Norm[f] : f \in forms} |->
                  Owner({n \in DOMAIN sources : \E f \in Of(n) : Norm[f] = m})],
      lower |-> [l \in {Lower[i] : i \in ids} |->
                   Owner({n \in DOMAIN sources : \E i \in {sources[n].id} \cup sources[n].aliases : Lower[i] = l})]]
OwnerIn(ix, f) == IF f \in DOMAIN ix.exact THEN ix.exact[f] ELSE At(ix.norm, Norm[f])
Steals(ix, f, id) == ~({At(ix.exact, f), At(ix.norm, Norm[f])} \subseteq {None, id})

(* The HF entry an entry is folded onto: one of its strings is an HF id, or *)
(* is declared by one of the developer, or names one, with or without the   *)
(* brand.  Names form a Python set, and the first that names one decides.   *)
HfIds == OracleIds \cup {e.id : e \in Active(Oracle)}
FoldTarget(e) ==
  LET strings == FormsOf(e)
      org == IF e.org # None THEN e.org ELSE Developer[e.id]
      others == HfIds \ {e.id}
      exact == strings \cap others
      declared == {h.id : h \in {x \in Active(Oracle) :
                     x.id \in others /\ FormsOf(x) \cap strings # {} /\ org \in {None, Developer[x.id]}}}
      own == {h \in others : org # None /\ Developer[h] = org}
      named == {h \in own : \E s \in strings : Glued[s] = Glued[h]}
      branded == {h \in own : \E s \in strings : Glued[h] \in Unbranded[s]}
      OneOf(ids) == IF flip THEN FirstOf(ids) ELSE CHOOSE h \in ids : \A o \in ids : Before[o] <= Before[h]
  IN IF exact # {} THEN FirstOf(exact) ELSE IF declared # {} THEN FirstOf(declared)
     ELSE IF named # {} THEN OneOf(named) ELSE IF branded # {} THEN OneOf(branded) ELSE None

(* Roots of several committed variants, and umbrellas: never deferred.      *)
Roots ==
  LET all == today.core \cup HubStats \cup Tier3 \cup tree.full
      Variants(p) == {e.id : e \in {c \in all : p \in DOMAIN c.parents /\ c.parents[p] = "variant"}}
  IN NonLineage \cup {p \in Families : Cardinality(Variants(p) \ {p}) > 1}

(* What each process generates.                                             *)
Generated ==
  {[from |-> <<d.catalog, d.hub, roots>>, entries |-> Listed(Generate(d.catalog, d.hub, roots))] :
     d \in {a \in Days : UnknownAuthors(a.catalog) = {}}, roots \in {NonLineage \cup f : f \in SUBSET Families}}

----------------------------------------------------------------------------
Init ==
  /\ today \in Days /\ master \in Heads /\ tree = master
  /\ pc = "idle" /\ pass = 0 /\ before = master /\ flip \in BOOLEAN /\ turns = 0 /\ left = <<>> /\ days = 0
  /\ fresh = <<>> /\ slots = <<>> /\ extra = <<>>
  /\ claimed = NoMap /\ index = NoIndex /\ wide = NoIndex /\ renamed = NoMap

(* Upstream and core.yaml change between two jobs: a job fetches once.      *)
NewDay ==
  /\ pc = "idle" /\ days < MaxDays /\ pc' = "full"
  /\ today' \in Days /\ tree' = master /\ pass' = 1 /\ before' = master /\ days' = days + 1
  /\ UNCHANGED <<master, order, left, work>>

(* Each step is a process of its own, which generates the entries anew.     *)
Produce ==
  /\ pc \in {"full", "catalog"} /\ UnknownAuthors(today.catalog) = {}
  /\ \E g \in Generated : g.from = <<today.catalog, today.hub, Roots>> /\ fresh' = g.entries
  /\ \/ UNCHANGED order
     \/ turns < MaxTurns /\ flip' = ~flip /\ turns' = turns + 1
  /\ pc' = IF pc = "full" THEN "load" ELSE "owners"
  /\ UNCHANGED <<today, files, pass, before, left, slots, extra, claimed, index, wide, renamed, days>>

StartCarry ==
  /\ pc = "load" /\ pc' = "carry"
  /\ slots' = fresh /\ left' = Listed(tree.full) /\ index' = Index(Independent)
  /\ claimed' = NoMap /\ extra' = <<>> /\ renamed' = NoMap
  /\ UNCHANGED <<today, files, pass, before, order, fresh, wide, days>>

(* A lab without an org stops the job.                                      *)
Refuse ==
  /\ pc = "full" /\ UnknownAuthors(today.catalog) # {} /\ pc' = "idle"
  /\ UNCHANGED <<today, files, pass, before, order, left, work, days>>

----------------------------------------------------------------------------
(* Step 1: each committed record is found again among the entries.          *)
Same(n, id) == fresh[n].id = id \/ slots[n].id = id

(* Of the entries that may be the same model, the one of its identity, or   *)
(* the only one of its size.                                                *)
Pick(id, near) ==
  LET sized == {n \in near : Size[slots[n].id] = Size[id]}
      exact == {n \in sized : Sig[slots[n].id] = Sig[id]}
  IN IF exact # {} THEN {CHOOSE n \in exact : \A m \in exact : Before[slots[n].id] <= Before[slots[m].id]}
     ELSE IF Cardinality(sized) = 1 THEN sized ELSE {}

Respelled(c) ==
  LET close == Pick(c.id, {n \in DOMAIN slots : Twin[fresh[n].id] = Twin[c.id]})
  IN IF ~c.full \/ c.id \in NonLineage THEN {}
     ELSE IF close # {} THEN close
     ELSE Pick(c.id, {n \in DOMAIN slots : TwinExt[fresh[n].id] = TwinExt[c.id]})

(* An entry generated with the committed id as an alias takes it over only  *)
(* from a serving host, or by being the HF repository of a mint.            *)
ByForm(c) ==
  {n \in DOMAIN slots :
    /\ c.full /\ c.id \notin NonLineage /\ c.id \in fresh[n].aliases
    /\ \/ c.id \in Hosts
       \/ /\ slots[n].deferred /\ ~c.deferred
          /\ c.id \in Roots => Sig[c.id] = Sig[slots[n].id]}

Found(c) == {n \in DOMAIN slots : Same(n, c.id)}
Visit == pc = "carry" /\ left # <<>> /\ left' = Tail(left)
Steady == UNCHANGED <<today, files, pc, pass, before, order, fresh, index, wide, days>>

(* Mutant: the committed aliases are left behind.                           *)
AbsorbForgets(n, c, id, more) ==
  /\ slots' = [slots EXCEPT ![n].id = id, ![n].aliases = @ \cup (more \ {id})]
  /\ claimed' = claimed ++ Owned(FormsOf(c), id)
  /\ extra' = extra /\ Steady

(* Its name and aliases stay with the entry, its forms with the entry's id. *)
Absorb(n, c, id, more) ==
  /\ slots' = [slots EXCEPT ![n].id = id, ![n].aliases =
        (@ \cup ((c.aliases \cup more) \ {id}) \cup ({c.name} \ {None, c.id, id, slots[n].name}))]
  /\ claimed' = claimed ++ Owned(FormsOf(c), id)
  /\ extra' = extra /\ Steady

CarrySame ==
  LET c == Head(left) IN
  /\ Visit /\ \E n \in Found(c) : Absorb(n, [c EXCEPT !.aliases = @ \ {c.id}], slots[n].id, {})
  /\ UNCHANGED renamed

(* A record core.yaml suppresses leaves its scalar to the owner of its id.  *)
CarrySkipped ==
  LET c == Head(left)
      owner == OwnerIn(index, c.id)
  IN /\ Visit /\ Found(c) = {} /\ c.id \in Skipped
     /\ extra' = IF Donated(c) = 0 \/ owner \in {None, c.id} THEN extra
                 ELSE Append(extra, Enrich(owner, {}, Donated(c)))
     /\ claimed' = claimed ++ Owned(FormsOf(c), c.id)
     /\ UNCHANGED <<slots, renamed>> /\ Steady

(* The committed id wins over a respelling that has no committed id yet,    *)
(* unless the respelling is an HF repository and the committed one is not.  *)
Promoted(n, c) == slots[n].deferred /\ ~c.deferred
KeepsIdOfHf(n, c) == n \in Respelled(c) /\ c.deferred /\ slots[n].id = fresh[n].id  \* mutant
KeepsId(n, c) == n \in Respelled(c) /\ ~Promoted(n, c) /\ slots[n].id = fresh[n].id

CarryRenamed ==
  LET c == Head(left) IN
  /\ Visit /\ Found(c) = {} /\ c.id \notin Skipped
  /\ \E n \in Respelled(c) : KeepsId(n, c) /\ Absorb(n, c, c.id, {slots[n].id})
       /\ renamed' = Owned({slots[n].id}, c.id) ++ renamed

CarryAbsorbed ==
  LET c == Head(left)
      near == IF Respelled(c) # {} THEN Respelled(c) ELSE ByForm(c)
  IN /\ Visit /\ Found(c) = {} /\ c.id \notin Skipped
     /\ \E n \in near : ~KeepsId(n, c) /\ Absorb(n, c, slots[n].id, {c.id})
          /\ renamed' = Owned({c.id}, slots[n].id) ++ renamed

(* What today's upstream no longer holds is kept, marked as removed.        *)
CarryGone ==
  LET c == Head(left) IN
  /\ Visit /\ Found(c) = {} /\ c.id \notin Skipped /\ Respelled(c) \cup ByForm(c) = {}
  /\ extra' = Append(extra, [c EXCEPT !.removed = @ \/ c.full])
  /\ claimed' = claimed ++ Owned(FormsOf(c), c.id)
  /\ UNCHANGED <<slots, renamed>> /\ Steady

----------------------------------------------------------------------------
(* Step 1, end: reconciliation with the other sources.  Every entry stays,  *)
(* or leaves its forms and its scalar to the entry that already is it.      *)
Everyone == Independent \o Only(tree.cat, Active(Range(tree.cat)))
InFull == Defined(Everyone \o fresh)

EndCarry ==
  /\ pc = "carry" /\ left = <<>> /\ pc' = "judge"
  /\ LET to == Final(renamed)
         all == slots \o extra
     IN /\ fresh' = [n \in DOMAIN all |-> [all[n] EXCEPT !.parents = Redirected(@, to)]]
        /\ claimed' = [f \in DOMAIN claimed |-> IF claimed[f] \in DOMAIN to THEN to[claimed[f]] ELSE claimed[f]]
  /\ left' = Sorted(fresh')
  /\ wide' = Index(Everyone) /\ slots' = <<>> /\ extra' = <<>> /\ renamed' = NoMap
  /\ UNCHANGED <<today, files, pass, before, order, index, days>>

(* The entry that e already is: a defined owner of its id, itself in        *)
(* another source, or an HF repository.                                     *)
Onto(e) ==
  IF OwnerIn(index, e.id) \in InFull \ {e.id} THEN OwnerIn(index, e.id)
  ELSE IF e.id \in Defined(Independent) THEN e.id
  ELSE IF e.id \in NonLineage THEN None ELSE FoldTarget(e)

(* An enrich record whose entry is gone: what is a defined owner of its id? *)
Orphan(e) == ~e.full /\ e.id \notin InFull
Heir(e) ==
  OwnerIn(Index(Only(Everyone, {o \in Range(Everyone) : o.id \in InFull})
                  \o Only(fresh, {o \in Range(fresh) : o.full})), e.id)

Judging == pc = "judge" /\ left # <<>> /\ left' = Tail(left)
Judged == UNCHANGED <<today, files, pc, pass, before, order, fresh, claimed, index, wide, days>>

Survive ==
  LET e == Head(left) IN
  /\ Judging /\ Onto(e) = None /\ ~Orphan(e) /\ slots' = Append(slots, e)
  /\ UNCHANGED <<extra, renamed>> /\ Judged

Suppress ==
  LET e == Head(left) IN
  /\ Judging
  /\ \E to \in {IF Onto(e) = None /\ Orphan(e) THEN Heir(e) ELSE Onto(e)} \ {None} :
       renamed' = Owned({e.id}, to) ++ renamed
  /\ extra' = Append(extra, e) /\ UNCHANGED slots /\ Judged

DropOrphan ==
  LET e == Head(left) IN
  /\ Judging /\ Onto(e) = None /\ Orphan(e) /\ Heir(e) = None
  /\ UNCHANGED <<slots, extra, renamed>> /\ Judged

EndJudge ==
  /\ pc = "judge" /\ left = <<>> /\ pc' = "give" /\ left' = extra /\ extra' = <<>>
  /\ UNCHANGED <<today, files, pass, before, order, fresh, slots, claimed, index, wide, renamed, days>>

(* The enrich record of id takes forms, and the scalar if it holds none.    *)
Into(id, forms, weak) ==
  LET held == {n \in DOMAIN extra : extra[n].id = id}
  IN IF held # {}
     THEN [extra EXCEPT ![First(held)].aliases = @ \cup forms, ![First(held)].weak = Kept(@, weak)]
     ELSE IF forms = {} /\ weak = 0 THEN extra ELSE Append(extra, Enrich(id, forms, weak))

(* A form that is another model's is not given away, unless that model's id *)
(* is itself carried forward by the receiver.                               *)
Elsewhere(f, id, to) ==
  LET near == OwnerIn(index, f)
      far == OwnerIn(wide, f)
  IN \/ near \notin {None, to} /\ (near \in InFull \/ At(claimed, near) # to)
     \/ far \notin {None, to, id} /\ At(claimed, far) # to
Siblings == {e.id : e \in Range(slots)}

Give ==
  LET e == Head(left)
      to == renamed[e.id]
      forms == {f \in FormsOf(e) \ {e.id, to} :
                  /\ ~Elsewhere(f, e.id, to) /\ f \notin Siblings
                  /\ At(claimed, f) \in {None, to, e.id}}
      spelled == {i \in {e.id} : Norm[i] # Norm[to]}
  IN /\ pc = "give" /\ left # <<>> /\ left' = Tail(left)
     /\ extra' = IF Elsewhere(e.id, e.id, to) THEN Into(to, forms, 0)
                 ELSE Into(to, forms \cup spelled, Donated(e))
     /\ UNCHANGED <<today, files, pc, pass, before, order, fresh, slots, claimed, index, wide, renamed, days>>

EndGive ==
  /\ pc = "give" /\ left = <<>> /\ pc' = "keep" /\ left' = slots
  /\ UNCHANGED <<today, files, pass, before, order, work, days>>

(* Mutant: forms that another survivor has claimed are kept.                *)
ForeignUnclaimed(f, id) == OwnerIn(wide, f) \notin {None, id}

(* Survivors, in the order of their ids, keep the aliases nobody else owns  *)
(* or claimed before; a display name that is someone's is derived anew.     *)
Foreign(f, id) ==
  LET near == OwnerIn(index, f)
      far == OwnerIn(wide, f)
  IN \/ near \notin {None, id} /\ (near \in InFull \/ At(claimed, near) # id)
     \/ far \notin {None, id} /\ id \notin {At(claimed, far), At(claimed, f)}
     \/ f \in Siblings \ {id} \/ At(claimed, f) \notin {None, id}

Keep ==
  LET e == Head(left)
      own == {f \in e.aliases \ {e.id} : ~Foreign(f, e.id)}
      name == IF e.name = None \/ ~Foreign(e.name, e.id) THEN e.name
              ELSE IF Foreign(LastPart[e.id], e.id) THEN e.id ELSE LastPart[e.id]
      spelled == {name} \ {e.name, e.id}
  IN /\ pc = "keep" /\ left # <<>> /\ left' = Tail(left)
     /\ slots' = [slots EXCEPT ![1 + Len(slots) - Len(left)] =
                    [e EXCEPT !.aliases = own \cup spelled, !.name = name, !.parents = Redirected(@, renamed)]]
     /\ claimed' = claimed ++ Owned(own, e.id)
     /\ UNCHANGED <<today, files, pc, pass, before, order, fresh, extra, index, wide, renamed, days>>

(* Records of one id become one: the full one, if there is one.             *)
Consolidated(recs) ==
  LET Of(id) == {n \in DOMAIN recs : recs[n].id = id}
      Lead(id) == LET full == {n \in Of(id) : recs[n].full}
                  IN recs[First(IF full # {} THEN full ELSE Of(id))]
      Weak(id) == LET given == {n \in Of(id) : recs[n].weak # 0}
                  IN IF Lead(id).full \/ given = {} THEN Lead(id).weak ELSE recs[First(given)].weak
  IN {[Lead(id) EXCEPT !.aliases = UNION {recs[n].aliases : n \in Of(id)} \ {id}, !.weak = Weak(id)] :
        id \in {r.id : r \in Range(recs)}}

CanonicalAsIs(e) == e  \* mutant: the org keeps its spelling
Canonical(e) == IF e.org = None THEN e ELSE [e EXCEPT !.org = CanonOrg[@]]

WriteFull ==
  /\ pc = "keep" /\ left = <<>> /\ pc' = "catalog"
  /\ tree' = [tree EXCEPT !.full = {Canonical(e) : e \in Consolidated(slots \o extra)}]
  /\ UNCHANGED <<today, master, pass, before, order, left, work, days>>

----------------------------------------------------------------------------
(* Step 2: the same entries, each one enriching its owner or minted.        *)
StartSplit ==
  /\ pc = "owners" /\ pc' = "split" /\ left' = fresh /\ fresh' = <<>> /\ slots' = <<>>
  /\ LET sources == Listed(Active(Oracle)) \o Listed(Active(tree.full)) \o Listed(Active(HubStats))
                      \o Listed(Active(Tier3)) \o Listed(today.core) \o Listed(Active(Enrichments))
         mine == Only(tree.cat, {c \in Active(Range(tree.cat)) : c.full \/ c.id \in Defined(sources)})
     IN /\ index' = Index(Only(sources, {e \in Range(sources) : e.id \in Defined(sources)}))
        /\ claimed' = Index(mine).exact
  /\ extra' = <<>> /\ renamed' = NoMap
  /\ UNCHANGED <<today, files, pass, before, order, wide, days>>

Next1 == left' = Tail(left) /\ UNCHANGED <<today, files, pc, pass, before, order, days>>

(* _enrich_target: the forms nobody else owns or claimed go to the enrich    *)
(* record of id, the scalar too if it holds none.                           *)
EnrichTarget(id, forms, donors, weak) ==
  LET keep == {f \in forms \ {id} : ~Steals(index, f, id) /\ At(claimed, f) \in {None, id} \cup donors}
  IN /\ claimed' = Owned(keep, id) ++ claimed /\ extra' = Into(id, keep, weak)
     /\ UNCHANGED <<fresh, slots, index, wide, renamed>>

OwnerOf(e) ==
  IF Lower[e.id] \in DOMAIN index.lower THEN index.lower[Lower[e.id]]
  ELSE IF OwnerIn(index, e.id) # None THEN OwnerIn(index, e.id)
  ELSE IF At(index.exact, e.name) # None THEN index.exact[e.name]
  ELSE FoldTarget(e)

SplitEnrich ==
  LET e == Head(left)
      own == IF Lower[e.id] \in DOMAIN index.lower THEN {} ELSE {e.id}
  IN /\ pc = "split" /\ left # <<>> /\ Next1 /\ OwnerOf(e) # None
     /\ EnrichTarget(OwnerOf(e), own \cup e.aliases, {}, Donated(e))

(* An id that is a committed entry's form is not minted.                    *)
SplitClaimed ==
  LET e == Head(left) IN
  /\ pc = "split" /\ left # <<>> /\ Next1 /\ OwnerOf(e) = None
  /\ At(claimed, e.id) \notin {None, e.id} /\ UNCHANGED work

Enter(e) == fresh' = Append(fresh, e) /\ slots' = Append(slots, e)

SplitMint ==
  LET e == Head(left)
      Taken(f) == At(index.exact, f) # None \/ At(claimed, f) \notin {None, e.id}
      own == {f \in e.aliases \ {e.id} : ~Steals(index, f, e.id) /\ At(claimed, f) \in {None, e.id}}
      name == IF ~Taken(e.name) THEN e.name ELSE IF Taken(LastPart[e.id]) THEN e.id ELSE LastPart[e.id]
      spelled == IF name \in {e.name, e.id} THEN {} ELSE {name}
      minted == [e EXCEPT !.aliases = own \cup spelled, !.name = name]
  IN /\ pc = "split" /\ left # <<>> /\ Next1 /\ OwnerOf(e) = None
     /\ At(claimed, e.id) \in {None, e.id} /\ Enter(minted)
     /\ claimed' = claimed ++ Owned(FormsOf(minted), e.id)
     /\ index' = [index EXCEPT !.exact = @ ++ Owned(FormsOf(minted), e.id),
                               !.norm = @ ++ Owned({Norm[f] : f \in FormsOf(minted)}, e.id)]
     /\ UNCHANGED <<extra, wide, renamed>>

StartUnion ==
  /\ pc = "split" /\ left = <<>> /\ pc' = "union" /\ left' = tree.cat
  /\ UNCHANGED <<today, files, pass, before, order, work, days>>

(* Mutant: respellings only, whatever the size.                             *)
PriorTwin(c) ==
  LET close == {n \in DOMAIN slots : Twin[fresh[n].id] = Twin[c.id]}
  IN IF close = {} THEN {} ELSE {First(close)}

(* The entry a committed one is found in: its own id, whatever the casing,  *)
(* or the first respelling, if that has its size.                           *)
Prior(c) ==
  LET lower == {n \in DOMAIN slots : Lower[c.id] \in {Lower[fresh[n].id], Lower[slots[n].id]}}
      close == {n \in DOMAIN slots : Twin[fresh[n].id] = Twin[c.id]}
      loose == {n \in DOMAIN slots : TwinExt[fresh[n].id] = TwinExt[c.id]}
      near == IF close # {} THEN close ELSE loose
  IN IF lower # {} THEN {First(lower)}
     ELSE IF ~c.full \/ near = {} THEN {}
     ELSE {n \in {First(near)} : Size[slots[n].id] = Size[c.id]}

Visited == pc = "union" /\ left # <<>> /\ Next1

(* _union_back: the forms of c nobody else owns or claimed.                  *)
Regained(rec, c, donor, own, ix) ==
  {f \in (c.aliases \cup {c.name, donor}) \ (FormsOf(rec) \cup {None}) :
     ~Steals(ix, f, rec.id) /\ At(own, f) \in {None, rec.id, donor}}

UnionSkipped ==
  LET c == Head(left)
      owner == OwnerIn(index, c.id)
  IN /\ Visited /\ c.id \in Skipped
     /\ IF owner \in {None, c.id} THEN UNCHANGED work ELSE EnrichTarget(owner, {}, {}, Donated(c))

(* The committed id wins, as in step 1; what was known under the respelling *)
(* is known under it.                                                       *)
UnionRenamed ==
  LET c == Head(left)
      To(map, old) == [f \in DOMAIN map |-> IF map[f] = old THEN c.id ELSE map[f]]
  IN /\ Visited /\ c.id \notin Skipped
     /\ \E n \in Prior(c) :
          LET old == slots[n].id
              own == Owned({old}, c.id) ++ To(claimed, old)
              ix == [index EXCEPT !.exact = To(@, old), !.norm = To(@, old)]
              rec == [slots[n] EXCEPT !.id = c.id, !.aliases = @ \cup {old}]
              back == Regained(rec, c, old, own, ix)
          IN /\ old # c.id /\ ~Promoted(n, c) /\ old = fresh[n].id
             /\ slots' = [slots EXCEPT ![n] = [rec EXCEPT !.aliases = @ \cup back]]
             /\ claimed' = Owned(back, c.id) ++ own /\ index' = ix
             /\ renamed' = Owned({old}, c.id) ++ renamed
     /\ UNCHANGED <<fresh, extra, wide>>

UnionMerged ==
  LET c == Head(left) IN
  /\ Visited /\ c.id \notin Skipped
  /\ \E n \in Prior(c) :
       LET rec == slots[n]
           donor == IF rec.id = c.id THEN None ELSE c.id
           back == Regained(rec, c, donor, claimed, index)
       IN /\ rec.id = c.id \/ Promoted(n, c) \/ rec.id # fresh[n].id
          /\ slots' = [slots EXCEPT ![n].aliases = @ \cup back]
          /\ claimed' = Owned(back, rec.id) ++ claimed
          /\ renamed' = IF donor = None THEN renamed ELSE Owned({c.id}, rec.id) ++ renamed
  /\ UNCHANGED <<fresh, extra, index, wide>>

Enriching(c) == {n \in DOMAIN extra : extra[n].id = c.id}
Unmatched(c) == Visited /\ c.id \notin Skipped /\ Prior(c) = {}

UnionEnriching ==
  LET c == Head(left) IN
  /\ Unmatched(c)
  /\ \E n \in Enriching(c) :
       LET back == Regained(extra[n], c, None, claimed, index) IN
       /\ extra' = [extra EXCEPT ![n].aliases = @ \cup back, ![n].weak = Kept(@, Donated(c))]
       /\ claimed' = Owned(back, c.id) ++ claimed
  /\ UNCHANGED <<fresh, slots, index, wide, renamed>>

UnionOwned ==
  LET c == Head(left)
      owner == OwnerIn(index, c.id)
      own == IF owner = c.id THEN {} ELSE {c.id}
  IN /\ Unmatched(c) /\ Enriching(c) = {} /\ owner # None
     /\ EnrichTarget(owner, own \cup c.aliases \cup ({c.name} \ {None}), own, Donated(c))

(* A mint nobody took over is kept; an enrich record without owner is not.  *)
UnionRetained ==
  LET c == Head(left) IN
  /\ Unmatched(c) /\ Enriching(c) = {} /\ OwnerIn(index, c.id) = None
  /\ IF c.full THEN Enter([c EXCEPT !.removed = TRUE]) /\ claimed' = claimed ++ Owned(FormsOf(c), c.id)
     ELSE UNCHANGED <<fresh, slots, claimed>>
  /\ UNCHANGED <<extra, index, wide, renamed>>

WriteCatalog ==
  /\ pc = "union" /\ left = <<>>
  /\ LET to == Final(renamed)
         out == [n \in DOMAIN slots |-> [Canonical(slots[n]) EXCEPT !.parents = Redirected(@, to)]]
     IN tree' = [tree EXCEPT !.cat = out \o extra,
                             !.orgs = @ \cup ({e.org : e \in Range(out)} \ ({None} \cup KnownOrgs))]
  /\ pc' = "orgs" /\ UNCHANGED <<today, master, pass, before, order, left, work, days>>

----------------------------------------------------------------------------
(* Step 3: every org that is named exists, no two under one spelling.       *)
ReconcileOrgs ==
  /\ pc = "orgs"
  /\ LET all == Independent \o Listed(tree.full) \o tree.cat
         named == {CanonOrg[o] : o \in {e.org : e \in Range(all)} \ {None}}
         stale == {o \in tree.orgs \ named : CanonOrg[o] \in named}
     IN tree' = [tree EXCEPT !.orgs = (@ \ stale) \cup (named \ KnownOrgs)]
  /\ IF pass = 3 THEN pc' = "verify" /\ UNCHANGED pass ELSE pc' = "full" /\ pass' = pass + 1
  /\ before' = IF pass = 2 THEN tree' ELSE before
  /\ UNCHANGED <<today, master, order, left, work, days>>

(* The third pass must have changed nothing; then the gate may still stop   *)
(* the job.                                                                 *)
Verify ==
  /\ pc = "verify" /\ pc' \in (IF tree = before THEN {"commit", "idle"} ELSE {"idle"})
  /\ UNCHANGED <<today, files, pass, before, order, left, work, days>>

Commit ==
  /\ pc = "commit" /\ pc' = "idle" /\ master' = tree
  /\ UNCHANGED <<today, tree, pass, before, order, left, work, days>>

Next ==
  \/ NewDay \/ Produce \/ Refuse \/ StartCarry
  \/ CarrySame \/ CarrySkipped \/ CarryRenamed \/ CarryAbsorbed \/ CarryGone \/ EndCarry
  \/ Survive \/ Suppress \/ DropOrphan \/ EndJudge \/ Give \/ EndGive \/ Keep \/ WriteFull
  \/ StartSplit \/ SplitEnrich \/ SplitClaimed \/ SplitMint \/ StartUnion
  \/ UnionSkipped \/ UnionRenamed \/ UnionMerged \/ UnionEnriching \/ UnionOwned \/ UnionRetained
  \/ WriteCatalog \/ ReconcileOrgs \/ Verify \/ Commit

Spec == Init /\ [][Next]_vars

----------------------------------------------------------------------------
(* What the job has to preserve.  The job's files are merged with the other *)
(* sources: Merged(f) is what the seed command would load from files f.     *)
Merged(f) == Range(Independent) \cup {e \in Records(f) : e.id \notin Skipped}
Known(f) == {e.id : e \in {d \in Merged(f) : d.full}}
Spellings(es) == UNION {FormsOf(e) : e \in es}

(* The files hold one record per id, every record is well typed, and what   *)
(* is committed names no org that was not minted (_write_yaml,              *)
(* reconcile_all_orgs).                                                     *)
TypeOK ==
  /\ pc \in {"idle", "full", "load", "carry", "judge", "give", "keep", "catalog", "owners", "split",
             "union", "orgs", "verify", "commit"}
  /\ pass \in 0 .. 3 /\ turns \in 0 .. MaxTurns /\ days \in 0 .. MaxDays
  /\ FileOK(master) /\ FileOK(tree)
  /\ pc \in {"verify", "commit"} =>
       \A e \in Records(tree) : e.org \in {None} \cup KnownOrgs \cup tree.orgs

(* The third pass finds what the second one left, on every day and from     *)
(* every committed state, as long as the processes iterate over their sets  *)
(* alike ("require byte-identical outputs", refresh-models.yml).            *)
Settles == pc = "verify" /\ turns = 0 => tree = before

(* A commit never loses a spelling: every form that a committed entry       *)
(* answers to is, after the commit, a form of some entry again, whatever    *)
(* upstream removed, respelled or moved to the hub meanwhile.  Enrich       *)
(* records whose entry no source defines any more are dropped, loudly.      *)
FormsKept ==
  [][Commit => Spellings({e \in Records(master) : e.id \notin Skipped /\ (e.full \/ e.id \in Known(tree))})
                 \subseteq Spellings(Merged(tree))]_vars

(* What is committed never claims one form for two models, neither between  *)
(* the two files nor against another source.  The exception the code makes  *)
(* is a catalog mint that upstream removed: it keeps its forms as they are, *)
(* whatever core.yaml has given away since (regenerate_catalog, retained).  *)
OneOwner ==
  pc = "commit" /\ turns = 0 =>
    LET live == {e \in Merged(tree) : ~(e \in Range(tree.cat) /\ e.full /\ e.removed)}
    IN \A d, e \in live : d.id # e.id => FormsOf(d) \cap FormsOf(e) = {}

(* A committed id goes away only to become an alias, of an HF repository    *)
(* or of an entry another source defines: no respelling of upstream's ever  *)
(* renames a model.  Core may suppress an id, and hosts' ids are moved.     *)
StableIds ==
  [][Commit => \A e \in master.full :
       e.full /\ e.id \notin Skipped \cup Hosts \cup {d.id : d \in tree.full} =>
         \E d \in Merged(tree) : e.id \in d.aliases /\ (d.deferred \/ d.id \in Defined(Independent))]_vars

(* Renames and suppressions take the lineage along: every parent edge of    *)
(* what is committed ends at an entry that some source defines.             *)
EdgesLand ==
  pc = "commit" => \A e \in Merged(tree) : DOMAIN e.parents \subseteq Known(tree)
=============================================================================
