----------------------------- MODULE SeedCommand -----------------------------
(***************************************************************************)
(* The seed command of cli.py over the tables that syncs also write: the    *)
(* upsert of the merged YAML, the aliases it claims, the lineage derivation *)
(* and --prune-stale, for models and their organisations.  Curators edit    *)
(* the YAML and syncs run in between.  A seed is one process and uploads at *)
(* its end, so it is one action; one that raises uploads nothing.           *)
(***************************************************************************)
EXTENDS ModelLineage

CONSTANTS
  Names,     \* spellings that are no model's id
  NoName,
  Leaf,      \* name part of a model's id as a spelling, NoName if none uses it
  Labs,      \* organisations of kind lab
  Snapshots, \* contents the seed directory may have at first
  Drafts,    \* model ids a sync may mint
  DraftEdges, \* edge sets a sync may infer for a draft
  MaxEdits,  \* bound on the curators' edits
  MaxSyncs   \* bound on the raw values synced

Raws == Models \cup Names
Scopes == {"global", "config"}
Keys == Raws \X Scopes

\* A merged YAML entry.  The columns of keys the entry lacks are left alone.
Optional == {"parents", "org", "open"}
Entries == [absent : SUBSET Optional, parents : SUBSET [id : Models, kind : Kinds],
            org : Orgs \cup {NoOrg}, open : Openness, reviewed : BOOLEAN,
            display : Names \cup {NoName}, names : SUBSET Names, scoped : SUBSET Names]

WellFormed(y) ==
  /\ y.entries \in [DOMAIN y.entries -> Entries] /\ DOMAIN y.entries \subseteq Models
  /\ y.orgs \subseteq Orgs

ASSUME SeedAssumption ==
  /\ Names \cap Models = {}
  /\ \A y \in Snapshots : WellFormed(y)
  /\ Drafts \subseteq Models /\ DraftEdges \subseteq SUBSET [id : Models, kind : Kinds]
  /\ MaxEdits \in Nat /\ MaxSyncs \in Nat

NoAlias == [target |-> NoModel, seeded |-> FALSE]

VARIABLES
  yaml,      \* [entries: id -> entry, orgs: listed organisations]
  models,    \* canonical_models: id -> row
  orgs,      \* canonical_orgs; draftOrgs: the rows still in review
  draftOrgs,
  aliases,   \* aliases table by <<raw, scope>>; seeded: strategy is "seed"
  cited,     \* model ids eval_results rows name
  last,      \* the last writer: "seed", "prune" (a seed that pruned), "other"
  edits, syncs

tables == <<models, orgs, draftOrgs, aliases>>
vars == <<yaml, tables, cited, last, edits, syncs>>

Listed == DOMAIN yaml.entries
Entry(m) == yaml.entries[m]
-----------------------------------------------------------------------------
(* Who owns a name.                                                        *)

DevOf(m) ==
  IF "org" \notin Entry(m).absent /\ Entry(m).org # NoOrg THEN Entry(m).org ELSE PrefixOrg[m]
IsLab(m) == DevOf(m) \in Labs \cap yaml.orgs
Confirmed(m) == PrefixOrg[m] # NoOrg /\ Entry(m).reviewed

Claimants(name) == {m \in Listed : Leaf[m] = name /\ Confirmed(m)}
LabClaimants(name) == {m \in Claimants(name) : IsLab(m)}

\* What test_gate_invariants.py demands before a YAML ships: organisations of
\* entries exist (469), and no two lab models own one name (1329).
Curated ==
  /\ \A m \in Listed : Entry(m).org \in yaml.orgs \cup {NoOrg}
  /\ \A name \in Names : \A l, k \in LabClaimants(name) : l = k

\* A community model's display name gives way to a name a lab model seeds.
LabNames == UNION {Entry(m).names \cup {Entry(m).display} : m \in {x \in Listed : IsLab(x)}}
Shown(m) ==
  LET name == Entry(m).display IN
  IF name = NoName \/ (name \in LabNames /\ ~IsLab(m)) THEN {} ELSE {name}
Spellings(m) == {m} \cup Entry(m).names \cup Shown(m)

\* The model a global name an entry claims is seeded for: the lab model whose
\* leaf it is, unless the claimant belongs to another lab; else, for an
\* unconfirmed draft, the only confirmed model with that leaf.
Target(m, raw) ==
  IF raw \in Models THEN m ELSE
  IF \E l \in LabClaimants(raw) : l # m /\ (IsLab(m) => DevOf(l) = DevOf(m))
  THEN CHOOSE l \in LabClaimants(raw) : TRUE
  ELSE IF ~IsLab(m) /\ ~Confirmed(m) /\ Cardinality(Claimants(raw)) = 1
  THEN CHOOSE c \in Claimants(raw) : TRUE
  ELSE m

Claims ==
  UNION {{[key |-> <<raw, "global">>, target |-> Target(m, raw)] : raw \in Spellings(m)}
         \cup {[key |-> <<raw, "config">>, target |-> m] : raw \in Entry(m).scoped} : m \in Listed}

\* The seed refuses two owners for one name in one pass.
Unambiguous(claims) == \A a, b \in claims : a.key = b.key => a.target = b.target
-----------------------------------------------------------------------------
(* The steps of one seed.                                                  *)

NewRow == [parents |-> {}, org |-> NoOrg, open |-> "unset", reviewed |-> FALSE,
           group |-> NoModel, family |-> NoModel, origin |-> NoModel, originOrg |-> NoOrg]

\* upsert_entity writes the keys the entry has.
Written(row, e) ==
  [row EXCEPT !.parents = IF "parents" \in e.absent THEN @ ELSE e.parents,
              !.org = IF "org" \in e.absent THEN @ ELSE e.org,
              !.open = IF "open" \in e.absent THEN @ ELSE e.open,
              !.reviewed = e.reviewed]

Upserted ==
  [m \in DOMAIN models \cup Listed |->
     IF m \notin Listed THEN models[m]
     ELSE Written(IF m \in DOMAIN models THEN models[m] ELSE NewRow, Entry(m))]

\* Mutant of ClaimedAliases: a name that is taken stays where it is.
ClaimedAliasesIfFree(claims) ==
  [k \in Keys |->
     LET owner == {c.target : c \in {x \in claims : x.key = k}} IN
     IF owner = {} \/ aliases[k] # NoAlias THEN aliases[k]
     ELSE [target |-> CHOOSE m \in owner : TRUE, seeded |-> TRUE]]
\* A claimed name is added, or repointed to its owner.
ClaimedAliases(claims) ==
  [k \in Keys |->
     LET owner == {c.target : c \in {x \in claims : x.key = k}} IN
     IF owner = {} \/ owner = {aliases[k].target} THEN aliases[k]
     ELSE [target |-> CHOOSE m \in owner : TRUE, seeded |-> TRUE]]

\* --prune-stale, aliases: a seed alias the YAML no longer claims for its
\* target goes.
KeptAliases(rows, claims) ==
  [k \in Keys |->
     IF rows[k].seeded /\ [key |-> k, target |-> rows[k].target] \notin claims THEN NoAlias
     ELSE rows[k]]

\* Mutant of StaleOrgs: references are not looked at.
StaleOrgsReferenced(rows, all) == all \ (draftOrgs \cup yaml.orgs)
\* --prune-stale, organisations: unlisted reviewed rows no model refers to go.
StaleOrgs(rows, all) ==
  {o \in all \ draftOrgs :
     /\ o \notin yaml.orgs
     /\ \A m \in DOMAIN rows : o \notin {rows[m].org, rows[m].originOrg}}

\* --prune-stale, models: unlisted reviewed rows go unless an alias that is
\* not the seed's names them.
StaleModels(rows, kept) ==
  {m \in DOMAIN rows \ Listed :
     rows[m].reviewed /\ \A k \in Keys : kept[k].target = m => kept[k].seeded}

\* Without entries of a kind its rows are neither seeded nor pruned.
Seed(prune) ==
  /\ \E claims \in {Claims}, derived \in {Derived(Upserted)} :
     \E claimed \in {ClaimedAliases(claims)} :
     \E kept \in {IF prune /\ Listed # {} THEN KeptAliases(claimed, claims) ELSE claimed} :
       LET allOrgs == orgs \cup yaml.orgs \cup PrefixOrgsUsed(Upserted)
           goneOrgs == IF prune /\ yaml.orgs # {} THEN StaleOrgs(derived, allOrgs) ELSE {}
           goneModels == IF prune /\ Listed # {} THEN StaleModels(derived, kept) ELSE {}
       IN /\ Unambiguous(claims)
          /\ models' = [m \in DOMAIN derived \ goneModels |-> derived[m]]
          /\ orgs' = allOrgs \ goneOrgs
          /\ draftOrgs' = draftOrgs \ yaml.orgs
          /\ aliases' = [k \in Keys |-> IF kept[k].target \in goneModels THEN NoAlias ELSE kept[k]]
  /\ last' = IF prune THEN "prune" ELSE "seed"
  /\ UNCHANGED <<yaml, cited, edits, syncs>>
-----------------------------------------------------------------------------
(* Between seeds.                                                          *)

\* A synced raw value an alias answers: the result cites the model and no
\* alias is written.
SyncKnown(raw) ==
  /\ syncs < MaxSyncs
  /\ LET key == IF aliases[<<raw, "config">>] # NoAlias THEN <<raw, "config">> ELSE <<raw, "global">>
     IN /\ aliases[key] # NoAlias
        /\ cited' = cited \cup {aliases[key].target}
  /\ syncs' = syncs + 1
  /\ UNCHANGED <<yaml, tables, last, edits>>

\* Another spelling of a known model: a strategy matches it, and the run's
\* config gets an alias.
SyncMatched(name, m) ==
  /\ syncs < MaxSyncs
  /\ \A s \in Scopes : aliases[<<name, s>>] = NoAlias
  /\ m \in DOMAIN models
  /\ aliases' = [aliases EXCEPT ![<<name, "config">>] = [target |-> m, seeded |-> FALSE]]
  /\ cited' = cited \cup {m}
  /\ last' = "other" /\ syncs' = syncs + 1
  /\ UNCHANGED <<yaml, models, orgs, draftOrgs, edits>>

\* An unknown model: a draft with its alias and organisation, reviewed when HF
\* confirms it, with edges to models of the table only.
SyncDraft(m, confirmed, edges) ==
  /\ syncs < MaxSyncs
  /\ m \in Drafts \ DOMAIN models
  /\ \A e \in edges : e.id \in DOMAIN models
  /\ \A s \in Scopes : aliases[<<m, s>>] = NoAlias
  /\ models' = [x \in DOMAIN models \cup {m} |->
       IF x = m THEN [NewRow EXCEPT !.parents = edges, !.org = PrefixOrg[m], !.reviewed = confirmed]
       ELSE models[x]]
  /\ orgs' = orgs \cup ({PrefixOrg[m]} \ {NoOrg})
  /\ draftOrgs' = IF confirmed THEN draftOrgs ELSE draftOrgs \cup (orgs' \ orgs)
  /\ aliases' = [aliases EXCEPT ![<<m, "config">>] = [target |-> m, seeded |-> FALSE]]
  /\ cited' = cited \cup {m}
  /\ last' = "other" /\ syncs' = syncs + 1
  /\ UNCHANGED <<yaml, edits>>

Edit(entries, listedOrgs) ==
  /\ edits < MaxEdits
  /\ edits' = edits + 1
  /\ yaml' = [entries |-> entries, orgs |-> listedOrgs]
  /\ last' = "other"
  /\ UNCHANGED <<tables, cited, syncs>>

\* Curators drop a model or an organisation, move a name, or mark a model's
\* weights closed.
DropModel(m) ==
  /\ m \in Listed
  /\ \A x \in Listed : \A e \in Entry(x).parents : e.id # m
  /\ Edit([x \in Listed \ {m} |-> Entry(x)], yaml.orgs)
DropOrg(o) ==
  /\ o \in yaml.orgs
  /\ \A m \in Listed : Entry(m).org # o
  /\ Edit(yaml.entries, yaml.orgs \ {o})
MoveName(name, m) ==
  /\ m \in Listed
  /\ Edit([x \in Listed |-> [Entry(x) EXCEPT !.names = IF x = m THEN @ \cup {name} ELSE @ \ {name}]],
          yaml.orgs)
Close(m) ==
  /\ m \in Listed /\ Entry(m).open # "closed"
  /\ Edit([yaml.entries EXCEPT ![m].open = "closed", ![m].absent = @ \ {"open"}], yaml.orgs)

Init ==
  /\ yaml \in Snapshots /\ Curated
  /\ models = [m \in {} |-> NoModel]
  /\ orgs = {} /\ draftOrgs = {}
  /\ aliases = [k \in Keys |-> NoAlias]
  /\ cited = {} /\ last = "other" /\ edits = 0 /\ syncs = 0

Next ==
  \/ \E prune \in BOOLEAN : Seed(prune)
  \/ \E raw \in Raws : SyncKnown(raw)
  \/ \E name \in Names, m \in Models : SyncMatched(name, m)
  \/ \E m \in Drafts, confirmed \in BOOLEAN :
       \E edges \in DraftEdges : SyncDraft(m, confirmed, edges)
  \/ \E m \in Models : DropModel(m)
  \/ \E o \in Orgs : DropOrg(o)
  \/ \E name \in Names, m \in Models : MoveName(name, m)
  \/ \E m \in Models : Close(m)

Spec == Init /\ [][Next]_vars
-----------------------------------------------------------------------------
\* Aliases name models that have a row, and models name organisations that
\* have one, although a pruning seed deletes rows of all three tables and
\* syncs add to them.
ReferencesClosed ==
  /\ \A k \in Keys : aliases[k].target \in DOMAIN models \cup {NoModel}
  /\ \A m \in DOMAIN models : {models[m].org, models[m].originOrg} \subseteq orgs \cup {NoOrg}

TypeOK ==
  /\ WellFormed(yaml)
  /\ models \in [DOMAIN models -> Rows] /\ DOMAIN models \subseteq Models
  /\ draftOrgs \subseteq orgs /\ orgs \subseteq Orgs
  /\ aliases \in [Keys -> [target : Models \cup {NoModel}, seeded : BOOLEAN]]
  /\ cited \subseteq Models
  /\ last \in {"seed", "prune", "other"} /\ edits \in 0 .. MaxEdits /\ syncs \in 0 .. MaxSyncs
  /\ ReferencesClosed

Derivation == last \in {"seed", "prune"}

\* test_gate_invariants.py 768: scores of two developers are never merged.
\* Whatever the edges, the group and the family of a model have its developer.
OneDeveloper ==
  Derivation => \A m \in DOMAIN models :
    \A root \in {models[m].group, models[m].family} \cap DOMAIN models :
      models[root].org = models[m].org

\* canonical_store.py 421: ancestry goes from the immediate parent up to the
\* root.  Over a curated graph the groups and families a seed without pruning
\* leaves are partitions, each group lies in one family, and the origin of
\* weights is an origin itself.
HierarchyNests ==
  last = "seed" /\ IsTree(models) => \A m \in DOMAIN models :
    LET row == models[m] IN
    /\ models[row.group].group = row.group
    /\ models[row.family].family = row.family
    /\ models[row.group].family = row.family
    /\ row.origin # NoModel => models[row.origin].origin = NoModel

\* Groups and families never cross developers, and they nest.
HierarchySound == OneDeveloper /\ HierarchyNests

\* After a seed every listed id and every name an entry claims is an alias,
\* whatever rows syncs and earlier YAML left; an id names its own model, and a
\* lab model's leaf names it or a model of another lab.
NamesFollowCuration ==
  Derivation => \A m \in Listed :
    /\ aliases[<<m, "global">>].target = m
    /\ \A name \in Entry(m).names :
         LET owner == aliases[<<name, "global">>].target IN
         /\ owner \in Listed
         /\ \A l \in LabClaimants(name) : owner = l \/ (IsLab(owner) /\ DevOf(owner) # DevOf(l))
    /\ \A name \in Entry(m).scoped : aliases[<<name, "config">>].target = m

\* refresh_from_modelsdev.py 33: the seed is idempotent.  Seeding the same
\* YAML again, without pruning in between, changes no row: what the first pass
\* derived and redirected is not read back as something else by the second.
ReseedChangesNothing == [][last = "seed" /\ last' = "seed" => UNCHANGED tables]_vars

\* cli.py 1577: a model is pruned only if "every alias for this entity is also
\* seed-originated, meaning it wasn't referenced by sync data".  No result row
\* loses its model.
CitedModelsKept == cited \subseteq DOMAIN models
=============================================================================
