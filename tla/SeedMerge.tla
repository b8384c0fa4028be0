------------------------------ MODULE SeedMerge ------------------------------
(***************************************************************************)
(* What the seed command makes of the models' YAML files before it writes a *)
(* row: every file is absorbed in turn into one entry per id, malformed ids *)
(* get their developer, entries that are the same model under two spellings *)
(* are folded into one, and the weak scalars fill what is still empty.  The *)
(* files, the curated overrides and the order of the records are arbitrary. *)
(*                                                                         *)
(* A form is a surface string: an id, an alias or a display name (spellings *)
(* that differ only in case of an alias are one form).  The fields are the  *)
(* scalars a weak map may carry; the fold backfills only some of them.      *)
(***************************************************************************)
EXTENDS Naturals, Sequences, FiniteSets, Functions, FiniteSetsExt

CONSTANTS
  Forms,       \* surface strings
  Key,         \* [Forms -> _]: collision_key, the form without its separators
  NameOf,      \* [Forms -> _]: the key of the last segment alone
  DevName,     \* [Forms -> _]: the name without a leading developer token
  Dev,         \* [Forms -> _]: the developer of the prefix or leading token
  Size,        \* [Forms -> _]: the parameter sizes in the form
  Slashed,     \* forms with an org prefix
  Spelling,    \* [Forms -> Nat]: dotted first, then shorter, then by string
  Lexical,     \* [Forms -> Nat]: by string alone
  Dated,       \* forms a release date can be read from
  Relations,   \* kinds of parent edges
  Records,     \* what the files may hold; a record's file is its load position
  Sources,     \* generated files, loaded first; core.yaml and enrichments follow
  Curations,   \* skip lists and collision overrides to start from
  NonLineage,  \* collision_overrides.yaml: non_lineage_bases
  Fields,      \* seed_io.py: WEAK_SCALAR_FIELDS
  Backfilled,  \* the fields a winner takes from its losers
  DateField,   \* release_date
  Values,      \* values of the fields
  None         \* an empty field

Origins == {"hf", "models_dev", "inferred", None}
Edges == UNION {[S -> Relations] : S \in SUBSET Forms}
Scalars == [Fields -> Values \cup {None}]
Entries ==
  [id : Forms, src : Origins, deferred : BOOLEAN, org : Range(Dev) \cup {None},
   name : Forms \cup {None}, aliases : SUBSET Forms, parents : Edges,
   status : {"reviewed", "draft", None}, value : Scalars]

\* The strings an entry answers to.
Surface(e) == ({e.id, e.name} \cup e.aliases) \ {None}

ASSUME SeedMergeAssumption ==
  /\ IsFiniteSet(Forms) /\ Slashed \subseteq Forms /\ NonLineage \subseteq Forms
  /\ Backfilled \subseteq Fields
  /\ Dev \in [Forms -> Range(Dev)] /\ Sources \in Nat
  /\ \A f \in Forms : Spelling[f] \in Nat /\ Lexical[f] \in Nat

\* Files hold entries, with a load position, a weak map and the fields the entry
\* names, empty or not.  What is sourced from HF is keyed by a repository
\* (generate_hf_oracle_seed.py, canon_id): its id has an org prefix.
ASSUME RecordsAssumption ==
  /\ Records \subseteq
       [id : Forms, src : Origins, deferred : BOOLEAN, org : Range(Dev) \cup {None},
        name : Forms \cup {None}, aliases : SUBSET Forms, parents : Edges,
        status : {"reviewed", "draft", None}, value : Scalars,
        file : 1 .. Sources + 2, weak : Scalars, explicit : SUBSET Fields]
  /\ \A e \in Records : e.src = "hf" => e.id \in Slashed

SourceRank(src) == IF src = "models_dev" THEN 2 ELSE IF src = "inferred" THEN 1 ELSE 3

VARIABLES
  files,    \* records of each file still to absorb, in load order
  core,     \* the records of core.yaml
  curation, \* [skip, skipSource, neverFold, prefer, merge]
  stage,    \* which pass runs next
  byId,     \* id -> entry
  absorbed, \* byId once every file is in (history)
  weak,     \* weak contributions in file order
  force,    \* merges decided before the fold: loser -> winner
  remap,    \* every fold: loser -> winner
  todo      \* losers not yet transferred

vars == <<files, core, curation, stage, byId, absorbed, weak, force, remap, todo>>

NoMap == [f \in {} |-> None]
Later(old, new) == IF new = None THEN old ELSE new
Latest(old, new) == [x \in Fields |-> Later(old[x], new[x])]
Over(f, g) == [x \in DOMAIN f \cup DOMAIN g |-> IF x \in DOMAIN f THEN f[x] ELSE g[x]]

----------------------------------------------------------------------------
(* Two records of one id: aliases and edges are united, an edge to the same *)
(* parent and every scalar take the later value unless it is empty.         *)
MergeInto(target, entry) ==
  [target EXCEPT !.src = Later(@, entry.src), !.org = Later(@, entry.org),
     !.deferred = @ \/ entry.deferred, !.name = Later(@, entry.name),
     !.status = Later(@, entry.status), !.value = Latest(@, entry.value),
     !.aliases = @ \cup entry.aliases, !.parents = Over(entry.parents, @)]

Dropped(i) == curation.skip \cup (IF i = Sources + 1 THEN {} ELSE curation.skipSource)

CoreIds == {e.id : e \in core}
CoreExplicit(f, x) == \E e \in core : e.id = f /\ x \in e.explicit

(* The record an entry keeps: a weak map is taken out before the merge.     *)
Strong(e) ==
  [id |-> e.id, src |-> e.src, deferred |-> e.deferred, org |-> e.org, name |-> e.name,
   aliases |-> e.aliases, parents |-> e.parents, status |-> e.status, value |-> e.value]

(* A file's records are absorbed together: their ids are distinct.          *)
AbsorbFile ==
  LET i == Sources + 3 - Len(files)
      kept == {e \in Head(files) : e.id \notin Dropped(i)}
      Absorbed(e) == IF e.id \in DOMAIN byId THEN MergeInto(byId[e.id], Strong(e)) ELSE Strong(e)
  IN /\ stage = "absorb" /\ files # <<>>
     /\ files' = Tail(files)
     /\ byId' = Over([id \in {e.id : e \in kept} |-> Absorbed(CHOOSE e \in kept : e.id = id)],
                     byId)
     /\ weak' = IF i > Sources THEN weak
                ELSE Append(weak, {e \in Head(files) : \E x \in Fields : e.weak[x] # None})
     /\ UNCHANGED <<core, curation, stage, absorbed, force, remap, todo>>

----------------------------------------------------------------------------
(* An id without a slash and without an org takes the developer its leading *)
(* token names, unless a slashed id of that developer has the same name:    *)
(* then it is a duplicate, to be folded into that one.                      *)
DevOf(e) == IF e.org # None THEN e.org ELSE Dev[e.id]
Malformed == {f \in DOMAIN byId : f \notin Slashed /\ byId[f].org = None /\ Dev[f] # None}
Twins(f) == {t \in DOMAIN byId \cap Slashed :
               DevOf(byId[t]) = Dev[f] /\ DevName[t] = DevName[f]}
FirstOf(S) == CHOOSE f \in S : \A g \in S : Lexical[f] <= Lexical[g]

AttributeOrgs ==
  /\ stage = "absorb" /\ files = <<>>
  /\ stage' = "promote"
  /\ absorbed' = byId
  /\ force' = [f \in {m \in Malformed : Twins(m) # {}} |-> FirstOf(Twins(f))]
  /\ byId' = [f \in DOMAIN byId |->
                IF f \in Malformed /\ Twins(f) = {}
                THEN [byId[f] EXCEPT !.org = Dev[f]] ELSE byId[f]]
  /\ UNCHANGED <<files, core, curation, weak, remap, todo>>

(* An HF-true entry carries the ids it replaced as aliases: a record still  *)
(* keyed by one folds onto it, unless it is curated, an umbrella, HF-true   *)
(* itself or the root of several variants under another name.               *)
HfTrue == {f \in DOMAIN byId : byId[f].src = "hf" \/ byId[f].deferred}
VariantsOf(f) == {c \in DOMAIN byId \ {f} :
                    f \in DOMAIN byId[c].parents /\ byId[c].parents[f] = "variant"}
Replaces(f, hf) ==
  /\ hf \in HfTrue /\ f \in byId[hf].aliases /\ f \in DOMAIN byId
  /\ f \notin CoreIds \cup NonLineage \cup HfTrue
  /\ Cardinality(VariantsOf(f)) < 2 \/ NameOf[f] = NameOf[hf]
Replaced == {f \in DOMAIN byId : \E hf \in DOMAIN byId : Replaces(f, hf)}
CoreKeys == {Key[f] : f \in CoreIds}

(* Whichever HF entry comes first claims the id; the curated merges go over *)
(* these, and these over the attribution's.  A key no core id has is pinned *)
(* to the HF id, so that the group fold does not fold the other way.        *)
PromoteHf ==
  /\ stage = "promote"
  /\ \E first \in [Replaced -> DOMAIN byId] :
       LET chosen == Restrict(first, {f \in Replaced : first[f] \notin Replaced})
           pinned == {f \in DOMAIN chosen : Key[f] = Key[chosen[f]] /\ Key[f] \notin CoreKeys}
       IN /\ \A f \in Replaced : Replaces(f, first[f])
          /\ force' = Over(curation.merge, Over(chosen, force))
          /\ curation' = [curation EXCEPT !.prefer =
               Over(@, [k \in {Key[f] : f \in pinned} |->
                          chosen[CHOOSE f \in pinned : Key[f] = k]])]
  /\ stage' = "fold"
  /\ UNCHANGED <<files, core, byId, absorbed, weak, remap, todo>>

----------------------------------------------------------------------------
(* The collision fold (collision_fold.py).                                  *)
Beats(f, g) ==  \* _winner_rank(f) >= _winner_rank(g)
  LET rf == SourceRank(byId[f].src)
      rg == SourceRank(byId[g].src)
  IN IF (f \in Slashed) # (g \in Slashed) THEN f \in Slashed
     ELSE rf > rg \/ (rf = rg /\ Spelling[f] >= Spelling[g])

Group(k) == {f \in DOMAIN byId : Key[f] = k}
FoldsRepos(k) ==  \* as Folds, without the guard on HF repositories
  /\ Cardinality(Group(k)) > 1
  /\ Cardinality({Size[f] : f \in Group(k)}) = 1
  /\ ~ \E pair \in curation.neverFold : pair \subseteq Group(k)
Folds(k) ==
  /\ Cardinality(Group(k)) > 1
  /\ Cardinality({f \in Group(k) : byId[f].src = "hf"}) < 2
  /\ Cardinality({Size[f] : f \in Group(k)}) = 1
  /\ ~ \E pair \in curation.neverFold : pair \subseteq Group(k)
WinnerOf(k) ==
  IF k \in DOMAIN curation.prefer /\ curation.prefer[k] \in Group(k) THEN curation.prefer[k]
  ELSE CHOOSE f \in Group(k) : \A g \in Group(k) : Beats(f, g)

Forced == {f \in DOMAIN force \cap DOMAIN byId : force[f] \in DOMAIN byId \ {f}}
Grouped == {f \in DOMAIN byId : Folds(Key[f]) /\ f # WinnerOf(Key[f])}
OneFold == [f \in Forced \cup Grouped |-> IF f \in Forced THEN force[f] ELSE WinnerOf(Key[f])]

(* The winners a loser's folds lead through, and the last of them; a chain   *)
(* that comes back has none, and the loser keeps a winner that is folded.   *)
Through(fold, f) ==
  {w \in Range(fold) :
     \A S \in SUBSET Range(fold) :
       (fold[f] \in S /\ \A x \in S \cap DOMAIN fold : fold[x] \in S) => w \in S}
Chased(fold) ==
  [f \in DOMAIN fold |->
     LET last == Through(fold, f) \ DOMAIN fold
     IN IF last = {} THEN fold[f] ELSE CHOOSE w \in last : TRUE]

FoldGroups ==
  /\ stage = "fold"
  /\ \E fold \in {Chased(OneFold)} :
       /\ remap' = fold
       /\ todo' = DOMAIN fold
       /\ stage' = "transfer"
  /\ UNCHANGED <<files, core, curation, byId, absorbed, weak, force>>

(* A winner's empty fields are filled from the loser, but only those the    *)
(* fold lists: what a loser knew of the modalities is dropped with it.      *)
Backfill(value, from) ==
  [x \in Fields |-> IF x \in Backfilled THEN Later(from[x], value[x]) ELSE value[x]]

TransferAll(l) ==  \* as Transfer, but the winner's own id is not left out
  LET w == remap[l]
      loser == byId[l]
  IN /\ stage = "transfer" /\ l \in todo /\ w \notin DOMAIN remap
     /\ todo' = todo \ {l}
     /\ byId' = [byId EXCEPT ![w] =
          [@ EXCEPT !.aliases = @ \cup (({l, loser.name} \cup loser.aliases) \ {None}),
                    !.parents = Over(@, loser.parents),
                    !.value = Backfill(@, loser.value)]]
     /\ UNCHANGED <<files, core, curation, stage, absorbed, weak, force, remap>>

(* One loser's surface and lineage go to its winner.  A reviewed winner     *)
(* with parents of its own takes no edge from a draft, and nobody inherits  *)
(* an umbrella.  The losers come in any order.                              *)
Transfer(l) ==
  LET w == remap[l]
      loser == byId[l]
      winner == byId[w]
      names == IF loser.name = winner.name THEN {} ELSE {loser.name} \ {None}
      edges == Restrict(loser.parents, DOMAIN loser.parents \ NonLineage)
      curated == winner.status = "reviewed" /\ winner.parents # NoMap
      inferred == loser.status = "draft" \/ loser.src = "inferred"
  IN /\ stage = "transfer" /\ l \in todo /\ w \notin DOMAIN remap
     /\ todo' = todo \ {l}
     /\ byId' = [byId EXCEPT ![w] = [winner EXCEPT
          !.aliases = winner.aliases \cup (({l} \cup loser.aliases \cup names) \ {w}),
          !.parents = IF curated /\ inferred THEN winner.parents ELSE Over(winner.parents, edges),
          !.value = Backfill(winner.value, loser.value)]]
     /\ UNCHANGED <<files, core, curation, stage, absorbed, weak, force, remap>>

(* surv_by_id[wid]: the winner was itself folded away, and the lookup of it *)
(* raises; the seed stops here.                                             *)
LoseWinner(l) ==
  /\ stage = "transfer" /\ l \in todo /\ remap[l] \in DOMAIN remap
  /\ stage' = "KeyError"
  /\ UNCHANGED <<files, core, curation, byId, absorbed, weak, force, remap, todo>>

(* Edges to a loser go to its winner; of two edges to one parent the first  *)
(* stays, and an edge to the entry itself goes.                             *)
Final(f) == IF f \in DOMAIN remap THEN remap[f] ELSE f
RepointIdsOnly ==  \* as RepointEdges, but an edge to the entry itself stays
  LET Repointed(f, edges) ==
        [p \in {Final(q) : q \in DOMAIN edges} |->
           edges[CHOOSE q \in DOMAIN edges : Final(q) = p]]
  IN /\ stage = "transfer" /\ todo = {}
     /\ byId' = [f \in DOMAIN byId \ DOMAIN remap |->
                   [byId[f] EXCEPT !.parents = Repointed(f, @)]]
     /\ stage' = "fill"
     /\ UNCHANGED <<files, core, curation, absorbed, weak, force, remap, todo>>
RepointEdges ==
  LET Repointed(f, edges) ==
        [p \in {Final(q) : q \in DOMAIN edges} \ {f} |->
           edges[CHOOSE q \in DOMAIN edges : Final(q) = p]]
  IN /\ stage = "transfer" /\ todo = {}
     /\ byId' = [f \in DOMAIN byId \ DOMAIN remap |->
                   [byId[f] EXCEPT !.parents = Repointed(f, @)]]
     /\ stage' = "fill"
     /\ UNCHANGED <<files, core, curation, absorbed, weak, force, remap, todo>>

----------------------------------------------------------------------------
(* Weak values come last, the first file's first, into fields that are      *)
(* still empty and that core.yaml does not name.                            *)
Donors(f, x, i) == {e \in weak[i] : /\ e.weak[x] # None /\ Final(e.id) = f
                                    /\ e.id \notin curation.skip \cup curation.skipSource}
Given(f, x) == {i \in DOMAIN weak : Donors(f, x, i) # {}}
WeakValue(f, x) == (CHOOSE e \in Donors(f, x, Min(Given(f, x))) : TRUE).weak[x]
Fillable(f, x) ==
  /\ byId[f].value[x] = None /\ Given(f, x) # {}
  /\ ~ CoreExplicit(f, x) /\ ~ (x = DateField /\ f \in Dated)
Filled(f) == [x \in Fields |-> IF Fillable(f, x) THEN WeakValue(f, x) ELSE byId[f].value[x]]

WeakFill ==
  /\ stage = "fill"
  /\ stage' = "done"
  /\ byId' = [f \in DOMAIN byId |-> [byId[f] EXCEPT !.value = Filled(f)]]
  /\ UNCHANGED <<files, core, curation, absorbed, weak, force, remap, todo>>

Init ==
  /\ \E held \in SUBSET Records :
       /\ \A e, g \in held : (e.file = g.file /\ e.id = g.id) => e = g
       /\ files = [i \in 1 .. Sources + 2 |-> {e \in held : e.file = i}]
       /\ core = {e \in held : e.file = Sources + 1}
  /\ curation \in Curations
  /\ stage = "absorb"
  /\ byId = NoMap /\ absorbed = NoMap /\ weak = <<>>
  /\ force = NoMap /\ remap = NoMap /\ todo = {}

Next ==
  \/ AbsorbFile \/ AttributeOrgs \/ PromoteHf \/ FoldGroups
  \/ \E l \in todo : Transfer(l) \/ LoseWinner(l)
  \/ RepointEdges \/ WeakFill

Spec == Init /\ [][Next]_vars

----------------------------------------------------------------------------
(* Entries stay well formed, and no pass makes an entry an alias of itself. *)
TypeOK ==
  /\ stage \in {"absorb", "promote", "fold", "transfer", "fill", "done", "KeyError"}
  /\ byId \in [DOMAIN byId -> Entries]
  /\ \A f \in DOMAIN byId :
       /\ byId[f].id = f
       /\ stage # "absorb" /\ f \in byId[f].aliases => f \in absorbed[f].aliases
  /\ remap \in [DOMAIN remap -> DOMAIN absorbed] /\ todo \subseteq DOMAIN remap

(* No surface string is lost by a fold: the canonical an entry became       *)
(* answers to its id, its aliases and its display name (the transfer pass   *)
(* of fold_collisions, over chains of attribution, promotion and curation). *)
SurfaceKept ==
  stage = "done" =>
    \A f \in DOMAIN absorbed :
      Final(f) \in DOMAIN byId /\ Surface(absorbed[f]) \subseteq Surface(byId[Final(f)])

(* After the fold no edge names a folded id or the entry itself; an edge to *)
(* a real parent is still there under the parent's new id; and every edge   *)
(* comes from a record of the model, none of them an umbrella a fold has    *)
(* passed on (the transfer and repoint passes of fold_collisions).  An      *)
(* entry's own edge to an umbrella may stay: the code does not drop it.     *)
LineageLands ==
  stage = "done" =>
    \A f \in DOMAIN byId :
      /\ DOMAIN byId[f].parents \cap (DOMAIN remap \cup {f}) = {}
      /\ {Final(p) : p \in DOMAIN absorbed[f].parents \ NonLineage}
           \subseteq DOMAIN byId[f].parents \cup {f}
      /\ \A p \in DOMAIN byId[f].parents :
           \E g \in DOMAIN absorbed : \E q \in DOMAIN absorbed[g].parents :
             Final(g) = f /\ Final(q) = p /\ (q \in NonLineage => g = f)

(* What the records merged into f say of field x.                           *)
Said(f, x) == {absorbed[g].value[x] : g \in {h \in DOMAIN absorbed : Final(h) = f}} \ {None}

(* Weak values come after every strong merge, whatever the load order: one  *)
(* never replaces an entry's own value, nor, in a field the fold backfills, *)
(* stands where any record of the merged model had a strong one.  (In the   *)
(* other fields, the modalities, a folded record's value is lost.)          *)
StrongBeatsWeak ==
  stage \in {"fill", "done"} =>
    \A f \in DOMAIN byId : \A x \in Fields :
      /\ x \in Backfilled /\ Said(f, x) # {} => byId[f].value[x] \in Said(f, x)
      /\ absorbed[f].value[x] # None => byId[f].value[x] = absorbed[f].value[x]

(* A fold loses no spelling and no edge to a real parent, passes on no      *)
(* umbrella, keeps every entry's own values and, of the fields it           *)
(* backfills, the folded records' too (fold_collisions, weak fill).         *)
FoldLosesNothing == SurfaceKept /\ LineageLands /\ StrongBeatsWeak

(* Two HF repositories whose ids collide are never made one model, by the   *)
(* group fold or by a chain of merges, unless a curated merge says so       *)
(* (fold_collisions: "keep them separate").                                 *)
ReposStayDistinct ==
  stage = "done" =>
    \A f, g \in DOMAIN absorbed :
      (absorbed[f].src = "hf" /\ absorbed[g].src = "hf" /\ Key[f] = Key[g]
         /\ Final(f) = Final(g))
        => f = g \/ {f, g} \cap DOMAIN curation.merge # {}

(* "so the transfer pass below never looks up a folded-away id": the fold   *)
(* always finds the winner of a loser among the survivors.                  *)
WinnersSurvive == stage # "KeyError"

=============================================================================
