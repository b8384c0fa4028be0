---------------------------- MODULE ResolverChain ----------------------------
(***************************************************************************)
(* The strategy chain of packages/eval-entity-resolver as pure operators    *)
(* over an immutable snapshot of the registry: exact alias, verbatim HF id, *)
(* normalized alias, normalized HF id, fuzzy, no match.  Strings are        *)
(* abstracted to what the chain compares: a raw value has a slug, a         *)
(* normalized form, the forms the fuzzy rules rewrite it to, and possibly   *)
(* an HF-true spelling the HF id checker attests.                           *)
(***************************************************************************)
EXTENDS Naturals, FiniteSets, Sequences

CONSTANTS
  Raws,     \* raw strings (each of one entity type)
  Configs,  \* source configs
  Global,   \* the null source_config
  Bases,    \* spellings of entity ids
  Slug,     \* Raws -> Bases: the id a draft is given (_slugify)
  HfName,   \* Raws -> Bases: the HF-true repo id of the raw value
  HitKind,  \* Raws -> how the HF checker can match the raw value
  Norm,     \* Raws -> normalized form (any set of values)
  Rewrites, \* Raws -> normalized forms of the fuzzy candidates, in order
  Agrees,   \* <<form, base>> pairs whose organisations agree (_orgs_agree)
  Fold,     \* Bases -> case-insensitive form of an id (any set of values)
  HubStats, \* the hub_stats_lookup_enabled setting
  MaxMint   \* bound on the uuid suffixes ever minted

ASSUME ChainAssumption ==
  /\ Global \notin Configs
  /\ Slug \in [Raws -> Bases] /\ HfName \in [Raws -> Bases]
  /\ HitKind \in [Raws -> {"verbatim", "normalized", "never"}]
  /\ DOMAIN Norm = Raws /\ DOMAIN Fold = Bases
  /\ DOMAIN Rewrites = Raws /\ \A r \in Raws : Len(Rewrites[r]) \in Nat
  /\ HubStats \in BOOLEAN /\ MaxMint \in Nat

Scopes == Configs \cup {Global}
Keys == Raws \X Scopes

\* An id is a spelling plus the number of its uuid suffix (0: no suffix).
Ids == Bases \X (0 .. MaxMint)
Plain(base) == <<base, 0>>
NoId == <<>>

SameUpToCase(a, b) == a[2] = b[2] /\ Fold[a[1]] = Fold[b[1]]

\* AliasStore.lookup: scoped alias before global.  A map of the live
\* (non-rejected) alias rows gives the canonical id of each key, or NoId.
Exact(map, raw, scope) ==
  IF map[<<raw, scope>>] # NoId THEN map[<<raw, scope>>] ELSE map[<<raw, Global>>]

\* The canonical ids a lookup of a normalized form may return: scoped aliases
\* of that form over global ones.  Rows of one scope that share a normalized
\* form overwrite each other in table order, which is not modelled.
Near(map, form, scope) ==
  LET at(s) == {map[<<r, s>>] : r \in {q \in Raws : Norm[q] = form}} \ {NoId}
  IN IF at(scope) # {} THEN at(scope) ELSE at(Global)

\* fuzzy_match: the first candidate whose lookup returns an id of an agreeing
\* organisation wins, and NoId stands for a miss of them all.
Fuzzy(map, raw, scope) ==
  LET candidates == DOMAIN Rewrites[raw]
      found(i) == Near(map, Rewrites[raw][i], scope)
      agreeing(i) == {id \in found(i) : <<Rewrites[raw][i], id[1]>> \in Agrees}
      misses(i) == found(i) = {} \/ agreeing(i) # found(i)
      reached == {i \in candidates : \A b \in candidates : b < i => misses(b)}
      hits == UNION {agreeing(i) : i \in reached}
  IN IF \A i \in candidates : misses(i) THEN hits \cup {NoId} ELSE hits

\* What the checker may answer for a raw value on one call: its hit, or
\* unknown (budget, breaker, single flight, index not rebuilt, 404).
Hits(raw) == {"unknown"} \cup ({HitKind[raw]} \ {"never"})

\* The result of Resolver.resolve.  attested: hf_attestation equals the
\* canonical id; unregistered: hf_attested_unregistered.
Results == [id : Ids \cup {NoId}, attested : BOOLEAN, unregistered : BOOLEAN]
Result(id, attested, unregistered) ==
  [id |-> id, attested |-> attested, unregistered |-> unregistered]

\* Resolver.resolve on the snapshot snap = [aliases, entities], given the
\* checker's answer hit and the part of the alias map its lookup index holds.
\* The set holds one result per id a normalized lookup may return.
Resolve(snap, indexed, raw, scope, hit, mode) ==
  LET exact == Exact(indexed, raw, scope)
      near  == Near(snap.aliases, Norm[raw], scope)
      hf    == Plain(HfName[raw])
      aliased(id) == Result(id, hit # "unknown" /\ id = hf, FALSE)
      checked == Result(hf, TRUE, hf \notin snap.entities)
  IN CASE hit = "verbatim" -> {IF exact = hf THEN aliased(hf) ELSE checked}
       [] hit # "verbatim" /\ exact # NoId -> {aliased(exact)}
       [] hit # "verbatim" /\ exact = NoId /\ near # {} -> {aliased(id) : id \in near}
       [] hit = "normalized" /\ exact = NoId /\ near = {} -> {checked}
       [] hit = "unknown" /\ exact = NoId /\ near = {} ->
            {Result(id, FALSE, FALSE) :
               id \in IF mode = "exact" THEN {NoId} ELSE Fuzzy(snap.aliases, raw, scope)}

-----------------------------------------------------------------------------
(* What a raw value the chain misses is minted as                           *)

\* The bases _auto_create_entity may give a draft: the HF-true id when the
\* checker or hub-stats confirms the repository, else the slug.
MintBases(raw, result) ==
  IF result.unregistered THEN {HfName[raw]}
  ELSE {Slug[raw]} \cup (IF HubStats /\ HitKind[raw] # "never" THEN {HfName[raw]} ELSE {})

\* A base the table of ids already uses draws a uuid suffix, the n-th one.
MintId(base, ids, n) == IF Plain(base) \in ids THEN <<base, n>> ELSE Plain(base)

\* Table ids equal to the attested id up to case (_find_case_variant_model).
CaseVariants(id, ids) == {e \in ids : SameUpToCase(e, id)}

\* What the main path of ResolutionService.resolve settles on for a result of
\* the chain, given the ids of the table: [id, created, status].
Settled(raw, result, ids, n) ==
  IF result.id # NoId /\ ~result.unregistered
  THEN {[id |-> result.id, created |-> FALSE, status |-> "auto"]}
  ELSE IF result.unregistered /\ CaseVariants(result.id, ids) # {}
  THEN {[id |-> v, created |-> FALSE, status |-> "auto"] : v \in CaseVariants(result.id, ids)}
  ELSE {[id |-> MintId(b, ids, n), created |-> TRUE,
         status |-> IF result.unregistered THEN "auto" ELSE "uncertain"] :
           b \in MintBases(raw, result)}
=============================================================================
