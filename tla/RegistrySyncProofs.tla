------------------------- MODULE RegistrySyncProofs -------------------------
(***************************************************************************)
(* Syncs of any records, configs, raw values and seeds, for any answers of  *)
(* the HF checker: the registry stays whole, the caches agree with it, and  *)
(* no alias is repointed but by a rerun.                                    *)
(***************************************************************************)
EXTENDS RegistrySync, SequenceTheorems, TLAPS

(* The id of an entity, or that there is none.                              *)
MaybeIds == Ids \cup {NoId}

(* The alias rows of the store, as add_alias and update_alias see them.     *)
InForce(st, k) == IF Live(st.pending[k]) THEN st.pending[k] ELSE st.table[k]
IndexHas(st) == \E k \in Keys : Live(st.index[k])
Stores == [table : [Keys -> Rows], pending : [Keys -> Rows], index : [Keys -> Rows]]
StoreOK(st) ==
  /\ st \in Stores
  /\ \A k \in Keys : ~(Live(st.table[k]) /\ Live(st.pending[k]))
  /\ IndexHas(st) => \A k \in Keys : st.index[k] = InForce(st, k)

(* A record is worked on only inside a run, and has an evaluation to name.   *)
Control ==
  /\ ~Running => answer = NoAnswer
  /\ answer = NoAnswer => todo = <<>>
  /\ answer # NoAnswer => answer.eval \in Evals

(* An entity or a result is in its table or in the buffer, not in both.     *)
OneRow ==
  /\ entities \cap draftEntities = {}
  /\ \A e \in Evals : results[e] = <<>> \/ draftResults[e] = <<>>

(* Nothing names an entity that is in neither the tables nor the buffer.     *)
Closed ==
  /\ \A k \in Keys : RowOf(k).canonical \in Registered \cup {NoId}
  /\ \A raw \in Raws : memo[raw] \in Registered \cup {NoId}
  /\ \A e \in Evals : Range(results[e]) \cup Range(draftResults[e]) \subseteq Registered
  /\ Range(answer.ids) \subseteq Registered
  /\ \A k \in Keys : snap.aliases[k] \in Registered \cup {NoId}
  /\ snap.entities \subseteq Registered

(* A buffered alias is one of a value this run has answered.                 *)
DraftsMemoized == \A k \in Keys : Live(draftAliases[k]) => memo[k[1]] # NoId

(* The row that answers a raw value in the run's config.                     *)
Effective(raw) ==
  IF Live(RowOf(<<raw, run.config>>)) THEN RowOf(<<raw, run.config>>) ELSE RowOf(<<raw, Global>>)

(* AnswersMatchAliases and the memo: what was answered is memoized, and what  *)
(* is memoized is what the rows in force answer, until a rerun.             *)
Answered ==
  Running /\ ~run.rerun => \A raw \in Raws : HitKind[raw] = "never" =>
    /\ \A id \in seen[raw] : memo[raw] = id
    /\ memo[raw] # NoId => Live(Effective(raw)) /\ memo[raw] = Effective(raw).canonical


(* The inductive invariant: every property of the theorems follows from it.  *)
IInv ==
  /\ TypeOK /\ Control /\ StoreOK(AliasState) /\ OneRow /\ Closed
  /\ NothingLeftBehind /\ DraftsMemoized /\ Answered
-----------------------------------------------------------------------------

(* Ids have two parts; NoId is none of them.                                *)
LEMMA IdFacts ==
  /\ NoId \notin Ids
  /\ \A id \in Ids : id[1] \in Bases /\ id[2] \in 0 .. MaxMint
  /\ \A b \in Bases : Plain(b) \in Ids
  /\ \A b \in Bases, n \in Nat : <<b, n>>[2] = n /\ (n <= MaxMint => <<b, n>> \in Ids)
BY ChainAssumption DEF Ids, NoId, Plain

(* A row is live when it names an id.                                       *)
LEMMA RowFacts ==
  /\ NoRow \in Rows
  /\ \A row \in Rows : row.canonical \in MaybeIds
  /\ \A row \in Rows : Live(row) <=> row.canonical \in Ids
  /\ \A row \in Rows : Live(row) <=> row.canonical # NoId
  /\ \A id \in Ids, st \in Statuses : [canonical |-> id, status |-> st] \in Rows
BY IdFacts DEF Rows, NoRow, Live, MaybeIds, Statuses

(* Keys are a raw value with a scope.                                       *)
LEMMA KeyFacts ==
  /\ \A k \in Keys : k[1] \in Raws /\ k[2] \in Scopes
  /\ \A r \in Raws, s \in Scopes : <<r, s>> \in Keys /\ <<r, s>>[1] = r
  /\ Global \in Scopes
BY DEF Keys, Scopes

(* Lookups return ids of the map they look in: a normalized lookup,         *)
LEMMA NearFrom ==
  ASSUME NEW map \in [Keys -> MaybeIds], NEW form, NEW scope \in Scopes
  PROVE  Near(map, form, scope) \subseteq {map[k] : k \in Keys} \ {NoId}
BY KeyFacts DEF Near

(* the fuzzy tier,                                                          *)
LEMMA FuzzyFrom ==
  ASSUME NEW map \in [Keys -> MaybeIds], NEW raw \in Raws, NEW scope \in Scopes
  PROVE  Fuzzy(map, raw, scope) \subseteq {map[k] : k \in Keys} \cup {NoId}
<1> DEFINE found(i) == Near(map, Rewrites[raw][i], scope)
<1>1. \A i \in DOMAIN Rewrites[raw] : found(i) \subseteq {map[k] : k \in Keys}
  BY NearFrom
<1> QED BY <1>1 DEF Fuzzy

(* and the chain, which else answers with what the HF checker attests.      *)
LEMMA ChainFrom ==
  ASSUME NEW snapshot, NEW map \in [Keys -> MaybeIds], NEW ids,
         snapshot.aliases = map, snapshot.entities = ids,
         NEW raw \in Raws, NEW scope \in Scopes, NEW hit \in Hits(raw),
         NEW fresh \in Resolve(snapshot, map, raw, scope, hit, "resolve")
  PROVE  /\ fresh.attested \in BOOLEAN /\ fresh.unregistered \in BOOLEAN
         /\ fresh.unregistered => fresh.id = Plain(HfName[raw])
         /\ ~fresh.unregistered => fresh.id \in {map[k] : k \in Keys} \cup ids \cup {NoId}
         /\ HitKind[raw] = "never" => ~fresh.attested
<1> DEFINE exact == Exact(map, raw, scope)
           near  == Near(map, Norm[raw], scope)
           hf    == Plain(HfName[raw])
           aliased(id) == Result(id, hit # "unknown" /\ id = hf, FALSE)
           checked == Result(hf, TRUE, hf \notin ids)
           old == {map[k] : k \in Keys}
<1>1. exact \in old \cup {NoId} /\ near \subseteq old \ {NoId}
        /\ Fuzzy(map, raw, scope) \subseteq old \cup {NoId}
  BY KeyFacts, NearFrom, FuzzyFrom DEF Exact
<1>2. hit \in {"unknown", "verbatim", "normalized"} /\ (HitKind[raw] = "never" => hit = "unknown")
  BY ChainAssumption DEF Hits
<1>3. \/ \E id \in old \cup {NoId} : fresh = aliased(id)
      \/ \E id \in old \cup {NoId} : fresh = Result(id, FALSE, FALSE)
      \/ hit # "unknown" /\ fresh = checked
  <2>0. fresh \in Resolve(snapshot, map, raw, scope, hit, "resolve")
    OBVIOUS
  <2>s. snapshot.aliases = map /\ snapshot.entities = ids
    OBVIOUS
  <2> HIDE DEF old
  <2>1. CASE hit = "verbatim"
    <3>1. Resolve(snapshot, map, raw, scope, hit, "resolve") =
            {IF exact = hf THEN aliased(hf) ELSE checked}
      BY <2>1, <2>s DEF Resolve
    <3> QED BY <1>1, <2>0, <2>1, <3>1
  <2>2. CASE hit # "verbatim" /\ exact # NoId
    <3>1. Resolve(snapshot, map, raw, scope, hit, "resolve") = {aliased(exact)}
      BY <2>2, <2>s DEF Resolve
    <3> QED BY <1>1, <2>0, <2>2, <3>1
  <2>3. CASE hit # "verbatim" /\ exact = NoId /\ near # {}
    <3>1. Resolve(snapshot, map, raw, scope, hit, "resolve") = {aliased(id) : id \in near}
      BY <2>3, <2>s DEF Resolve
    <3> QED BY <1>1, <2>0, <2>3, <3>1
  <2>4. CASE hit = "normalized" /\ exact = NoId /\ near = {}
    <3>1. Resolve(snapshot, map, raw, scope, hit, "resolve") = {checked}
      BY <2>4, <2>s DEF Resolve
    <3> QED BY <1>1, <2>0, <2>4, <3>1
  <2>5. CASE hit = "unknown" /\ exact = NoId /\ near = {}
    <3>1. Resolve(snapshot, map, raw, scope, hit, "resolve") =
            {Result(id, FALSE, FALSE) : id \in Fuzzy(map, raw, scope)}
      BY <2>5, <2>s DEF Resolve
    <3> QED BY <1>1, <2>0, <2>5, <3>1
  <2> QED BY <1>2, <2>1, <2>2, <2>3, <2>4, <2>5
<1>4. ASSUME NEW id \in old \cup {NoId}, fresh = aliased(id)
      PROVE  /\ fresh.id = id /\ fresh.attested \in BOOLEAN /\ fresh.unregistered = FALSE
             /\ fresh.attested => hit # "unknown"
  BY <1>4 DEF Result
<1>5. ASSUME NEW id \in old \cup {NoId}, fresh = Result(id, FALSE, FALSE)
      PROVE  fresh.id = id /\ fresh.attested = FALSE /\ fresh.unregistered = FALSE
  BY <1>5 DEF Result
<1>6. ASSUME fresh = checked
      PROVE  /\ fresh.id = hf /\ fresh.attested = TRUE /\ fresh.unregistered \in BOOLEAN
             /\ ~fresh.unregistered => hf \in ids
  BY <1>6 DEF Result
<1>7. CASE \E id \in old \cup {NoId} : fresh = aliased(id)
  BY <1>2, <1>4, <1>7
<1>8. CASE \E id \in old \cup {NoId} : fresh = Result(id, FALSE, FALSE)
  BY <1>5, <1>8
<1>9. CASE hit # "unknown" /\ fresh = checked
  BY <1>2, <1>6, <1>9
<1> QED BY <1>3, <1>7, <1>8, <1>9

(* The main path settles on the chain's id, on a registered variant of it,  *)
(* or creates one.                                                          *)
LEMMA SettledFrom ==
  ASSUME NEW ids \in SUBSET Ids, NEW n \in Nat, NEW raw \in Raws, NEW fresh,
         fresh.unregistered \in BOOLEAN,
         fresh.unregistered => fresh.id = Plain(HfName[raw]),
         ~fresh.unregistered => fresh.id \in MaybeIds,
         NEW s \in Settled(raw, fresh, ids, n), s.id[2] <= MaxMint
  PROVE  /\ s.id \in Ids /\ s.created \in BOOLEAN /\ s.status \in {"auto", "uncertain"}
         /\ ~s.created => s.id \in ids \/ (~fresh.unregistered /\ s.id = fresh.id)
<1>1. CASE fresh.id # NoId /\ ~fresh.unregistered
  <2>1. s = [id |-> fresh.id, created |-> FALSE, status |-> "auto"]
    BY <1>1 DEF Settled
  <2> QED BY <1>1, <2>1 DEF MaybeIds
<1>2. CASE fresh.unregistered /\ CaseVariants(fresh.id, ids) # {}
  <2>1. \E v \in ids : s = [id |-> v, created |-> FALSE, status |-> "auto"]
    BY <1>2 DEF Settled, CaseVariants
  <2> QED BY <2>1
<1>3. CASE /\ ~(fresh.id # NoId /\ ~fresh.unregistered)
           /\ ~(fresh.unregistered /\ CaseVariants(fresh.id, ids) # {})
  <2>1. PICK b \in MintBases(raw, fresh) :
          s = [id |-> MintId(b, ids, n), created |-> TRUE,
               status |-> IF fresh.unregistered THEN "auto" ELSE "uncertain"]
    BY <1>3 DEF Settled
  <2>2. b \in Bases
    BY <2>1, ChainAssumption DEF MintBases
  <2>3. s.id = Plain(b) \/ s.id = <<b, n>>
    BY <2>1 DEF MintId
  <2>4. s.id \in Ids
    BY <2>2, <2>3, IdFacts
  <2> QED BY <2>1, <2>4
<1> QED BY <1>1, <1>2, <1>3

-----------------------------------------------------------------------------
(* add_alias puts a row in force where there is none, and nothing else.     *)
LEMMA AddedStep ==
  ASSUME NEW st, StoreOK(st), NEW key \in Keys, NEW row \in Rows, Live(row)
  PROVE  /\ StoreOK(Added(st, key, row))
         /\ Added(st, key, row).table = st.table
         /\ \A k \in Keys \ {key} : /\ InForce(Added(st, key, row), k) = InForce(st, k)
                                   /\ Added(st, key, row).pending[k] = st.pending[k]
         /\ InForce(Added(st, key, row), key) =
              IF Live(InForce(st, key)) THEN InForce(st, key) ELSE row
<1>1. CASE Live(InForce(st, key))
  <2>1. Live(st.table[key]) \/ Live(st.pending[key])
    BY <1>1 DEF InForce
  <2>2. Added(st, key, row) = st
    BY <2>1 DEF Added
  <2> QED BY <1>1, <2>2
<1>2. CASE ~Live(InForce(st, key))
  <2>1. ~Live(st.table[key]) /\ ~Live(st.pending[key]) /\ ~Live(st.index[key])
    BY <1>2 DEF InForce, StoreOK, IndexHas
  <2> DEFINE put == [st EXCEPT !.pending[key] = row]
  <2>2. Added(st, key, row) = IF IndexHas(st) THEN [put EXCEPT !.index[key] = row] ELSE put
    BY <2>1 DEF Added, Indexed, IndexHas, StoreOK, Stores
  <2>3. /\ put \in Stores /\ put.table = st.table /\ put.index = st.index
        /\ put.pending = [st.pending EXCEPT ![key] = row]
        /\ [put EXCEPT !.index[key] = row] \in Stores
        /\ [put EXCEPT !.index[key] = row].table = st.table
        /\ [put EXCEPT !.index[key] = row].pending = put.pending
        /\ [put EXCEPT !.index[key] = row].index = [st.index EXCEPT ![key] = row]
    BY DEF StoreOK, Stores
  <2> HIDE DEF put
  <2>4. /\ Added(st, key, row) \in Stores
        /\ Added(st, key, row).table = st.table
        /\ Added(st, key, row).pending = [st.pending EXCEPT ![key] = row]
        /\ Added(st, key, row).index = IF IndexHas(st) THEN [st.index EXCEPT ![key] = row]
             ELSE st.index
    BY <2>2, <2>3
  <2> DEFINE new == Added(st, key, row)
  <2> HIDE DEF new
  <2>n. /\ new \in Stores /\ new.table = st.table
        /\ new.pending = [st.pending EXCEPT ![key] = row]
        /\ new.index = IF IndexHas(st) THEN [st.index EXCEPT ![key] = row] ELSE st.index
    BY <2>4 DEF new
  <2>5. /\ \A k \in Keys \ {key} : new.pending[k] = st.pending[k]
             /\ InForce(new, k) = InForce(st, k)
        /\ new.pending[key] = row /\ InForce(new, key) = row
    BY <2>n DEF InForce, StoreOK, Stores
  <2>6. \A k \in Keys : ~(Live(new.table[k]) /\ Live(new.pending[k]))
    BY <2>1, <2>5, <2>n DEF StoreOK
  <2>7. IndexHas(new) => \A k \in Keys : new.index[k] = InForce(new, k)
    <3>1. CASE IndexHas(st)
      BY <3>1, <2>5, <2>n DEF StoreOK, Stores
    <3>2. CASE ~IndexHas(st)
      BY <3>2, <2>n DEF IndexHas
    <3> QED BY <3>1, <3>2
  <2>8. StoreOK(new)
    BY <2>6, <2>7, <2>n DEF StoreOK
  <2> QED BY <1>2, <2>5, <2>8, <2>n DEF new
<1> QED BY <1>1, <1>2

(* update_alias replaces the row in force if it is the table's.             *)
LEMMA UpdatedStep ==
  ASSUME NEW st, StoreOK(st), NEW key \in Keys, NEW row \in Rows, Live(row)
  PROVE  /\ StoreOK(Updated(st, key, row))
         /\ Updated(st, key, row).pending = st.pending
         /\ \A k \in Keys \ {key} : InForce(Updated(st, key, row), k) = InForce(st, k)
         /\ InForce(Updated(st, key, row), key) =
              IF Live(st.table[key]) THEN row ELSE InForce(st, key)
<1>1. CASE ~Live(st.table[key])
  BY <1>1 DEF Updated
<1>2. CASE Live(st.table[key])
  <2> DEFINE put == [st EXCEPT !.table[key] = row]
  <2>2. Updated(st, key, row) = IF IndexHas(st) THEN [put EXCEPT !.index[key] = row] ELSE put
    BY <1>2 DEF Updated, Indexed, IndexHas, StoreOK, Stores
  <2>3. /\ put \in Stores /\ put.pending = st.pending /\ put.index = st.index
        /\ put.table = [st.table EXCEPT ![key] = row]
        /\ [put EXCEPT !.index[key] = row] \in Stores
        /\ [put EXCEPT !.index[key] = row].table = put.table
        /\ [put EXCEPT !.index[key] = row].pending = st.pending
        /\ [put EXCEPT !.index[key] = row].index = [st.index EXCEPT ![key] = row]
    BY DEF StoreOK, Stores
  <2> HIDE DEF put
  <2> DEFINE new == Updated(st, key, row)
  <2>n. /\ new \in Stores /\ new.pending = st.pending
        /\ new.table = [st.table EXCEPT ![key] = row]
        /\ new.index = IF IndexHas(st) THEN [st.index EXCEPT ![key] = row] ELSE st.index
    BY <2>2, <2>3
  <2> HIDE DEF new
  <2>4. ~Live(st.pending[key])
    BY <1>2 DEF StoreOK
  <2>5. /\ \A k \in Keys \ {key} : new.table[k] = st.table[k] /\ InForce(new, k) = InForce(st, k)
        /\ new.table[key] = row /\ InForce(new, key) = row
    BY <2>4, <2>n DEF InForce, StoreOK, Stores
  <2>6. \A k \in Keys : ~(Live(new.table[k]) /\ Live(new.pending[k]))
    BY <2>4, <2>5, <2>n DEF StoreOK
  <2>7. IndexHas(new) => \A k \in Keys : new.index[k] = InForce(new, k)
    <3>1. CASE IndexHas(st)
      BY <3>1, <2>5, <2>n DEF StoreOK, Stores
    <3>2. CASE ~IndexHas(st)
      BY <3>2, <2>n DEF IndexHas
    <3> QED BY <3>1, <3>2
  <2>8. StoreOK(new)
    BY <2>6, <2>7, <2>n DEF StoreOK
  <2> QED BY <1>2, <2>5, <2>8, <2>n DEF new
<1> QED BY <1>1, <1>2

-----------------------------------------------------------------------------
(* The row get_alias finds is the one in force, and it misses none but       *)
(* buffered ones.                                                           *)
LEMMA GetAliasFacts ==
  ASSUME TypeOK, StoreOK(AliasState), NEW raw \in Raws, NEW scope \in Scopes
  PROVE  /\ AliasKey(raw, scope) \in {<<raw, scope>>, <<raw, Global>>}
         /\ GetAlias(raw, scope) \in Rows
         /\ Live(GetAlias(raw, scope)) => GetAlias(raw, scope) = RowOf(AliasKey(raw, scope))
         /\ (\A s \in Scopes : ~Live(draftAliases[<<raw, s>>])) =>
              GetAlias(raw, scope) =
                IF Live(RowOf(<<raw, scope>>)) THEN RowOf(<<raw, scope>>)
                  ELSE RowOf(<<raw, Global>>)
<1>1. <<raw, scope>> \in Keys /\ <<raw, Global>> \in Keys /\ Global \in Scopes
  BY KeyFacts
<1>2. AliasState.table = aliases /\ AliasState.pending = draftAliases /\ AliasState.index = index
  BY DEF AliasState
<1>3. AliasKey(raw, scope) \in {<<raw, scope>>, <<raw, Global>>}
  BY DEF AliasKey
<1>4. GetAlias(raw, scope) \in Rows
  BY <1>1, <1>3 DEF GetAlias, Consulted, TypeOK
<1>5. CASE IndexBuilt
  <2>1. \A k \in Keys : Consulted[k] = RowOf(k)
    BY <1>2, <1>5 DEF IndexBuilt, StoreOK, IndexHas, InForce, RowOf, Consulted
  <2> QED BY <1>1, <1>3, <1>4, <2>1 DEF GetAlias, AliasKey
<1>6. CASE ~IndexBuilt
  <2>1. Consulted = aliases
    BY <1>6 DEF Consulted
  <2>2. \A k \in Keys : Live(aliases[k]) => RowOf(k) = aliases[k]
    BY <1>2 DEF StoreOK, RowOf
  <2>3. \A k \in Keys : ~Live(draftAliases[k]) => RowOf(k) = aliases[k]
    BY DEF RowOf
  <2> QED BY <1>1, <1>3, <1>4, <2>1, <2>2, <2>3 DEF GetAlias, AliasKey
<1> QED BY <1>5, <1>6

(* The row in force for the store is the one the properties speak of.       *)
LEMMA InForceIs == \A k \in Keys : InForce(AliasState, k) = RowOf(k)
BY DEF InForce, AliasState, RowOf

(* What a resolve writes is the store that add_alias and update_alias       *)
(* return.                                                                  *)
LEMMA WriteStep ==
  ASSUME NEW st \in Stores, WriteAliases(st)
  PROVE  AliasState' = st /\ \A k \in Keys : InForce(st, k) = RowOf(k)'
BY DEF WriteAliases, AliasState, Stores, InForce, RowOf

(* A snapshot names registered ids only.                                    *)
LEMMA ResolverFacts ==
  ASSUME TypeOK, StoreOK(AliasState), Closed
  PROVE  /\ Resolver.aliases \in [Keys -> MaybeIds]
         /\ \A k \in Keys : Resolver.aliases[k] \in Registered \cup {NoId}
         /\ Resolver.entities \in SUBSET Ids /\ Resolver.entities \subseteq Registered
         /\ Resolver \in [built : BOOLEAN, aliases : [Keys -> MaybeIds], entities : SUBSET Ids]
<1>1. CASE snap.built
  BY <1>1 DEF Resolver, Closed, TypeOK, MaybeIds
<1>2. CASE ~snap.built
  <2>1. Resolver = [built |-> TRUE, aliases |-> [k \in Keys |-> aliases[k].canonical],
                    entities |-> entities \cup draftEntities]
    BY <1>2 DEF Resolver, SnapOf
  <2>2. \A k \in Keys : aliases[k] \in Rows /\ aliases[k].canonical \in MaybeIds
    BY RowFacts DEF TypeOK
  <2>3. \A k \in Keys : aliases[k].canonical \in Registered \cup {NoId}
    <3> TAKE k \in Keys
    <3>1. CASE Live(aliases[k])
      <4>1. RowOf(k) = aliases[k]
        BY <3>1 DEF StoreOK, AliasState, RowOf
      <4> QED BY <4>1 DEF Closed
    <3>2. CASE ~Live(aliases[k])
      BY <3>2, <2>2, RowFacts
    <3> QED BY <3>1, <3>2
  <2> QED BY <2>1, <2>2, <2>3 DEF TypeOK, Registered
<1> QED BY <1>1, <1>2

(* What a resolve settles on is registered or created.                      *)
LEMMA SettledStep ==
  ASSUME TypeOK, StoreOK(AliasState), Closed, NEW raw \in Raws, NEW hit \in Hits(raw),
         NEW fresh \in Chain(raw, hit), NEW s \in Settled(raw, fresh, entities, minted + 1),
         s.id[2] <= MaxMint
  PROVE  /\ s.id \in Ids /\ s.created \in BOOLEAN /\ s.status \in {"auto", "uncertain"}
         /\ ~s.created => s.id \in Registered
         /\ RowFor(s) \in Rows /\ Live(RowFor(s)) /\ RowFor(s).canonical = s.id
<1>1. run.config \in Scopes /\ minted + 1 \in Nat /\ entities \in SUBSET Ids
        /\ Registered \in SUBSET Ids
  BY DEF TypeOK, Registered
<1>2. fresh \in Resolve(Resolver, Resolver.aliases, raw, run.config, hit, "resolve")
  BY DEF Chain
<1>3. /\ fresh.attested \in BOOLEAN /\ fresh.unregistered \in BOOLEAN
      /\ fresh.unregistered => fresh.id = Plain(HfName[raw])
      /\ ~fresh.unregistered =>
           fresh.id \in {Resolver.aliases[k] : k \in Keys} \cup Resolver.entities \cup {NoId}
  BY <1>1, <1>2, ResolverFacts, ChainFrom
<1>4. ~fresh.unregistered => fresh.id \in Registered \cup {NoId}
  BY <1>3, ResolverFacts
<1>5. /\ s.id \in Ids /\ s.created \in BOOLEAN /\ s.status \in {"auto", "uncertain"}
      /\ ~s.created => s.id \in entities \/ (~fresh.unregistered /\ s.id = fresh.id)
  BY <1>1, <1>3, <1>4, SettledFrom DEF MaybeIds
<1> QED BY <1>4, <1>5, IdFacts, RowFacts DEF RowFor, Registered, Statuses

-----------------------------------------------------------------------------
(* What the two actions that write aliases have in common.                  *)
SettlesTo(raw, s) ==
  /\ todo # <<>> /\ raw = Head(todo)
  /\ s.id \in Ids /\ s.created \in BOOLEAN /\ (~s.created => s.id \in Registered)
  /\ StoreOK(AliasState)'
  /\ \A k \in Keys :
       \/ RowOf(k)' = RowOf(k)
       \/ /\ k[1] = raw /\ Live(RowOf(k)')
          /\ \/ RowOf(k)'.canonical = s.id
             \/ RowOf(k)'.canonical = RowOf(k).canonical /\ Live(RowOf(k))
  /\ \A k \in Keys : Live(draftAliases'[k]) => Live(draftAliases[k]) \/ k[1] = raw
  /\ Register(s) /\ Answer(raw, s.id) /\ Memoize(raw, s.id)
  /\ UNCHANGED <<entities, results, draftResults, run, bounds>>

(* A disagreeing attestation leaves the ids of aliases alone.               *)
LEMMA FlagStep ==
  ASSUME IInv, FlagDisagreement
  PROVE  /\ \E s : SettlesTo(Head(todo), s)
         /\ ~run.rerun /\ HitKind[Head(todo)] # "never"
         /\ \A k \in Keys : Live(RowOf(k)) => RowOf(k)'.canonical = RowOf(k).canonical
<1> DEFINE raw == Head(todo)
           row == GetAlias(raw, run.config)
           key == AliasKey(raw, run.config)
           own == <<raw, run.config>>
<1>h. PICK hit \in Hits(raw) : \E fresh \in Chain(raw, hit) :
        \E s \in Settled(raw, fresh, entities, minted + 1) :
          /\ fresh.attested
          /\ WriteAliases(Added(Updated(AliasState, key, Flagged(row)), own, RowFor(s)))
          /\ Register(s) /\ Answer(raw, s.id) /\ Memoize(raw, s.id)
  BY DEF FlagDisagreement
<1>f. PICK fresh \in Chain(raw, hit) : \E s \in Settled(raw, fresh, entities, minted + 1) :
          /\ fresh.attested
          /\ WriteAliases(Added(Updated(AliasState, key, Flagged(row)), own, RowFor(s)))
          /\ Register(s) /\ Answer(raw, s.id) /\ Memoize(raw, s.id)
  BY <1>h
<1>1. PICK s \in Settled(raw, fresh, entities, minted + 1) :
          /\ fresh.attested
          /\ WriteAliases(Added(Updated(AliasState, key, Flagged(row)), own, RowFor(s)))
          /\ Register(s) /\ Answer(raw, s.id) /\ Memoize(raw, s.id)
  BY <1>f
<1>2. /\ todo # <<>> /\ ~run.rerun /\ Live(row)
      /\ UNCHANGED <<entities, results, draftResults, run, bounds>>
  BY DEF FlagDisagreement
<1>3. raw \in Raws /\ run.config \in Scopes
  BY <1>2, HeadTailProperties DEF IInv, TypeOK
<1>4. own \in Keys /\ key \in Keys /\ key[1] = raw /\ own[1] = raw
  <2>1. key = own \/ key = <<raw, Global>>
    BY <1>3, GetAliasFacts DEF IInv
  <2> QED BY <1>3, <2>1, KeyFacts
<1>5. row \in Rows /\ row = RowOf(key)
  BY <1>2, <1>3, GetAliasFacts DEF IInv
<1>6. Flagged(row) \in Rows /\ Live(Flagged(row)) /\ Flagged(row).canonical = row.canonical
  <2>1. row \in [canonical : Ids, status : Statuses]
    BY <1>2, <1>5 DEF Rows, Live
  <2>2. /\ Flagged(row) \in [canonical : Ids, status : Statuses]
        /\ Flagged(row).canonical = row.canonical
    BY <2>1 DEF Flagged, Statuses
  <2> QED BY <2>2, RowFacts DEF Rows
<1>7. /\ s.id \in Ids /\ s.created \in BOOLEAN /\ (~s.created => s.id \in Registered)
      /\ RowFor(s) \in Rows /\ Live(RowFor(s)) /\ RowFor(s).canonical = s.id
  <2>1. s.id[2] <= MaxMint
    BY <1>1 DEF Register
  <2> QED BY <1>3, <2>1, SettledStep DEF IInv
<1> DEFINE flagged == Updated(AliasState, key, Flagged(row))
           added == Added(flagged, own, RowFor(s))
<1>8. /\ StoreOK(flagged) /\ flagged.pending = draftAliases
      /\ \A k \in Keys : \/ InForce(flagged, k) = RowOf(k)
                         \/ k = key /\ InForce(flagged, k) = Flagged(row)
  BY <1>4, <1>6, UpdatedStep, InForceIs DEF IInv, AliasState
<1> HIDE DEF flagged
<1>9. /\ StoreOK(added)
      /\ \A k \in Keys \ {own} : InForce(added, k) = InForce(flagged, k)
           /\ added.pending[k] = flagged.pending[k]
      /\ InForce(added, own) = IF Live(InForce(flagged, own)) THEN InForce(flagged, own)
           ELSE RowFor(s)
  BY <1>4, <1>7, <1>8, AddedStep
<1> HIDE DEF added
<1>10. /\ AliasState' = added /\ draftAliases' = added.pending
       /\ \A k \in Keys : InForce(added, k) = RowOf(k)'
  <2>1. WriteAliases(added)
    BY <1>1 DEF added, flagged
  <2> QED BY <1>9, <2>1, WriteStep DEF StoreOK, WriteAliases
<1>11. \A k \in Keys :
         \/ RowOf(k)' = RowOf(k)
         \/ k = key /\ RowOf(k)' = Flagged(row) /\ Live(RowOf(k))
         \/ k = own /\ RowOf(k)' = RowFor(s) /\ ~Live(RowOf(k))
  <2> TAKE k \in Keys
  <2>1. \/ InForce(flagged, k) = RowOf(k)
        \/ k = key /\ InForce(flagged, k) = Flagged(row) /\ Live(RowOf(k))
    BY <1>2, <1>5, <1>8
  <2>2. CASE k # own
    BY <1>9, <1>10, <2>1, <2>2
  <2>3. CASE k = own /\ Live(InForce(flagged, own))
    BY <1>4, <1>9, <1>10, <2>1, <2>3
  <2>4. CASE k = own /\ ~Live(InForce(flagged, own))
    BY <1>4, <1>6, <1>9, <1>10, <2>1, <2>4
  <2> QED BY <2>2, <2>3, <2>4
<1>12. StoreOK(AliasState)'
  BY <1>9, <1>10 DEF StoreOK, IndexHas, InForce
<1>13. \A k \in Keys : Live(draftAliases'[k]) => Live(draftAliases[k]) \/ k[1] = raw
  BY <1>4, <1>8, <1>9, <1>10
<1>14. \A k \in Keys :
         \/ RowOf(k)' = RowOf(k)
         \/ /\ k[1] = raw /\ Live(RowOf(k)')
            /\ \/ RowOf(k)'.canonical = s.id
               \/ RowOf(k)'.canonical = RowOf(k).canonical /\ Live(RowOf(k))
  BY <1>4, <1>5, <1>6, <1>7, <1>11
<1>15. SettlesTo(raw, s)
  BY <1>1, <1>2, <1>7, <1>12, <1>13, <1>14 DEF SettlesTo
<1>16. HitKind[raw] # "never"
  <2>1. fresh \in Resolve(Resolver, Resolver.aliases, raw, run.config, hit, "resolve")
    BY DEF Chain
  <2> QED BY <1>1, <1>3, <2>1, ResolverFacts, ChainFrom DEF IInv
<1>17. \A k \in Keys : Live(RowOf(k)) => RowOf(k)'.canonical = RowOf(k).canonical
  BY <1>5, <1>6, <1>11
<1> QED BY <1>2, <1>15, <1>16, <1>17

(* A resolve without an alias, or of a rerun.                               *)
LEMMA AfreshStep ==
  ASSUME IInv, ResolveAfresh
  PROVE  \E s : /\ SettlesTo(Head(todo), s)
                /\ \A k \in Keys : Live(RowOf(k)) =>
                     \/ RowOf(k)'.canonical = RowOf(k).canonical
                     \/ run.rerun /\ RowOf(k).status # "confirmed"
                /\ ~run.rerun =>
                     /\ memo[Head(todo)] = NoId
                     /\ \A k \in Keys : k = <<Head(todo), run.config>> =>
                          Live(RowOf(k)') /\ RowOf(k)'.canonical = s.id
<1> DEFINE raw == Head(todo)
           row == GetAlias(raw, run.config)
           key == AliasKey(raw, run.config)
           own == <<raw, run.config>>
<1>h. PICK hit \in Hits(raw) : \E fresh \in Chain(raw, hit) :
        \E s \in Settled(raw, fresh, entities, minted + 1) :
          /\ WriteAliases(IF run.rerun THEN RerunAlias(raw, s)
               ELSE Added(AliasState, own, RowFor(s)))
          /\ Register(s) /\ Answer(raw, s.id) /\ Memoize(raw, s.id)
  BY DEF ResolveAfresh
<1>f. PICK fresh \in Chain(raw, hit) : \E s \in Settled(raw, fresh, entities, minted + 1) :
          /\ WriteAliases(IF run.rerun THEN RerunAlias(raw, s)
               ELSE Added(AliasState, own, RowFor(s)))
          /\ Register(s) /\ Answer(raw, s.id) /\ Memoize(raw, s.id)
  BY <1>h
<1>1. PICK s \in Settled(raw, fresh, entities, minted + 1) :
          /\ WriteAliases(IF run.rerun THEN RerunAlias(raw, s)
               ELSE Added(AliasState, own, RowFor(s)))
          /\ Register(s) /\ Answer(raw, s.id) /\ Memoize(raw, s.id)
  BY <1>f
<1>2. /\ todo # <<>> /\ (run.rerun \/ (memo[raw] = NoId /\ ~Live(row)))
      /\ UNCHANGED <<entities, results, draftResults, run, bounds>>
  BY DEF ResolveAfresh
<1>3. raw \in Raws /\ run.config \in Scopes
  BY <1>2, HeadTailProperties DEF IInv, TypeOK
<1>4. own \in Keys /\ key \in Keys /\ key[1] = raw /\ own[1] = raw
  <2>1. key = own \/ key = <<raw, Global>>
    BY <1>3, GetAliasFacts DEF IInv
  <2> QED BY <1>3, <2>1, KeyFacts
<1>5. row \in Rows /\ (Live(row) => row = RowOf(key))
  BY <1>3, GetAliasFacts DEF IInv
<1>7. /\ s.id \in Ids /\ s.created \in BOOLEAN /\ (~s.created => s.id \in Registered)
      /\ RowFor(s) \in Rows /\ Live(RowFor(s)) /\ RowFor(s).canonical = s.id
  <2>1. s.id[2] <= MaxMint
    BY <1>1 DEF Register
  <2> QED BY <1>3, <2>1, SettledStep DEF IInv
<1> DEFINE added == Added(AliasState, own, RowFor(s))
           updated == Updated(AliasState, key, RowFor(s))
           st == IF run.rerun THEN RerunAlias(raw, s) ELSE added
<1>s. StoreOK(AliasState) /\ AliasState.pending = draftAliases
  BY DEF IInv, AliasState
<1>8. /\ StoreOK(added)
      /\ \A k \in Keys : \/ InForce(added, k) = RowOf(k) /\ (k = own => Live(RowOf(k)))
                         \/ k = own /\ InForce(added, k) = RowFor(s) /\ ~Live(RowOf(k))
      /\ \A k \in Keys : added.pending[k] = draftAliases[k] \/ k = own
  <2>1. /\ StoreOK(added)
        /\ \A k \in Keys \ {own} : /\ InForce(added, k) = InForce(AliasState, k)
                                   /\ added.pending[k] = AliasState.pending[k]
        /\ InForce(added, own) =
             IF Live(InForce(AliasState, own)) THEN InForce(AliasState, own) ELSE RowFor(s)
    BY <1>4, <1>7, <1>s, AddedStep
  <2> HIDE DEF added
  <2> QED BY <1>4, <1>s, <2>1, InForceIs
<1>9. /\ StoreOK(updated)
      /\ \A k \in Keys : \/ InForce(updated, k) = RowOf(k)
                         \/ k = key /\ InForce(updated, k) = RowFor(s)
      /\ \A k \in Keys : updated.pending[k] = draftAliases[k]
  BY <1>4, <1>7, <1>s, UpdatedStep, InForceIs
<1>10. \/ st = added /\ (run.rerun => ~Live(row))
       \/ st = AliasState /\ run.rerun
       \/ /\ st = updated /\ run.rerun /\ Live(row)
          /\ row.status = "confirmed" => row.canonical = s.id
  BY DEF RerunAlias
<1> HIDE DEF added, updated
<1>11. /\ StoreOK(st)
       /\ \A k \in Keys : st.pending[k] = draftAliases[k] \/ k = own
       /\ \A k \in Keys :
            \/ InForce(st, k) = RowOf(k)
            \/ k = own /\ InForce(st, k) = RowFor(s) /\ ~Live(RowOf(k))
            \/ /\ k = key /\ InForce(st, k) = RowFor(s) /\ run.rerun /\ k[1] = raw
               /\ RowOf(k).status = "confirmed" => RowOf(k).canonical = s.id
  <2>1. CASE st = added
    BY <1>8, <2>1
  <2>2. CASE st = AliasState
    BY <2>2, <1>s, InForceIs
  <2>3. CASE /\ st = updated /\ run.rerun /\ Live(row)
             /\ row.status = "confirmed" => row.canonical = s.id
    BY <1>4, <1>5, <1>9, <2>3
  <2> QED BY <1>10, <2>1, <2>2, <2>3
<1>12. ~run.rerun => \A k \in Keys : k = own => InForce(st, k) = RowFor(s)
         \/ (InForce(st, k) = RowOf(k) /\ Live(RowOf(k)))
  BY <1>8
<1>m. ~run.rerun => ~Live(RowOf(own))
  <2>1. SUFFICES ASSUME ~run.rerun PROVE ~Live(RowOf(own))
    OBVIOUS
  <2>2. \A x \in Scopes : ~Live(draftAliases[<<raw, x>>])
    <3>1. \A x \in Scopes : <<raw, x>> \in Keys /\ <<raw, x>>[1] = raw
      BY <1>3, KeyFacts
    <3> QED BY <1>2, <2>1, <3>1 DEF IInv, DraftsMemoized
  <2> QED BY <1>2, <1>3, <2>1, <2>2, GetAliasFacts DEF IInv
<1> HIDE DEF st
<1>13. /\ AliasState' = st /\ draftAliases' = st.pending
       /\ \A k \in Keys : InForce(st, k) = RowOf(k)'
  <2>1. WriteAliases(st)
    BY <1>1 DEF st, added
  <2> QED BY <1>11, <2>1, WriteStep DEF StoreOK, WriteAliases
<1>14. StoreOK(AliasState)'
  BY <1>11, <1>13 DEF StoreOK, IndexHas, InForce
<1>15. \A k \in Keys : Live(draftAliases'[k]) => Live(draftAliases[k]) \/ k[1] = raw
  BY <1>4, <1>11, <1>13
<1>16. \A k \in Keys :
         \/ RowOf(k)' = RowOf(k)
         \/ /\ k[1] = raw /\ Live(RowOf(k)')
            /\ \/ RowOf(k)'.canonical = s.id
               \/ RowOf(k)'.canonical = RowOf(k).canonical /\ Live(RowOf(k))
  BY <1>4, <1>7, <1>11, <1>13
<1>17. SettlesTo(raw, s)
  BY <1>1, <1>2, <1>7, <1>14, <1>15, <1>16 DEF SettlesTo
<1>18. \A k \in Keys : Live(RowOf(k)) =>
         \/ RowOf(k)'.canonical = RowOf(k).canonical
         \/ run.rerun /\ RowOf(k).status # "confirmed"
  BY <1>7, <1>11, <1>13
<1>19. ~run.rerun => \A k \in Keys : k = own => Live(RowOf(k)') /\ RowOf(k)'.canonical = s.id
  BY <1>7, <1>12, <1>13, <1>m
<1> QED BY <1>2, <1>17, <1>18, <1>19

-----------------------------------------------------------------------------
(* An answer goes to the record whose raw value it is.                      *)
LEMMA AnswerStep ==
  ASSUME IInv, NEW raw, NEW id \in Ids, todo # <<>>, raw = Head(todo), Answer(raw, id)
  PROVE  /\ raw \in Raws /\ Running
         /\ answer' \in [eval : Evals \cup {"none"}, ids : Seq(Ids)]
         /\ answer'.eval \in Evals /\ answer'.eval = answer.eval /\ answer' # NoAnswer
         /\ Range(answer'.ids) = Range(answer.ids) \cup {id}
         /\ todo' \in Seq(Raws)
         /\ seen' = [seen EXCEPT ![raw] = @ \cup {id}] /\ seen' \in [Raws -> SUBSET Ids]
<1>1. /\ raw \in Raws /\ Tail(todo) \in Seq(Raws)
      /\ Running /\ answer # NoAnswer /\ answer.eval \in Evals
  BY HeadTailProperties DEF IInv, TypeOK, Control
<1>2. /\ answer' = [answer EXCEPT !.ids = Append(@, id)] /\ todo' = Tail(todo)
      /\ seen' = [seen EXCEPT ![raw] = @ \cup {id}]
  BY DEF Answer
<1>3. answer \in [eval : Evals \cup {"none"}, ids : Seq(Ids)]
  BY DEF IInv, TypeOK
<1>4. /\ answer'.eval = answer.eval /\ answer'.ids = Append(answer.ids, id)
      /\ answer' \in [eval : Evals \cup {"none"}, ids : Seq(Ids)]
  BY <1>2, <1>3, AppendProperties
<1>5. Range(Append(answer.ids, id)) = Range(answer.ids) \cup {id}
  <2> DEFINE q == answer.ids
             w == Append(q, id)
  <2>1. q \in Seq(Ids)
    BY <1>3
  <2> HIDE DEF q
  <2>2. /\ Len(q) \in Nat /\ DOMAIN q = 1 .. Len(q) /\ DOMAIN w = 1 .. Len(q) + 1
        /\ \A i \in 1 .. Len(q) : w[i] = q[i]
        /\ w[Len(q) + 1] = id
    BY <2>1, AppendProperties, LenProperties
  <2> HIDE DEF w
  <2> QED BY <2>2 DEF Range, w, q
<1>6. answer' # NoAnswer
  BY <1>1, <1>4, RegistryAssumption DEF NoAnswer, Evals
<1>7. seen' \in [Raws -> SUBSET Ids]
  BY <1>1, <1>2 DEF IInv, TypeOK
<1> QED BY <1>1, <1>2, <1>4, <1>5, <1>6, <1>7

(* Either writes an entity, a row and an answer that fit each other.        *)
LEMMA SettlesStep ==
  ASSUME IInv, NEW raw, NEW s, SettlesTo(raw, s)
  PROVE  /\ TypeOK' /\ Control' /\ StoreOK(AliasState)' /\ OneRow' /\ Closed'
         /\ NothingLeftBehind' /\ DraftsMemoized'
<1>1. /\ todo # <<>> /\ raw = Head(todo) /\ raw \in Raws /\ Tail(todo) \in Seq(Raws)
      /\ Running /\ answer # NoAnswer /\ answer.eval \in Evals
  BY HeadTailProperties DEF SettlesTo, IInv, TypeOK, Control
<1>2. /\ s.id \in Ids /\ s.id # NoId /\ s.created \in BOOLEAN /\ (~s.created => s.id \in Registered)
      /\ s.id[2] \in 0 .. MaxMint
  BY IdFacts DEF SettlesTo
<1>3. /\ UNCHANGED <<entities, results, draftResults, run, runs, records>>
      /\ StoreOK(AliasState)'
  BY DEF SettlesTo, bounds
<1>4. Running'
  BY <1>1, <1>3 DEF Running
<1>5. /\ aliases' \in [Keys -> Rows] /\ draftAliases' \in [Keys -> Rows]
           /\ index' \in [Keys -> Rows]
  BY <1>3 DEF StoreOK, Stores, AliasState
<1>6. /\ draftEntities' \in SUBSET Ids /\ draftEntities \subseteq draftEntities'
      /\ entities \cap draftEntities' = {} /\ s.id \in Registered'
           /\ Registered \subseteq Registered'
      /\ minted' \in 0 .. MaxMint
  <2>1. CASE s.created
    BY <1>2, <1>3, <2>1 DEF SettlesTo, Register, UpsertEntity, IInv, TypeOK, OneRow, Registered
  <2>2. CASE ~s.created
    BY <1>2, <1>3, <2>2 DEF SettlesTo, Register, IInv, TypeOK, OneRow, Registered
  <2> QED BY <1>2, <2>1, <2>2
<1>7. \A k \in Keys : RowOf(k)' \in Rows /\ RowOf(k)'.canonical \in Registered' \cup {NoId}
  <2> TAKE k \in Keys
  <2>1. RowOf(k)' \in Rows
    BY <1>5 DEF RowOf
  <2>2. \/ RowOf(k)' = RowOf(k)
        \/ RowOf(k)'.canonical = s.id
        \/ RowOf(k)'.canonical = RowOf(k).canonical
    BY DEF SettlesTo
  <2>3. RowOf(k).canonical \in Registered \cup {NoId}
    BY DEF IInv, Closed
  <2> QED BY <1>6, <2>1, <2>2, <2>3
<1>8. /\ snap'.aliases \in [Keys -> MaybeIds] /\ snap'.entities \in SUBSET Ids
      /\ snap' \in [built : BOOLEAN, aliases : [Keys -> MaybeIds], entities : SUBSET Ids]
      /\ \A k \in Keys : snap'.aliases[k] \in Registered' \cup {NoId}
      /\ snap'.entities \subseteq Registered'
  <2>1. CASE s.created
    <3>1. snap' = [built |-> TRUE, aliases |-> [k \in Keys |-> aliases'[k].canonical],
                   entities |-> entities \cup draftEntities']
      BY <2>1 DEF SettlesTo, Register, SnapOf
    <3>2. \A k \in Keys : aliases'[k].canonical \in MaybeIds
      BY <1>5, RowFacts
    <3>3. \A k \in Keys : aliases'[k].canonical \in Registered' \cup {NoId}
      <4> TAKE k \in Keys
      <4>1. CASE Live(aliases'[k])
        <5>1. RowOf(k)' = aliases'[k]
          BY <1>3, <4>1 DEF StoreOK, AliasState, RowOf
        <5> QED BY <1>7, <5>1
      <4>2. CASE ~Live(aliases'[k])
        BY <1>5, <4>2, RowFacts, <3>2 DEF MaybeIds
      <4> QED BY <4>1, <4>2
    <3>4. entities \in SUBSET Ids /\ Registered' = entities \cup draftEntities'
      BY <1>3 DEF IInv, TypeOK, Registered
    <3> QED BY <1>6, <3>1, <3>2, <3>3, <3>4
  <2>2. CASE ~s.created
    <3>1. snap' = Resolver
      BY <2>2 DEF SettlesTo, Register
    <3> QED BY <1>6, <3>1, ResolverFacts DEF IInv
  <2> QED BY <1>2, <2>1, <2>2
<1>9. /\ memo' = [memo EXCEPT ![raw] = s.id] /\ memo \in [Raws -> MaybeIds]
      /\ memo' \in [Raws -> MaybeIds] /\ memo'[raw] = s.id
      /\ \A r \in Raws \ {raw} : memo'[r] = memo[r]
  BY <1>1, <1>2 DEF SettlesTo, Memoize, IInv, TypeOK, MaybeIds
<1>11. /\ answer' \in [eval : Evals \cup {"none"}, ids : Seq(Ids)]
       /\ answer'.eval = answer.eval /\ answer' # NoAnswer
       /\ Range(answer'.ids) = Range(answer.ids) \cup {s.id}
       /\ todo' \in Seq(Raws) /\ seen' \in [Raws -> SUBSET Ids]
  BY <1>1, <1>2, AnswerStep DEF SettlesTo
<1>12. TypeOK'
  <2>2. /\ entities' \in SUBSET Ids /\ results' \in [Evals -> Seq(Ids)]
             /\ draftResults' \in [Evals -> Seq(Ids)]
        /\ run' \in [config : Scopes, rerun : BOOLEAN] /\ runs' \in 0 .. MaxRuns
             /\ records' \in 0 .. MaxRecords
    BY <1>3 DEF IInv, TypeOK
  <2> QED BY <1>5, <1>6, <1>8, <1>9, <1>11, <2>2 DEF TypeOK, MaybeIds
<1>13. Control'
  BY <1>1, <1>4, <1>11 DEF Control
<1>14. OneRow'
  BY <1>3, <1>6 DEF OneRow, IInv
<1>15. Closed'
  <2>1. \A r \in Raws : memo'[r] \in Registered' \cup {NoId}
    BY <1>6, <1>9 DEF IInv, Closed
  <2>2. \A e \in Evals : Range(results'[e]) \cup Range(draftResults'[e]) \subseteq Registered'
    BY <1>3, <1>6 DEF IInv, Closed
  <2>3. Range(answer'.ids) \subseteq Registered'
    BY <1>6, <1>11 DEF IInv, Closed
  <2> QED BY <1>7, <1>8, <2>1, <2>2, <2>3 DEF Closed
<1>16. NothingLeftBehind'
  BY <1>4 DEF NothingLeftBehind
<1>17. DraftsMemoized'
  <2>1. SUFFICES ASSUME NEW k \in Keys, Live(draftAliases'[k]) PROVE memo'[k[1]] # NoId
    BY DEF DraftsMemoized
  <2>2. k[1] \in Raws /\ (Live(draftAliases[k]) \/ k[1] = raw)
    BY <2>1, KeyFacts DEF SettlesTo
  <2> QED BY <1>2, <1>9, <2>2 DEF IInv, DraftsMemoized
<1> QED BY <1>3, <1>12, <1>13, <1>14, <1>15, <1>16, <1>17

-----------------------------------------------------------------------------
(* A registry the seed left behind.                                         *)
LEMMA InitHolds == Init => IInv
<1> SUFFICES ASSUME Init PROVE IInv
  OBVIOUS
<1>1. PICK written \in SUBSET SeedAliases :
        /\ \A w \in written : w[2] \in entities
        /\ aliases = [k \in Keys |->
             IF k[2] = Global /\ \E w \in written : w[1] = k[1]
             THEN [canonical |-> (CHOOSE w \in written : w[1] = k[1])[2], status |-> "confirmed"]
             ELSE NoRow]
  BY DEF Init
<1>2. entities \in SUBSET Ids
  BY RegistryAssumption DEF Init
<1>3. ASSUME NEW k \in Keys
      PROVE  aliases[k] \in Rows /\ aliases[k].canonical \in entities \cup {NoId}
  <2>1. CASE k[2] = Global /\ \E w \in written : w[1] = k[1]
    <3>1. (CHOOSE w \in written : w[1] = k[1]) \in written
      BY <2>1
    <3>2. PICK id \in entities : aliases[k] = [canonical |-> id, status |-> "confirmed"]
      BY <1>1, <2>1, <3>1
    <3>3. id \in Ids /\ "confirmed" \in Statuses
      BY <1>2 DEF Statuses
    <3>4. [canonical |-> id, status |-> "confirmed"] \in Rows
      BY <3>3, RowFacts
    <3>5. aliases[k].canonical = id
      BY <3>2
    <3> QED BY <3>2, <3>4, <3>5
  <2>2. CASE ~(k[2] = Global /\ \E w \in written : w[1] = k[1])
    BY <1>1, <2>2, RowFacts DEF NoRow
  <2> QED BY <2>1, <2>2
<1>4. /\ aliases \in [Keys -> Rows] /\ NoRows \in [Keys -> Rows]
      /\ \A k \in Keys : NoRows[k] = NoRow /\ ~Live(NoRows[k])
  BY <1>1, <1>3, RowFacts DEF NoRows, Live
<1>5. /\ draftAliases = NoRows /\ index = NoRows /\ draftEntities = {}
      /\ \A e \in Evals : results[e] = <<>> /\ draftResults[e] = <<>>
      /\ results \in [Evals -> Seq(Ids)] /\ draftResults \in [Evals -> Seq(Ids)]
      /\ draftResults = [e \in Evals |-> <<>>]
      /\ snap = NoSnap /\ memo = NoMemo /\ run = NoRun /\ todo = <<>> /\ answer = NoAnswer
      /\ minted = 0 /\ runs = 0 /\ records = 0 /\ seen = [r \in Raws |-> {}]
  BY DEF Init
<1>6. /\ NoSnap.aliases = [k \in Keys |-> NoId] /\ NoSnap.entities = {}
      /\ NoSnap \in [built : BOOLEAN, aliases : [Keys -> MaybeIds], entities : SUBSET Ids]
      /\ ~NoSnap.built
      /\ NoMemo \in [Raws -> MaybeIds] /\ \A r \in Raws : NoMemo[r] = NoId
  BY DEF NoSnap, NoMemo, MaybeIds
<1>7. TypeOK
  <2>1. NoRun \in [config : Scopes, rerun : BOOLEAN]
    BY KeyFacts DEF NoRun
  <2>2. NoAnswer \in [eval : Evals \cup {"none"}, ids : Seq(Ids)]
    BY DEF NoAnswer
  <2>3. 0 \in 0 .. MaxMint /\ 0 \in 0 .. MaxRuns /\ 0 \in 0 .. MaxRecords
    BY ChainAssumption, RegistryAssumption
  <2> QED BY <1>2, <1>4, <1>5, <1>6, <2>1, <2>2, <2>3 DEF TypeOK, MaybeIds
<1>8. Control
  BY <1>5 DEF Control
<1>9. StoreOK(AliasState)
  BY <1>4, <1>5 DEF StoreOK, Stores, IndexHas, AliasState
<1>10. OneRow
  BY <1>5 DEF OneRow
<1>11. Closed
  <2>1. \A k \in Keys : RowOf(k) = aliases[k]
    BY <1>4, <1>5 DEF RowOf
  <2>2. \A e \in Evals : Range(results[e]) \cup Range(draftResults[e]) = {}
    BY <1>5 DEF Range
  <2>3. Range(answer.ids) = {}
    BY <1>5 DEF NoAnswer, Range
  <2> QED BY <1>3, <1>5, <1>6, <2>1, <2>2, <2>3 DEF Closed, Registered
<1>12. NothingLeftBehind
  BY <1>4, <1>5, <1>6 DEF NothingLeftBehind, IndexBuilt
<1>13. DraftsMemoized
  BY <1>4, <1>5 DEF DraftsMemoized
<1>14. Answered
  BY <1>5 DEF Answered, Running
<1> QED BY <1>7, <1>8, <1>9, <1>10, <1>11, <1>12, <1>13, <1>14 DEF IInv

(* A new run starts with empty caches and the rows in force in its index.   *)
LEMMA StartStep ==
  ASSUME IInv, NEW config \in Configs, NEW rerun \in Reruns, StartRun(config, rerun)
  PROVE  IInv' /\ \A k \in Keys : RowOf(k)' = RowOf(k)
<1>1. /\ ~Running /\ runs < MaxRuns /\ run' = [config |-> config, rerun |-> rerun]
      /\ runs' = runs + 1 /\ records' = 0
      /\ index' = [k \in Keys |-> IF Live(draftAliases[k]) THEN draftAliases[k] ELSE aliases[k]]
      /\ snap' = NoSnap /\ memo' = NoMemo /\ seen' = [r \in Raws |-> {}]
      /\ UNCHANGED <<entities, aliases, results, draftEntities, draftAliases, draftResults,
                     todo, answer, minted>>
  BY DEF StartRun, table, pending
<1>2. \A k \in Keys : RowOf(k)' = RowOf(k)
  BY <1>1 DEF RowOf
<1>3. /\ NoSnap.aliases = [k \in Keys |-> NoId] /\ NoSnap.entities = {}
      /\ NoSnap \in [built : BOOLEAN, aliases : [Keys -> MaybeIds], entities : SUBSET Ids]
      /\ NoMemo \in [Raws -> MaybeIds] /\ \A r \in Raws : NoMemo[r] = NoId
  BY DEF NoSnap, NoMemo, MaybeIds
<1>4. /\ answer = NoAnswer /\ todo = <<>> /\ draftAliases = NoRows
      /\ \A k \in Keys : ~Live(draftAliases[k])
  BY <1>1 DEF IInv, Control, NothingLeftBehind, NoRows, Live
<1>5. TypeOK'
  <2>1. run' \in [config : Scopes, rerun : BOOLEAN]
    BY <1>1, RegistryAssumption DEF Scopes
  <2>2. runs' \in 0 .. MaxRuns /\ records' \in 0 .. MaxRecords
    BY <1>1, RegistryAssumption DEF IInv, TypeOK
  <2>3. index' \in [Keys -> Rows]
    BY <1>1 DEF IInv, TypeOK
  <2>4. seen' \in [Raws -> SUBSET Ids]
    BY <1>1
  <2> QED BY <1>1, <1>3, <2>1, <2>2, <2>3, <2>4 DEF IInv, TypeOK, MaybeIds
<1>6. Control'
  BY <1>1, <1>4 DEF Control
<1>7. StoreOK(AliasState)'
  <2>1. \A k \in Keys : index'[k] = RowOf(k)'
    BY <1>1, <1>2 DEF RowOf
  <2> QED BY <1>1, <1>5, <2>1 DEF IInv, StoreOK, Stores, AliasState, InForce, RowOf, TypeOK
<1>8. OneRow' /\ Closed'
  BY <1>1, <1>2, <1>3 DEF IInv, OneRow, Closed, Registered
<1>9. NothingLeftBehind'
  <2>1. Running'
    BY <1>1, ChainAssumption DEF Running, NoRun
  <2> QED BY <2>1 DEF NothingLeftBehind
<1>10. DraftsMemoized'
  BY <1>1, <1>4 DEF DraftsMemoized
<1>11. Answered'
  BY <1>1, <1>3 DEF Answered
<1> QED BY <1>2, <1>5, <1>6, <1>7, <1>8, <1>9, <1>10, <1>11 DEF IInv

(* The buffer lands, and nothing of the run is left.                        *)
LEMMA EndStep ==
  ASSUME IInv, EndRun
  PROVE  IInv' /\ \A k \in Keys : RowOf(k)' = RowOf(k)
<1>1. /\ answer = NoAnswer /\ todo = <<>> /\ entities' = entities \cup draftEntities
      /\ aliases' = [k \in Keys |-> IF Live(draftAliases[k]) THEN draftAliases[k] ELSE aliases[k]]
      /\ results' = [e \in Evals |-> IF draftResults[e] # <<>> THEN draftResults[e] ELSE results[e]]
      /\ draftEntities' = {} /\ draftAliases' = NoRows
      /\ draftResults' = [e \in Evals |-> <<>>] /\ index' = NoRows
      /\ run' = NoRun /\ snap' = NoSnap /\ memo' = NoMemo
      /\ UNCHANGED <<todo, answer, minted, runs, records, seen>>
  BY DEF EndRun, FlushAndClear, BetweenRecords, bounds, IInv, Control
<1>2. /\ NoSnap.aliases = [k \in Keys |-> NoId] /\ NoSnap.entities = {} /\ ~NoSnap.built
      /\ NoSnap \in [built : BOOLEAN, aliases : [Keys -> MaybeIds], entities : SUBSET Ids]
      /\ NoMemo \in [Raws -> MaybeIds] /\ \A r \in Raws : NoMemo[r] = NoId
      /\ NoRows \in [Keys -> Rows] /\ \A k \in Keys : ~Live(NoRows[k])
  BY RowFacts DEF NoSnap, NoMemo, MaybeIds, NoRows, Live
<1>3. Registered' = Registered
  BY <1>1 DEF Registered
<1>4. /\ \A k \in Keys : RowOf(k)' = RowOf(k) /\ aliases'[k] = RowOf(k)
  BY <1>1, <1>2 DEF RowOf
<1>5. TypeOK'
  <2>1. aliases' \in [Keys -> Rows] /\ results' \in [Evals -> Seq(Ids)]
          /\ draftResults' \in [Evals -> Seq(Ids)]
    BY <1>1 DEF IInv, TypeOK
  <2>2. NoRun \in [config : Scopes, rerun : BOOLEAN]
    BY KeyFacts DEF NoRun
  <2> QED BY <1>1, <1>2, <2>1, <2>2 DEF IInv, TypeOK, MaybeIds
<1>6. Control'
  BY <1>1 DEF Control
<1>7. StoreOK(AliasState)'
  BY <1>1, <1>2, <1>5 DEF StoreOK, Stores, IndexHas, AliasState, TypeOK
<1>8. OneRow'
  BY <1>1 DEF OneRow
<1>9. Closed'
  <2>1. \A e \in Evals : Range(results'[e]) \subseteq Registered /\ draftResults'[e] = <<>>
    BY <1>1 DEF IInv, Closed
  <2>2. Range(<<>>) = {}
    BY DEF Range
  <2> QED BY <1>1, <1>2, <1>3, <1>4, <2>1, <2>2 DEF IInv, Closed
<1>10. NothingLeftBehind'
  BY <1>1, <1>2 DEF NothingLeftBehind, IndexBuilt
<1>11. DraftsMemoized'
  BY <1>1, <1>2 DEF DraftsMemoized
<1>12. Answered'
  BY <1>1 DEF Answered, Running
<1> QED BY <1>4, <1>5, <1>6, <1>7, <1>8, <1>9, <1>10, <1>11, <1>12 DEF IInv

(* The steps that leave every row where it is.                              *)
LEMMA SameRows ==
  ASSUME IInv, UNCHANGED <<entities, draftEntities, aliases, draftAliases, index, run>>
  PROVE  /\ StoreOK(AliasState)' /\ Registered' = Registered
         /\ \A k \in Keys : RowOf(k)' = RowOf(k)
         /\ \A raw \in Raws : Effective(raw)' = Effective(raw)
         /\ Running' = Running
<1>1. AliasState' = AliasState
  BY DEF AliasState
<1>2. \A k \in Keys : RowOf(k)' = RowOf(k)
  BY DEF RowOf
<1>3. \A raw \in Raws : Effective(raw)' = Effective(raw)
  BY DEF Effective, RowOf
<1> QED BY <1>1, <1>2, <1>3 DEF IInv, StoreOK, IndexHas, InForce, Registered, Running

(* A row that keeps its place goes on being the effective one.              *)
LEMMA OtherRows ==
  ASSUME TypeOK, NEW raw \in Raws, run' = run,
         \A k \in Keys : k[1] = raw => RowOf(k)' = RowOf(k)
  PROVE  Effective(raw)' = Effective(raw)
<1>1. run.config \in Scopes
  BY DEF TypeOK
<1>2. PICK k \in Keys : k = <<raw, run.config>> /\ k[1] = raw
  BY <1>1, KeyFacts
<1>3. PICK g \in Keys : g = <<raw, Global>> /\ g[1] = raw
  BY KeyFacts
<1>4. RowOf(k)' = RowOf(k) /\ RowOf(g)' = RowOf(g)
  BY <1>2, <1>3
<1>5. Effective(raw) = IF Live(RowOf(k)) THEN RowOf(k) ELSE RowOf(g)
  BY <1>2, <1>3 DEF Effective
<1>6. Effective(raw)' = IF Live(RowOf(k)') THEN RowOf(k)' ELSE RowOf(g)'
  BY <1>2, <1>3 DEF Effective, RowOf
<1> QED BY <1>4, <1>5, <1>6

(* A record is taken from the configs.                                      *)
LEMMA TakeStep ==
  ASSUME IInv, NEW rec \in Records, TakeRecord(rec)
  PROVE  IInv' /\ \A k \in Keys : RowOf(k)' = RowOf(k)
<1>1. /\ Running /\ answer = NoAnswer /\ records < MaxRecords /\ records' = records + 1
      /\ todo' = rec.raws /\ answer' = [eval |-> rec.eval, ids |-> <<>>]
      /\ UNCHANGED <<entities, aliases, results, draftEntities, draftAliases, draftResults,
                     index, snap, memo, run, minted, runs, seen>>
  BY DEF TakeRecord, BetweenRecords, table, pending, service
<1>2. /\ StoreOK(AliasState)' /\ Registered' = Registered
      /\ \A k \in Keys : RowOf(k)' = RowOf(k)
      /\ \A raw \in Raws : Effective(raw)' = Effective(raw)
  BY <1>1, SameRows
<1>3. rec.raws \in Seq(Raws) /\ rec.eval # "none" /\ rec.eval \in Evals
  BY RegistryAssumption DEF Evals
<1>4. /\ answer' \in [eval : Evals \cup {"none"}, ids : Seq(Ids)]
      /\ answer'.eval \in Evals /\ answer' # NoAnswer /\ Range(answer'.ids) = {}
  BY <1>1, <1>3 DEF NoAnswer, Range
<1>5. TypeOK'
  <2>1. records' \in 0 .. MaxRecords
    BY <1>1, RegistryAssumption DEF IInv, TypeOK
  <2> QED BY <1>1, <1>3, <1>4, <2>1 DEF IInv, TypeOK
<1>6. Running'
  BY <1>1 DEF Running
<1>7. Control'
  BY <1>4, <1>6 DEF Control
<1>9. OneRow' /\ Closed' /\ DraftsMemoized'
  BY <1>1, <1>2, <1>4 DEF IInv, OneRow, Closed, DraftsMemoized
<1>10. NothingLeftBehind'
  BY <1>6 DEF NothingLeftBehind
<1>11. Answered'
  BY <1>1, <1>2 DEF IInv, Answered, Running
<1> QED BY <1>2, <1>5, <1>7, <1>9, <1>10, <1>11 DEF IInv

(* The results of a record land in the table or the buffer, never in both.  *)
LEMMA FinishStep ==
  ASSUME IInv, FinishRecord
  PROVE  IInv' /\ \A k \in Keys : RowOf(k)' = RowOf(k)
<1>1. /\ Running /\ answer # NoAnswer /\ todo = <<>> /\ answer' = NoAnswer
      /\ UpsertResult(answer.eval, answer.ids)
      /\ UNCHANGED <<entities, aliases, draftEntities, draftAliases,
                     index, snap, memo, run, todo, minted, runs, records, seen>>
  BY DEF FinishRecord, BetweenRecords, service, bounds
<1>2. /\ StoreOK(AliasState)' /\ Registered' = Registered
      /\ \A k \in Keys : RowOf(k)' = RowOf(k)
      /\ \A raw \in Raws : Effective(raw)' = Effective(raw)
  BY <1>1, SameRows
<1>3. /\ answer.eval \in Evals /\ answer.ids \in Seq(Ids) /\ Range(answer.ids) \subseteq Registered
      /\ results \in [Evals -> Seq(Ids)] /\ draftResults \in [Evals -> Seq(Ids)]
  BY <1>1 DEF IInv, Control, TypeOK, Closed
<1>4. /\ results' \in [Evals -> Seq(Ids)] /\ draftResults' \in [Evals -> Seq(Ids)]
      /\ \A e \in Evals : /\ results'[e] \in {results[e], answer.ids}
                          /\ draftResults'[e] \in {draftResults[e], answer.ids}
                          /\ results'[e] = <<>> \/ draftResults'[e] = <<>>
  <2>1. CASE draftResults[answer.eval] = <<>> /\ results[answer.eval] # <<>>
    BY <1>1, <1>3, <2>1 DEF UpsertResult, IInv, OneRow
  <2>2. CASE ~(draftResults[answer.eval] = <<>> /\ results[answer.eval] # <<>>)
    BY <1>1, <1>3, <2>2 DEF UpsertResult, IInv, OneRow
  <2> QED BY <2>1, <2>2
<1>5. NoAnswer \in [eval : Evals \cup {"none"}, ids : Seq(Ids)] /\ Range(NoAnswer.ids) = {}
  BY DEF NoAnswer, Range
<1>6. TypeOK'
  BY <1>1, <1>4, <1>5 DEF IInv, TypeOK
<1>7. Control'
  BY <1>1 DEF Control
<1>8. OneRow'
  BY <1>1, <1>4 DEF IInv, OneRow
<1>9. Closed'
  <2>1. \A e \in Evals : Range(results'[e]) \cup Range(draftResults'[e]) \subseteq Registered
    <3> TAKE e \in Evals
    <3>1. Range(results[e]) \subseteq Registered /\ Range(draftResults[e]) \subseteq Registered
      BY DEF IInv, Closed
    <3> QED BY <1>3, <1>4, <3>1
  <2> QED BY <1>1, <1>2, <1>5, <2>1 DEF IInv, Closed
<1>10. NothingLeftBehind' /\ DraftsMemoized' /\ Answered'
  BY <1>1, <1>2 DEF IInv, NothingLeftBehind, DraftsMemoized, Answered, Running
<1> QED BY <1>2, <1>6, <1>7, <1>8, <1>9, <1>10 DEF IInv

(* A record that raises leaves what its values registered.                  *)
LEMMA FailStep ==
  ASSUME IInv, FailRecord
  PROVE  IInv' /\ \A k \in Keys : RowOf(k)' = RowOf(k)
<1>1. /\ Running /\ todo' = <<>> /\ answer' = NoAnswer
      /\ UNCHANGED <<entities, aliases, results, draftEntities, draftAliases, draftResults,
                     index, snap, memo, run, minted, runs, records, seen>>
  BY DEF FailRecord, table, pending, service, bounds
<1>2. /\ StoreOK(AliasState)' /\ Registered' = Registered
      /\ \A k \in Keys : RowOf(k)' = RowOf(k)
      /\ \A raw \in Raws : Effective(raw)' = Effective(raw)
  BY <1>1, SameRows
<1>3. NoAnswer \in [eval : Evals \cup {"none"}, ids : Seq(Ids)] /\ Range(NoAnswer.ids) = {}
  BY DEF NoAnswer, Range
<1>4. TypeOK'
  BY <1>1, <1>3 DEF IInv, TypeOK
<1>5. Control'
  BY <1>1 DEF Control
<1>6. OneRow' /\ Closed'
  BY <1>1, <1>2, <1>3 DEF IInv, OneRow, Closed
<1>7. NothingLeftBehind' /\ DraftsMemoized' /\ Answered'
  BY <1>1, <1>2 DEF IInv, NothingLeftBehind, DraftsMemoized, Answered, Running
<1> QED BY <1>2, <1>4, <1>5, <1>6, <1>7 DEF IInv

(* A reviewer edits or rejects rows of the table between runs.              *)
LEMMA ReviewStep ==
  ASSUME IInv, NEW key \in Keys, NEW status \in {"confirmed", "rejected"}, Review(key, status)
  PROVE  /\ IInv'
         /\ \A k \in Keys : Live(RowOf(k)') => RowOf(k)'.canonical = RowOf(k).canonical
<1>1. /\ ~Running /\ Live(aliases[key])
      /\ aliases' = [aliases EXCEPT ![key] =
           IF status = "rejected" THEN NoRow ELSE [@ EXCEPT !.status = status]]
      /\ UNCHANGED <<entities, results, draftEntities, draftAliases, draftResults,
                     index, snap, memo, run, todo, answer, minted, runs, records, seen>>
  BY DEF Review, pending, service, bounds
<1>2. /\ \A k \in Keys : draftAliases[k] = NoRow /\ ~Live(draftAliases[k]) /\ ~Live(index[k])
  BY <1>1 DEF IInv, NothingLeftBehind, NoRows, Live, IndexBuilt
<1>3. \A k \in Keys : RowOf(k) = aliases[k] /\ RowOf(k)' = aliases'[k]
  BY <1>1, <1>2 DEF RowOf
<1>4. aliases[key] \in [canonical : Ids, status : Statuses]
  BY <1>1 DEF IInv, TypeOK, Rows, Live
<1>5. /\ aliases' \in [Keys -> Rows]
      /\ \A k \in Keys : aliases'[k].canonical \in {aliases[k].canonical, NoId}
      /\ \A k \in Keys : Live(aliases'[k]) => aliases'[k].canonical = aliases[k].canonical
  <2>1. CASE status = "rejected"
    <3>1. aliases' = [aliases EXCEPT ![key] = NoRow]
      BY <1>1, <2>1
    <3> QED BY <3>1, RowFacts DEF IInv, TypeOK, NoRow, Live
  <2>2. CASE status = "confirmed"
    <3> DEFINE row == [aliases[key] EXCEPT !.status = "confirmed"]
    <3>1. aliases' = [aliases EXCEPT ![key] = row]
      BY <1>1, <2>2
    <3>2. row \in Rows /\ row.canonical = aliases[key].canonical
      BY <1>4 DEF Rows, Statuses
    <3> HIDE DEF row
    <3> QED BY <3>1, <3>2 DEF IInv, TypeOK
  <2> QED BY <2>1, <2>2
<1>6. TypeOK' /\ Control' /\ OneRow' /\ DraftsMemoized'
  BY <1>1, <1>5 DEF IInv, TypeOK, Control, Running, OneRow, DraftsMemoized
<1>7. StoreOK(AliasState)'
  <2>1. /\ aliases' \in [Keys -> Rows] /\ draftAliases' \in [Keys -> Rows]
             /\ index' \in [Keys -> Rows]
    BY <1>6 DEF TypeOK
  <2>2. \A k \in Keys : ~Live(draftAliases'[k]) /\ ~Live(index'[k])
    BY <1>1, <1>2
  <2> QED BY <2>1, <2>2 DEF StoreOK, Stores, IndexHas, AliasState
<1>8. Closed'
  <2>1. \A k \in Keys : aliases[k].canonical \in Registered \cup {NoId}
    BY <1>3 DEF IInv, Closed
  <2>2. \A k \in Keys : RowOf(k)'.canonical \in Registered \cup {NoId}
    BY <1>3, <1>5, <2>1
  <2>3. Registered' = Registered
    BY <1>1 DEF Registered
  <2> QED BY <1>1, <2>2, <2>3 DEF IInv, Closed
<1>9. NothingLeftBehind' /\ Answered'
  BY <1>1 DEF IInv, NothingLeftBehind, IndexBuilt, Answered, Running
<1> QED BY <1>3, <1>5, <1>6, <1>7, <1>8, <1>9 DEF IInv

(* The answers that change no row: the memo's, and a stored alias's.        *)
LEMMA ServeStep ==
  ASSUME IInv, ServeMemo \/ ServeAlias
  PROVE  IInv' /\ \A k \in Keys : RowOf(k)' = RowOf(k)
<1> DEFINE raw == Head(todo)
<1>1. /\ todo # <<>> /\ ~run.rerun
      /\ UNCHANGED <<entities, aliases, results, draftEntities, draftAliases, draftResults,
                     index, run, minted, runs, records>>
  BY DEF ServeMemo, ServeAlias, table, pending, service, bounds
<1>2. raw \in Raws /\ run.config \in Scopes /\ Running
  BY <1>1, HeadTailProperties DEF IInv, TypeOK, Control
<1>3. /\ StoreOK(AliasState)' /\ Registered' = Registered
      /\ \A k \in Keys : RowOf(k)' = RowOf(k)
      /\ \A r \in Raws : Effective(r)' = Effective(r)
      /\ Running'
  BY <1>1, <1>2, SameRows
<1>4. \E id \in Ids :
        /\ Answer(raw, id) /\ id \in Registered
        /\ memo' \in [Raws -> MaybeIds] /\ memo'[raw] = id
        /\ \A r \in Raws \ {raw} : memo'[r] = memo[r]
        /\ memo[raw] = id \/ (memo[raw] = NoId /\ Live(Effective(raw))
             /\ id = Effective(raw).canonical)
  <2>1. CASE ServeMemo
    <3>1. /\ memo[raw] # NoId /\ Answer(raw, memo[raw]) /\ memo' = memo
      BY <2>1 DEF ServeMemo, service
    <3> QED BY <1>2, <3>1 DEF IInv, TypeOK, Closed, MaybeIds
  <2>2. CASE ServeAlias
    <3> DEFINE row == GetAlias(raw, run.config)
    <3>1. /\ memo[raw] = NoId /\ Live(row) /\ Answer(raw, row.canonical)
          /\ Memoize(raw, row.canonical)
      BY <2>2 DEF ServeAlias
    <3>2. \A x \in Scopes : ~Live(draftAliases[<<raw, x>>])
      <4>1. \A x \in Scopes : <<raw, x>> \in Keys /\ <<raw, x>>[1] = raw
        BY <1>2, KeyFacts
      <4> QED BY <3>1, <4>1 DEF IInv, DraftsMemoized
    <3>3. row \in Rows /\ row = Effective(raw) /\ row = RowOf(AliasKey(raw, run.config))
      BY <1>2, <3>1, <3>2, GetAliasFacts DEF IInv, Effective
    <3>4. AliasKey(raw, run.config) \in Keys
      <4>1. AliasKey(raw, run.config) \in {<<raw, run.config>>, <<raw, Global>>}
        BY <1>2, GetAliasFacts DEF IInv
      <4> QED BY <1>2, <4>1, KeyFacts
    <3>5. row.canonical \in Ids /\ row.canonical \in Registered
      BY <3>1, <3>3, <3>4, RowFacts DEF IInv, Closed
    <3>6. /\ memo' = [memo EXCEPT ![raw] = row.canonical] /\ memo \in [Raws -> MaybeIds]
      BY <3>1 DEF Memoize, IInv, TypeOK, MaybeIds
    <3> HIDE DEF row, raw
    <3>7. /\ memo' \in [Raws -> MaybeIds] /\ memo'[raw] = row.canonical
          /\ \A r \in Raws \ {raw} : memo'[r] = memo[r]
      BY <1>2, <3>5, <3>6 DEF MaybeIds
    <3> QED BY <3>1, <3>3, <3>5, <3>7
  <2> QED BY <2>1, <2>2
<1>5. PICK id \in Ids :
        /\ Answer(raw, id) /\ id \in Registered
        /\ memo' \in [Raws -> MaybeIds] /\ memo'[raw] = id
        /\ \A r \in Raws \ {raw} : memo'[r] = memo[r]
        /\ memo[raw] = id \/ (memo[raw] = NoId /\ Live(Effective(raw))
             /\ id = Effective(raw).canonical)
  BY <1>4
<1>6. /\ answer' \in [eval : Evals \cup {"none"}, ids : Seq(Ids)]
      /\ answer'.eval \in Evals /\ answer' # NoAnswer
      /\ Range(answer'.ids) = Range(answer.ids) \cup {id}
      /\ todo' \in Seq(Raws)
      /\ seen' = [seen EXCEPT ![raw] = @ \cup {id}] /\ seen' \in [Raws -> SUBSET Ids]
  BY <1>1, <1>5, AnswerStep
<1>7. /\ snap' \in [built : BOOLEAN, aliases : [Keys -> MaybeIds], entities : SUBSET Ids]
      /\ \A k \in Keys : snap'.aliases[k] \in Registered \cup {NoId}
      /\ snap'.entities \subseteq Registered
  <2>1. snap' = snap \/ snap' = Resolver
    BY DEF ServeMemo, ServeAlias, service
  <2>2. CASE snap' = snap
    BY <2>2 DEF IInv, TypeOK, Closed, MaybeIds
  <2>3. CASE snap' = Resolver
    BY <2>3, ResolverFacts DEF IInv
  <2> QED BY <2>1, <2>2, <2>3
<1>8. TypeOK'
  BY <1>1, <1>5, <1>6, <1>7 DEF IInv, TypeOK, MaybeIds
<1>9. Control'
  BY <1>3, <1>6 DEF Control
<1>10. OneRow'
  BY <1>1 DEF IInv, OneRow
<1>11. Closed'
  BY <1>1, <1>2, <1>3, <1>5, <1>6, <1>7 DEF IInv, Closed
<1>12. NothingLeftBehind'
  BY <1>3 DEF NothingLeftBehind
<1>13. DraftsMemoized'
  <2>1. SUFFICES ASSUME NEW k \in Keys, Live(draftAliases[k]) PROVE memo'[k[1]] # NoId
    BY <1>1 DEF DraftsMemoized
  <2>2. k[1] \in Raws /\ memo[k[1]] # NoId
    BY <2>1, KeyFacts DEF IInv, DraftsMemoized
  <2> QED BY <1>5, <2>2, IdFacts
<1>14. Answered'
  <2>1. SUFFICES ASSUME NEW r \in Raws, HitKind[r] = "never"
        PROVE  /\ \A x \in seen'[r] : memo'[r] = x
               /\ memo'[r] # NoId => Live(Effective(r)) /\ memo'[r] = Effective(r).canonical
    BY <1>3 DEF Answered
  <2>2. /\ \A x \in seen[r] : memo[r] = x
        /\ memo[r] # NoId => Live(Effective(r)) /\ memo[r] = Effective(r).canonical
    BY <1>1, <1>2, <2>1 DEF IInv, Answered
  <2>3. seen[r] \in SUBSET Ids
    BY DEF IInv, TypeOK
  <2>4. CASE r = raw
    BY <1>2, <1>5, <1>6, <2>2, <2>3, <2>4, IdFacts DEF IInv, TypeOK
  <2>5. CASE r # raw
    BY <1>2, <1>5, <1>6, <2>2, <2>5 DEF IInv, TypeOK
  <2> QED BY <2>4, <2>5
<1> QED BY <1>3, <1>8, <1>9, <1>10, <1>11, <1>12, <1>13, <1>14 DEF IInv

(* The resolves that write aliases.                                         *)
LEMMA FlagHolds ==
  ASSUME IInv, FlagDisagreement
  PROVE  IInv' /\ \A k \in Keys : Live(RowOf(k)) => RowOf(k)'.canonical = RowOf(k).canonical
<1> DEFINE raw == Head(todo)
<1>1. PICK s : SettlesTo(raw, s)
  BY FlagStep
<1>2. /\ ~run.rerun /\ HitKind[raw] # "never"
      /\ \A k \in Keys : Live(RowOf(k)) => RowOf(k)'.canonical = RowOf(k).canonical
  BY FlagStep
<1>3. /\ TypeOK' /\ Control' /\ StoreOK(AliasState)' /\ OneRow' /\ Closed'
      /\ NothingLeftBehind' /\ DraftsMemoized'
  BY <1>1, SettlesStep
<1>4. /\ raw \in Raws /\ Running
      /\ seen' = [seen EXCEPT ![raw] = @ \cup {s.id}]
      /\ memo' = [memo EXCEPT ![raw] = s.id] /\ run' = run
      /\ \A k \in Keys : k[1] # raw => RowOf(k)' = RowOf(k)
  BY <1>1, AnswerStep DEF SettlesTo, Memoize
<1>5. Answered'
  <2>1. SUFFICES ASSUME NEW r \in Raws, HitKind[r] = "never"
        PROVE  /\ \A x \in seen'[r] : memo'[r] = x
               /\ memo'[r] # NoId => Live(Effective(r)') /\ memo'[r] = Effective(r)'.canonical
    BY DEF Answered
  <2>2. /\ r # raw /\ seen'[r] = seen[r] /\ memo'[r] = memo[r]
    BY <1>2, <1>4, <2>1 DEF IInv, TypeOK
  <2>3. Effective(r)' = Effective(r)
    BY <1>4, <2>2, OtherRows DEF IInv
  <2> QED BY <1>2, <1>4, <2>1, <2>2, <2>3 DEF IInv, Answered
<1> QED BY <1>2, <1>3, <1>5 DEF IInv

(* In a run that is no rerun, what they answer is what the new row says.    *)
LEMMA AfreshHolds ==
  ASSUME IInv, ResolveAfresh
  PROVE  /\ IInv'
         /\ \A k \in Keys : Live(RowOf(k)) =>
              \/ RowOf(k)'.canonical = RowOf(k).canonical
              \/ run.rerun /\ RowOf(k).status # "confirmed"
<1> DEFINE raw == Head(todo)
<1>1. PICK s : /\ SettlesTo(raw, s)
               /\ \A k \in Keys : Live(RowOf(k)) =>
                    \/ RowOf(k)'.canonical = RowOf(k).canonical
                    \/ run.rerun /\ RowOf(k).status # "confirmed"
               /\ ~run.rerun =>
                    /\ memo[raw] = NoId
                    /\ \A k \in Keys : k = <<raw, run.config>> =>
                         Live(RowOf(k)') /\ RowOf(k)'.canonical = s.id
  BY AfreshStep
<1>2. /\ TypeOK' /\ Control' /\ StoreOK(AliasState)' /\ OneRow' /\ Closed'
      /\ NothingLeftBehind' /\ DraftsMemoized'
  BY <1>1, SettlesStep
<1>3. /\ raw \in Raws /\ Running /\ s.id \in Ids
      /\ seen' = [seen EXCEPT ![raw] = @ \cup {s.id}]
      /\ memo' = [memo EXCEPT ![raw] = s.id] /\ run' = run
      /\ \A k \in Keys : k[1] # raw => RowOf(k)' = RowOf(k)
  BY <1>1, AnswerStep DEF SettlesTo, Memoize
<1>4. Answered'
  <2>1. SUFFICES ASSUME ~run.rerun, NEW r \in Raws, HitKind[r] = "never"
        PROVE  /\ \A x \in seen'[r] : memo'[r] = x
               /\ memo'[r] # NoId => Live(Effective(r)') /\ memo'[r] = Effective(r)'.canonical
    BY <1>3 DEF Answered
  <2>2. \A x \in seen[r] : memo[r] = x /\ x # NoId
    BY <1>3, <2>1, IdFacts DEF IInv, Answered, TypeOK
  <2>3. CASE r # raw
    <3>1. seen'[r] = seen[r] /\ memo'[r] = memo[r]
      BY <1>3, <2>3 DEF IInv, TypeOK
    <3>2. Effective(r)' = Effective(r)
      BY <1>3, <2>3, OtherRows DEF IInv
    <3> QED BY <1>3, <2>1, <3>1, <3>2 DEF IInv, Answered
  <2>4. CASE r = raw
    <3>1. memo'[r] = s.id /\ seen'[r] = seen[r] \cup {s.id} /\ memo[r] = NoId
      BY <1>1, <1>3, <2>1, <2>4 DEF IInv, TypeOK
    <3>2. Live(Effective(r)') /\ Effective(r)'.canonical = s.id
      <4>1. run.config \in Scopes
        BY DEF IInv, TypeOK
      <4>2. PICK k \in Keys : k = <<r, run.config>>
        BY <4>1, KeyFacts
      <4>3. Live(RowOf(k)') /\ RowOf(k)'.canonical = s.id
        BY <1>1, <2>1, <2>4, <4>2
      <4>4. Effective(r)' = RowOf(k)'
        BY <1>3, <4>2, <4>3 DEF Effective, RowOf
      <4> QED BY <4>3, <4>4
    <3> QED BY <2>2, <3>1, <3>2
  <2> QED BY <2>3, <2>4
<1> QED BY <1>1, <1>2, <1>4 DEF IInv

(* Every step keeps the invariant, and repoints a row as a rerun may only.  *)
LEMMA NextStep ==
  ASSUME IInv, [Next]_vars
  PROVE  /\ IInv'
         /\ \A k \in Keys : Live(RowOf(k)) /\ Live(RowOf(k)') =>
              \/ RowOf(k)'.canonical = RowOf(k).canonical
              \/ run.rerun /\ RowOf(k).status # "confirmed"
<1>1. ASSUME NEW config \in Configs, NEW rerun \in Reruns, StartRun(config, rerun)
      PROVE  IInv' /\ \A k \in Keys : RowOf(k)' = RowOf(k)
  BY <1>1, StartStep
<1>2. ASSUME NEW rec \in Records, TakeRecord(rec)
      PROVE  IInv' /\ \A k \in Keys : RowOf(k)' = RowOf(k)
  BY <1>2, TakeStep
<1>3. ASSUME NEW key \in Keys, NEW status \in {"confirmed", "rejected"}, Review(key, status)
      PROVE  /\ IInv'
             /\ \A k \in Keys : Live(RowOf(k)') => RowOf(k)'.canonical = RowOf(k).canonical
  BY <1>3, ReviewStep
<1>4. CASE ServeMemo \/ ServeAlias
  BY <1>4, ServeStep
<1>5. CASE FlagDisagreement
  BY <1>5, FlagHolds
<1>6. CASE ResolveAfresh
  BY <1>6, AfreshHolds
<1>7. CASE FinishRecord
  BY <1>7, FinishStep
<1>8. CASE FailRecord
  BY <1>8, FailStep
<1>9. CASE EndRun
  BY <1>9, EndStep
<1>10. CASE UNCHANGED vars
  <2>1. /\ UNCHANGED <<entities, aliases, results, draftEntities, draftAliases, draftResults,
                       index, snap, memo, run, todo, answer, minted, runs, records, seen>>
    BY <1>10 DEF vars, table, pending, service, bounds
  <2>2. /\ StoreOK(AliasState)' /\ Registered' = Registered
        /\ \A k \in Keys : RowOf(k)' = RowOf(k)
        /\ \A raw \in Raws : Effective(raw)' = Effective(raw)
        /\ Running' = Running
    BY <2>1, SameRows
  <2>3. TypeOK' /\ Control' /\ OneRow' /\ DraftsMemoized' /\ NothingLeftBehind'
    BY <2>1 DEF IInv, TypeOK, Control, Running, OneRow, DraftsMemoized, NothingLeftBehind, IndexBuilt
  <2>4. Closed' /\ Answered'
    BY <2>1, <2>2 DEF IInv, Closed, Answered
  <2> QED BY <2>2, <2>3, <2>4 DEF IInv
<1> QED BY <1>1, <1>2, <1>3, <1>4, <1>5, <1>6, <1>7, <1>8, <1>9, <1>10 DEF Next

(* The invariant holds in every reachable state.                            *)
LEMMA Invariance == Spec => []IInv
<1>1. IInv /\ [Next]_vars => IInv'
  BY NextStep
<1> QED BY <1>1, InitHolds, PTL DEF Spec

-----------------------------------------------------------------------------
(* Types of the sync process: rows, buffer, index, snapshot and memo.       *)
THEOREM TypeCorrect == Spec => []TypeOK
<1>1. IInv => TypeOK
  BY DEF IInv
<1> QED BY <1>1, Invariance, PTL

(* Tables and buffer make one registry: no alias, answer or result row ever *)
(* names an unregistered entity, and a flush never gives a key two rows,    *)
(* whichever records fail.                                                  *)
THEOREM RegistryWholeHolds == Spec => []RegistryWhole
<1>1. IInv => RegistryWhole
  <2> SUFFICES ASSUME IInv PROVE RegistryWhole
    OBVIOUS
  <2>1. FlushNeverDuplicates
    BY DEF IInv, OneRow, StoreOK, AliasState, FlushNeverDuplicates
  <2>2. \A key \in Keys : Live(RowOf(key)) => RowOf(key).canonical \in Registered
    <3> TAKE key \in Keys
    <3>1. RowOf(key) \in Rows
      BY DEF IInv, TypeOK, RowOf
    <3> QED BY <3>1, RowFacts DEF IInv, Closed
  <2>3. ASSUME ~Running
        PROVE  /\ Registered = entities
               /\ \A key \in Keys : RowOf(key) = aliases[key]
    BY <2>3 DEF IInv, NothingLeftBehind, NoRows, Registered, RowOf, Live
  <2> QED BY <2>1, <2>2, <2>3 DEF IInv, Closed, RegistryWhole, NothingDangles
<1> QED BY <1>1, Invariance, PTL

(* The alias index, the memo and the snapshot agree with the rows they      *)
(* shadow and end with their run.                                           *)
THEOREM CachesAgreeHolds == Spec => []CachesAgree
<1>1. IInv => CachesAgree
  <2> SUFFICES ASSUME IInv PROVE CachesAgree
    OBVIOUS
  <2>1. IndexCoherent
    BY DEF IInv, StoreOK, IndexHas, AliasState, InForce, IndexCoherent, IndexBuilt, RowOf
  <2>2. AnswersMatchAliases
    <3>1. SUFFICES ASSUME Running, ~run.rerun, NEW raw \in Raws, HitKind[raw] = "never",
                          NEW id \in seen[raw]
                   PROVE  id = Effective(raw).canonical
      BY DEF AnswersMatchAliases, Effective
    <3>2. id # NoId
      BY IdFacts DEF IInv, TypeOK
    <3> QED BY <3>1, <3>2 DEF IInv, Answered
  <2> QED BY <2>1, <2>2 DEF IInv, CachesAgree
<1> QED BY <1>1, Invariance, PTL

(* Only a rerun repoints an alias, and never a confirmed one.               *)
THEOREM NeverSilentlyRepointedHolds == Spec => NeverSilentlyRepointed
<1>1. IInv /\ [Next]_vars =>
        [\A key \in Keys : Live(RowOf(key)) /\ Live(RowOf(key)') =>
           \/ RowOf(key)'.canonical = RowOf(key).canonical
           \/ run.rerun /\ RowOf(key).status # "confirmed"]_vars
  BY NextStep
<1> QED BY <1>1, Invariance, PTL DEF Spec, NeverSilentlyRepointed
=============================================================================
