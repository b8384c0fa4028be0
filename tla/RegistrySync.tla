---------------------------- MODULE RegistrySync ----------------------------
(***************************************************************************)
(* One process that syncs EEE configs into the registry: run_sync of        *)
(* services/ingestion.py, ResolutionService.resolve and the tables, pending *)
(* buffer and alias index of store/queries.py.  The process is single       *)
(* threaded, so a resolve is one action; what interleaves is the order of   *)
(* records, runs, failing records, failing downloads and reviewer edits.    *)
(* Draft metadata (lineage, org drafts, enrichment) is left out.            *)
(***************************************************************************)
EXTENDS ResolverChain, Functions

CONSTANTS
  Records,   \* EEE records: [eval, raws], raws in the order they are resolved
  Reruns,    \* values of the --rerun flag runs may be started with
  SeedIds,   \* entities earlier runs and the seed may have registered
  SeedAliases, \* <<raw, id>> pairs the seed may have written an alias for
  MaxRuns,   \* bound on the runs started
  MaxRecords \* bound on the records of one run

\* A record carries an evaluation and raw values; the seed writes aliases of what it adds.
ASSUME RegistryAssumption ==
  /\ \A rec \in Records : rec.raws \in Seq(Raws) /\ rec.eval # "none"
  /\ Reruns \subseteq BOOLEAN /\ MaxRuns \in Nat /\ MaxRecords \in Nat
  /\ SeedIds \subseteq Ids /\ SeedAliases \subseteq Raws \X SeedIds

Evals == {rec.eval : rec \in Records}
Statuses == {"auto", "uncertain", "confirmed"}
NoRow == [canonical |-> NoId, status |-> "none"]
Rows == [canonical : Ids, status : Statuses] \cup {NoRow}
NoRun == [config |-> Global, rerun |-> FALSE]

VARIABLES
  entities,       \* ids in the canonical tables
  aliases,        \* live rows of the aliases table; a rejected row is never
                  \* read again and is modelled as absent
  results,        \* eval_results table: eval -> canonical ids, <<>> if absent
  draftEntities, draftAliases, draftResults,  \* the pending buffer
  index,          \* _alias_index; all NoRow means "not built"
  snap,           \* svc._resolver: [built, aliases, entities]
  memo,           \* svc._resolve_cache for the run's config: raw -> id
  run,            \* the run in progress, or NoRun
  todo,           \* raw values of the record still to be resolved
  answer,         \* [eval, ids]: canonical ids resolved for the record
  minted,         \* uuid suffixes used so far
  runs, records,  \* counters that bound the model
  seen            \* history: ids each raw value was answered with in this run

table == <<entities, aliases, results>>
pending == <<draftEntities, draftAliases, draftResults>>
service == <<snap, memo>>
bounds == <<runs, records>>
vars == <<table, pending, index, service, run, todo, answer, minted, bounds, seen>>

NoAnswer == [eval |-> "none", ids |-> <<>>]
NoSnap == [built |-> FALSE, aliases |-> [k \in Keys |-> NoId], entities |-> {}]
NoRows == [k \in Keys |-> NoRow]
NoMemo == [r \in Raws |-> NoId]

Live(row) == row # NoRow
IndexBuilt == \E k \in Keys : Live(index[k])

\* A registry the seed and reviewers may leave behind: seeded aliases are
\* confirmed, global and name seeded entities; a reviewer may have rejected any.
Init ==
  /\ entities \in SUBSET SeedIds
  /\ \E written \in SUBSET SeedAliases :
       /\ \A w \in written : w[2] \in entities
       /\ aliases = [k \in Keys |->
            IF k[2] = Global /\ \E w \in written : w[1] = k[1]
            THEN [canonical |-> (CHOOSE w \in written : w[1] = k[1])[2], status |-> "confirmed"]
            ELSE NoRow]
  /\ results = [e \in Evals |-> <<>>]
  /\ draftEntities = {} /\ draftAliases = NoRows /\ draftResults = results
  /\ index = NoRows
  /\ snap = NoSnap /\ memo = NoMemo
  /\ run = NoRun /\ todo = <<>> /\ answer = NoAnswer
  /\ minted = 0 /\ runs = 0 /\ records = 0
  /\ seen = [r \in Raws |-> {}]

Running == run # NoRun
BetweenRecords == Running /\ answer = NoAnswer
-----------------------------------------------------------------------------
(* store/queries.py                                                        *)

\* get_alias: the index once it is built, else the table without the pending
\* rows; a scoped row before a global one.
Consulted == IF IndexBuilt THEN index ELSE aliases
AliasKey(raw, scope) == IF Live(Consulted[<<raw, scope>>]) THEN <<raw, scope>> ELSE <<raw, Global>>
GetAlias(raw, scope) == Consulted[AliasKey(raw, scope)]

\* The alias rows of the store: what add_alias and update_alias rewrite.
AliasState == [table |-> aliases, pending |-> draftAliases, index |-> index]
WriteAliases(st) ==
  aliases' = st.table /\ draftAliases' = st.pending /\ index' = st.index

\* An index that was never built stays empty.
Indexed(st, key, row) ==
  IF \E k \in Keys : Live(st.index[k]) THEN [st EXCEPT !.index[key] = row] ELSE st

\* add_alias(buffered=True).  Every caller swallows the ValueError of a taken
\* key.
Added(st, key, row) ==
  IF Live(st.index[key]) \/ Live(st.table[key]) \/ Live(st.pending[key]) THEN st
  ELSE Indexed([st EXCEPT !.pending[key] = row], key, row)

\* Mutant of Updated: the index is not kept in sync.
UpdatedTableOnly(st, key, row) ==
  IF ~Live(st.table[key]) THEN st ELSE [st EXCEPT !.table[key] = row]

\* update_alias looks its id up in the table only: the update of a row that is
\* still in the pending buffer is dropped.
Updated(st, key, row) ==
  IF ~Live(st.table[key]) THEN st
  ELSE Indexed([st EXCEPT !.table[key] = row], key, row)

\* upsert_entity(buffered=True) merges into a table or pending row of that id.
UpsertEntity(id) ==
  draftEntities' = IF id \in entities THEN draftEntities ELSE draftEntities \cup {id}

\* Mutant of UpsertResult: the committed table is not consulted.
BufferResult(eval, ids) ==
  /\ draftResults' = [draftResults EXCEPT ![eval] = ids]
  /\ UNCHANGED results

\* upsert_eval_result: the pending row, else the table row in place, else a
\* new pending row.
UpsertResult(eval, ids) ==
  IF draftResults[eval] = <<>> /\ results[eval] # <<>>
  THEN /\ results' = [results EXCEPT ![eval] = ids]
       /\ UNCHANGED draftResults
  ELSE /\ draftResults' = [draftResults EXCEPT ![eval] = ids]
       /\ UNCHANGED results

\* flush_pending appends every buffered row to its table; run_sync then
\* clears the index.
FlushAndClear ==
  /\ entities' = entities \cup draftEntities
  /\ aliases' = [k \in Keys |-> IF Live(draftAliases[k]) THEN draftAliases[k] ELSE aliases[k]]
  /\ results' = [e \in Evals |-> IF draftResults[e] # <<>> THEN draftResults[e] ELSE results[e]]
  /\ draftEntities' = {} /\ draftAliases' = NoRows
  /\ draftResults' = [e \in Evals |-> <<>>]
  /\ index' = NoRows
-----------------------------------------------------------------------------
(* services/resolution_service.py                                          *)

\* _get_resolver: a snapshot of the alias table without the pending rows, and
\* of the entities with them.
SnapOf(rows, ids) ==
  [built |-> TRUE, aliases |-> [k \in Keys |-> rows[k].canonical], entities |-> ids]
Resolver == IF snap.built THEN snap ELSE SnapOf(aliases, entities \cup draftEntities)

\* The lookup index of the snapshot is complete before this thread reads it.
Chain(raw, hit) == Resolve(Resolver, Resolver.aliases, raw, run.config, hit, "resolve")

Answer(raw, id) ==
  /\ answer' = [answer EXCEPT !.ids = Append(@, id)]
  /\ todo' = Tail(todo)
  /\ seen' = [seen EXCEPT ![raw] = @ \cup {id}]
Memoize(raw, id) == memo' = [memo EXCEPT ![raw] = id]

\* The memoised answer of an earlier occurrence in this run.
ServeMemo ==
  /\ todo # <<>> /\ ~run.rerun
  /\ memo[Head(todo)] # NoId
  /\ Answer(Head(todo), memo[Head(todo)])
  /\ UNCHANGED <<table, pending, index, service, run, minted, bounds>>

\* An existing alias answers, unless a runtime HF attestation names another
\* repository than the alias does.
ServeAlias ==
  /\ todo # <<>> /\ ~run.rerun
  /\ LET raw == Head(todo)
         row == GetAlias(raw, run.config)
     IN /\ memo[raw] = NoId
        /\ Live(row)
        /\ \E hit \in Hits(raw) : \E fresh \in Chain(raw, hit) :
             fresh.attested => SameUpToCase(fresh.id, row.canonical)
        /\ Answer(raw, row.canonical)
        /\ Memoize(raw, row.canonical)
  /\ snap' = Resolver
  /\ UNCHANGED <<table, pending, index, run, minted, bounds>>

\* A created entity is upserted and the resolver rebuilt from the tables as
\* the alias write left them.
Register(s) ==
  /\ s.id[2] <= MaxMint
  /\ IF s.created
     THEN /\ UpsertEntity(s.id)
          /\ minted' = IF s.id[2] > 0 THEN s.id[2] ELSE minted
          /\ snap' = SnapOf(aliases', entities \cup draftEntities')
     ELSE /\ snap' = Resolver
          /\ UNCHANGED <<draftEntities, minted>>

\* Mutant of RowFor: the strategy in the status column.
RowWithStrategy(s) ==
  [canonical |-> s.id, status |-> IF s.created THEN "auto_draft" ELSE s.status]
RowFor(s) == [canonical |-> s.id, status |-> s.status]

\* Mutant of RerunAlias: confirmed rows are not protected.
RerunAnyAlias(raw, s) ==
  IF ~Live(GetAlias(raw, run.config)) THEN Added(AliasState, <<raw, run.config>>, RowFor(s))
  ELSE Updated(AliasState, AliasKey(raw, run.config), RowFor(s))

\* The alias write of a rerun.  A confirmed row that disagrees only gets a
\* note; any other row get_alias finds, the global one included, takes the new
\* resolution.
RerunAlias(raw, s) ==
  LET row == GetAlias(raw, run.config)
  IN IF ~Live(row) THEN Added(AliasState, <<raw, run.config>>, RowFor(s))
     ELSE IF row.status = "confirmed" /\ row.canonical # s.id THEN AliasState
     ELSE Updated(AliasState, AliasKey(raw, run.config), RowFor(s))

\* The alias row a disagreeing HF attestation leaves behind: never repointed,
\* flagged for review unless confirmed.
Flagged(row) == [row EXCEPT !.status = IF @ = "confirmed" THEN @ ELSE "uncertain"]

\* A runtime HF attestation disagrees with the stored alias: the alias is
\* flagged and the attested id goes down the main path, whose add_alias finds
\* the key taken unless the stored row is the global one.
FlagDisagreement ==
  /\ todo # <<>> /\ ~run.rerun
  /\ LET raw == Head(todo)
         row == GetAlias(raw, run.config)
     IN /\ memo[raw] = NoId
        /\ Live(row)
        /\ \E hit \in Hits(raw) : \E fresh \in Chain(raw, hit) :
             /\ fresh.attested /\ ~SameUpToCase(fresh.id, row.canonical)
             /\ \E s \in Settled(raw, fresh, entities, minted + 1) :
                  /\ WriteAliases(Added(Updated(AliasState, AliasKey(raw, run.config), Flagged(row)),
                                        <<raw, run.config>>, RowFor(s)))
                  /\ Register(s)
                  /\ Answer(raw, s.id)
                  /\ Memoize(raw, s.id)
  /\ UNCHANGED <<entities, results, draftResults, run, bounds>>

\* No alias yet, or a rerun: the strategy chain decides, and the decision is
\* written to the alias table.
ResolveAfresh ==
  /\ todo # <<>>
  /\ LET raw == Head(todo) IN
     /\ run.rerun \/ (memo[raw] = NoId /\ ~Live(GetAlias(raw, run.config)))
     /\ \E hit \in Hits(raw) : \E result \in Chain(raw, hit) :
          \E s \in Settled(raw, result, entities, minted + 1) :
            /\ WriteAliases(IF run.rerun THEN RerunAlias(raw, s)
                            ELSE Added(AliasState, <<raw, run.config>>, RowFor(s)))
            /\ Register(s)
            /\ Answer(raw, s.id)
            /\ Memoize(raw, s.id)
  /\ UNCHANGED <<entities, results, draftResults, run, bounds>>
-----------------------------------------------------------------------------
(* services/ingestion.py                                                   *)

\* A new ResolutionService, and the alias index rebuilt from the table.
StartRun(config, rerun) ==
  /\ ~Running /\ runs < MaxRuns
  /\ run' = [config |-> config, rerun |-> rerun]
  /\ runs' = runs + 1 /\ records' = 0
  /\ index' = [k \in Keys |-> IF Live(draftAliases[k]) THEN draftAliases[k] ELSE aliases[k]]
  /\ snap' = NoSnap /\ memo' = NoMemo
  /\ seen' = [r \in Raws |-> {}]
  /\ UNCHANGED <<table, pending, todo, answer, minted>>

TakeRecord(rec) ==
  /\ BetweenRecords /\ records < MaxRecords
  /\ records' = records + 1
  /\ todo' = rec.raws
  /\ answer' = [eval |-> rec.eval, ids |-> <<>>]
  /\ UNCHANGED <<table, pending, index, service, run, minted, runs, seen>>

\* Result rows are written once every raw value of the record is resolved.
FinishRecord ==
  /\ Running /\ ~BetweenRecords /\ todo = <<>>
  /\ UpsertResult(answer.eval, answer.ids)
  /\ answer' = NoAnswer
  /\ UNCHANGED <<entities, aliases, draftEntities, draftAliases, index, service,
                 run, todo, minted, bounds, seen>>

\* process_record raises: the error is noted and the next record is taken.
FailRecord ==
  /\ Running /\ ~BetweenRecords
  /\ todo' = <<>> /\ answer' = NoAnswer
  /\ UNCHANGED <<table, pending, index, service, run, minted, bounds, seen>>

\* The record iterator ends, or raises: the finally block flushes either way.
EndRun ==
  /\ BetweenRecords
  /\ FlushAndClear
  /\ run' = NoRun /\ snap' = NoSnap /\ memo' = NoMemo
  /\ UNCHANGED <<todo, answer, minted, bounds, seen>>

\* A reviewer patches an alias between runs; rejecting a row removes it from
\* every lookup.
Review(key, status) ==
  /\ ~Running /\ runs < MaxRuns
  /\ Live(aliases[key])
  /\ aliases' = [aliases EXCEPT ![key] =
       IF status = "rejected" THEN NoRow ELSE [@ EXCEPT !.status = status]]
  /\ UNCHANGED <<entities, results, pending, index, service, run, todo, answer,
                 minted, bounds, seen>>

Next ==
  \/ \E config \in Configs, rerun \in Reruns : StartRun(config, rerun)
  \/ \E rec \in Records : TakeRecord(rec)
  \/ ServeMemo
  \/ ServeAlias
  \/ FlagDisagreement
  \/ ResolveAfresh
  \/ FinishRecord
  \/ FailRecord
  \/ EndRun
  \/ \E key \in Keys, status \in {"confirmed", "rejected"} : Review(key, status)

Spec == Init /\ [][Next]_vars
-----------------------------------------------------------------------------
\* The alias row that is in force for a key: the buffered one or the table's.
RowOf(key) == IF Live(draftAliases[key]) THEN draftAliases[key] ELSE aliases[key]
Registered == entities \cup draftEntities

TypeOK ==
  /\ entities \in SUBSET Ids /\ draftEntities \in SUBSET Ids
  /\ aliases \in [Keys -> Rows] /\ draftAliases \in [Keys -> Rows] /\ index \in [Keys -> Rows]
  /\ results \in [Evals -> Seq(Ids)] /\ draftResults \in [Evals -> Seq(Ids)]
  /\ snap \in [built : BOOLEAN, aliases : [Keys -> Ids \cup {NoId}], entities : SUBSET Ids]
  /\ memo \in [Raws -> Ids \cup {NoId}]
  /\ run \in [config : Scopes, rerun : BOOLEAN]
  /\ todo \in Seq(Raws)
  /\ answer \in [eval : Evals \cup {"none"}, ids : Seq(Ids)]
  /\ minted \in 0 .. MaxMint /\ runs \in 0 .. MaxRuns /\ records \in 0 .. MaxRecords
  /\ seen \in [Raws -> SUBSET Ids]

\* No alias row, memoised answer or result row ever names an entity that is in
\* neither the tables nor the buffer, and the tables are closed on their own
\* between runs: drafts, their aliases and the results that cite them are
\* buffered by three different writers and land together, whatever record
\* fails in between.
NothingDangles ==
  /\ \A key \in Keys : Live(RowOf(key)) => RowOf(key).canonical \in Registered
  /\ \A raw \in Raws : memo[raw] # NoId => memo[raw] \in Registered
  /\ \A e \in Evals : Range(draftResults[e]) \subseteq Registered
  /\ ~Running =>
       /\ \A key \in Keys : Live(aliases[key]) => aliases[key].canonical \in entities
       /\ \A e \in Evals : Range(results[e]) \subseteq entities

\* flush_pending appends without looking: nothing it appends may already have
\* a row of the same key in the table, or the table gets duplicate ids.
FlushNeverDuplicates ==
  /\ entities \cap draftEntities = {}
  /\ \A key \in Keys : ~(Live(aliases[key]) /\ Live(draftAliases[key]))
  /\ \A e \in Evals : results[e] = <<>> \/ draftResults[e] = <<>>

\* The module-level index, the buffer and the answers of the service belong to
\* one run: none of them survives it, however the run ended.
NothingLeftBehind ==
  ~Running => /\ draftEntities = {} /\ draftAliases = NoRows
              /\ draftResults = [e \in Evals |-> <<>>]
              /\ ~IndexBuilt /\ ~snap.built /\ memo = NoMemo

\* While a run uses the alias index, the index holds exactly the rows in
\* force: every add and update reaches it, also for rows still in the buffer.
IndexCoherent == Running /\ IndexBuilt => \A key \in Keys : index[key] = RowOf(key)

\* A run that is not a rerun answers every occurrence of a raw value the HF
\* checker has no say in with the one id its alias names, although the memo,
\* the index, the snapshot and the table may each be what answers.
AnswersMatchAliases ==
  Running /\ ~run.rerun => \A raw \in Raws : HitKind[raw] = "never" =>
    \A id \in seen[raw] :
      LET scoped == RowOf(<<raw, run.config>>)
      IN id = (IF Live(scoped) THEN scoped ELSE RowOf(<<raw, Global>>)).canonical

\* Whatever may answer a lookup agrees with the rows it shadows, and nothing of
\* it outlives its run.
CachesAgree == IndexCoherent /\ AnswersMatchAliases /\ NothingLeftBehind

\* The tables and the buffer make one registry: closed under references, and
\* with one row per key once the buffer lands.
RegistryWhole == NothingDangles /\ FlushNeverDuplicates

\* An alias is repointed only by a rerun, and never while it is confirmed; the
\* id of an alias that is buffered is the id that lands.
NeverSilentlyRepointed ==
  [][\A key \in Keys : Live(RowOf(key)) /\ Live(RowOf(key)') =>
       \/ RowOf(key)'.canonical = RowOf(key).canonical
       \/ run.rerun /\ RowOf(key).status # "confirmed"]_vars

=============================================================================
