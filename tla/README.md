# A verification of eval-card-registry

TLA+ modules that model the parts of this repository whose correctness depends
on order, concurrency or failure, the TLC configurations that check them, and
TLAPS proofs about ten of them. Paths below are relative to the repository;
`services/` stands for `src/eval_entity_registry/services/`, `store/` for
`src/eval_entity_registry/store/`.

```
tlc -workers 2 -config MCRegistrySync.cfg MCRegistrySync     # one run
tlapm HfIdVerifierProofs.tla                                 # one module of proofs
```

| module | models | run by | proofs |
| --- | --- | --- | --- |
| `HfIdVerifier` | live tier of `services/hf_id_verifier.py` | `MCHfIdVerifier` (two cfg files) | `HfIdVerifierProofs` |
| `ResolverChain` | strategy chain of `packages/eval-entity-resolver` and the rules for drafts, as operators | used by `RegistrySync`, `ApiService` | |
| `RegistrySync` | `services/ingestion.py`, `services/resolution_service.py`, buffer and alias index of `store/queries.py`: the sync process | `MCRegistrySync` | `RegistrySyncProofs` |
| `ApiService` | the same service under the thread pool of `main.py` and `api/` | `MCApiService` | `ApiServiceProofs` |
| `HubTables` | `store/hf_store.py`, the `sync` and `seed` commands around it, the Space, `scripts/build_hub_stats_index.py` | `MCHubTables` | `HubProofs` |
| `SeedMerge` | `_load_models_merged` of `cli.py`, `lib/collision_fold.py`, `lib/org_attribution.py` | `MCSeedMerge` (two cfg files) | `SeedMergeProofs` |
| `ModelLineage` | `derive_model_lineage_fields` of `store/queries.py`, as operators | used by `SeedCommand` | `SeedCommandProofs` |
| `SeedCommand` | the rest of `seed` of `cli.py`, between syncs and curation | `MCSeedCommand` (two cfg files) | `SeedCommandProofs` |
| `ModelsDevCatalog` | what `scripts/refresh_from_modelsdev.py` generates from a catalog, as operators | used by `ModelsDevRefresh` | `ModelsDevRefreshProofs` |
| `ModelsDevRefresh` | the daily job of `refresh-models.yml`: carry-forward, reconciliation, catalog split, organisations, convergence, commit | `MCModelsDevRefresh` | `ModelsDevRefreshProofs` |
| `ResolveLog` | the promise of the resolve log (abstract) | refined by `ResolveLogWriter` | |
| `ResolveLogWriter` | `services/log_writer.py` | itself | `ResolveLogWriterProofs` |
| `ReleasePipeline` | `.github/workflows/{refresh-hub-stats,refresh-models,seed,publish-registry-data}.yml`, `scripts/publish_registry_data.py` | `MCReleasePipeline` | `HubProofs` |

How they compose: `ModelsDevRefresh` writes YAML that `SeedMerge` merges and
`SeedCommand` turns into rows; `HubTables` carries rows between processes, of
which `RegistrySync` is one and `ApiService` another; both of these share
`ResolverChain` and take the answers of `HfIdVerifier` as nondeterministic.
`ReleasePipeline` takes what a refresh commits to the published dataset.

## Inventory

The registry keeps canonical entities (models, benchmarks, metrics, harnesses,
orgs, families), the aliases that raw strings of evaluation records resolve
through, and the result rows that cite them. It is seeded from YAML, extended by
syncs of evaluation configs and served by an HTTP API; its tables are parquet
files of one Hub dataset and a published fixture of another.

**HF id verifier** (`services/hf_id_verifier.py`). *State*: a TTL cache with a
soft cap, a set of ids in flight, a semaphore, a deque of budget stamps, a
failure counter and the instant the breaker closes. *Operations*: `check`, in
any thread of the API's pool; an index tier that calls back into the resolution
service; a live tier that calls the Hub. *Hard*: four locks are taken one after
the other and never together; the clock is read outside the budget lock; slow
calls end after the breaker opened; every early return must undo what it took.
*Correct if*: guards are never leaked, limits hold, no request waits, a newer
answer is never overwritten by an older one.

**Resolution service** (`services/resolution_service.py`) with the **strategy
chain** (`packages/eval-entity-resolver`). *State*: a memo per source config, a
resolver over a snapshot of the tables. *Operations*: `resolve` with its
existing-alias, disagreement and main paths, draft creation, alias write, rerun.
*Hard*: memo, alias index, snapshot and table may each be what answers, and are
refreshed at different times; drafts are unique against the table only.
*Correct if*: answers agree with the aliases in force, a person's decision is
never overwritten, one model does not become two entities.

**Registry tables and pending buffer** (`store/queries.py`). *State*: tables,
three pending lists (module globals), `_alias_index` (module global).
*Operations*: `add_alias`, `update_alias`, `upsert_entity`,
`upsert_eval_result`, `flush_pending`, index build and clear. *Correct if*: a
flush never duplicates a key, nothing dangles, the index equals the rows it
shadows, nothing of one run leaks into the next.

**Ingestion** (`services/ingestion.py`). *State*: none of its own. *Operations*:
`run_sync`, `process_record`. *Hard*: a record fails after half of its raw values
were resolved; the download raises in the middle of the iteration; the `finally`
flush must leave the registry consistent all the same.

**Resolve log writer** (`services/log_writer.py`). *State*: buffer, lock,
periodic task. *Operations*: `append` (request threads), flush (event loop, with
the upload in a worker thread), `stop`. *Hard*: a failed batch is put back while
appends go on; cancellation leaves the worker thread running. *Correct if*:
memory is bounded, order is kept, entries are lost to the cap only, shutdown ends.

**Dataset publisher and workflows** (`scripts/publish_registry_data.py`,
`.github/workflows/`). *State*: `main`, the published dataset with its manifest,
the stall issues, two concurrency lanes. *Operations*: refresh (regenerate, gate,
push, dispatch, watch, raise or clear the stall issue), publish (test, freshness
check, manifest no-op, upload with retries), pushes and dispatches by people.
*Hard*: main moves at any moment; publishers are held and let in later; every step
fails, times out or is cancelled; pushes made with the workflow token trigger
nothing. *Correct if*: the dataset never moves back, what is vouched for is what
consumers read, an unpublished refresh is always flagged and in the end published.

**Hub tables** (`store/hf_store.py`, `cli.py`: `sync`, `seed`). *State*: tables in
memory and on the Hub; the hub-stats index, which a cron replaces. *Operations*:
best-effort load (an error yields an empty table), upload one table after another.
*Hard*: an empty load pushed over a real table; a kill between uploads; two
processes that lose each other's rows; a Space that loads in the middle of a push.
*Correct if*: what is on the Hub or served is closed under references, nothing
recorded is lost, the index never goes back.

**HTTP API** (`main.py`, `api/`). *State*: one resolution service shared by the
thread pool, with its memo and resolver; the verifier; the log writer.
*Operations*: resolve (also exact, also read-only), alias patches, entity posts.
*Hard*: a resolver is built, published, invalidated and read again by different
threads; its lookup index is published before it is filled; a patch meets requests
under way. *Correct if*: an alias in force is what answers, and a request that
must not write does not.

**Seed command** (`cli.py` 147, 855-1602) with the **lineage derivation**
(`store/queries.py` 144-516). *State*: the tables; the YAML is its input.
*Operations*: upsert the entries, decide who owns a name, claim or repoint
aliases, refuse collisions, derive developer, group, family, origin and openness
from the parents graph, prune what the YAML no longer lists, upload. *Hard*: the
tables also hold what earlier YAML and syncs left; pruning deletes from three
tables in turn; walks over arbitrary graphs must agree with each other. *Correct
if*: names follow the YAML, nothing dangles, scores of two developers never
merge, groups lie within families, seeding again changes nothing.

**Seed merge** (`cli.py` 147-700, `lib/seed_io.py`, `lib/org_attribution.py`,
**collision fold** `lib/collision_fold.py`). *State*: entries by id, the YAML is its
input. *Operations*: absorb a file, attribute organisations, promote HF ids, fold
collisions, transfer, repoint, fill in weak values. *Hard*: four sources of merges
chain through each other; curation may contradict all of them; values of three
strengths meet in one entry. *Correct if*: no spelling, edge or strong value is
lost, and two repositories stay two.

**Refresh from models.dev** (`scripts/refresh_from_modelsdev.py` with its job).
*State*: two generated files and the organisations they mint, committed daily.
*Operations*: generate entries; carry the committed file forward; reconcile with
the other sources; split the catalog file; take back committed forms; reconcile
organisations; repeat until nothing changes. *Hard*: upstream renames, removes and
respells models; core.yaml takes over entries; what a pass writes is what the next
pass reads; Python sets are iterated in an order that differs between processes.
*Correct if*: passes converge, no committed form is lost, no form has two owners,
ids are stable, edges land.

**Not modelled**: the other source generators (each rewrites its file from one
snapshot of upstream, with no state of its own; their files are inputs of
`SeedMerge` and `ModelsDevRefresh`), maintenance scripts (one-shot rewrites run by
hand), character rules of fuzzy matching, folding and normalization (constants of
the models; the order of their tiers is modelled), display and canonical store
(read-only views of an immutable snapshot), platform maps (curated constants), the
hub-stats client (reads and reshapes one file), scanners and validators (read-only
reports), settings (constants here) and the columns of tables that no property
tells apart, deployment and examples.

`PROJECT.json` lists these components with their status, and under `hazards` each
thing that is hard to test at the line where it bites, with the properties that
cover it or the reason none does yet.

## How the models correspond to the code

### HfIdVerifier

One action per lock-protected block, so any interleaving of threads between two
blocks is explored. A value is its cache key; only values shaped like an HF id
get here. A thread's locals (which guards it holds, the clock value it read, what
the Hub said) are `req`, its next block is `pc`.

| code | model |
| --- | --- |
| `_cache`, a dict | `cache` and `order`, its insertion order |
| `_in_flight`, `_live_semaphore` | `inFlight`, `permits` |
| `_budget_window` | `window`; `taken` is history: the instants at which tokens were really taken |
| `_breaker_failures`, `_breaker_open_until` | `breaker` |
| `check`, `_cache_get`, `_check_index` | `CheckCache` (the index answers or not) |
| breaker test, in-flight test, non-blocking acquire of `_check_live` | `CheckBreaker`, `EnterFlight`, `Acquire` |
| `self._clock()`, then `_budget_take` | `ReadClock`, `TakeBudget` |
| `HfApi.model_info` | `CallHub`: found, 404, client-side refusal, other failure |
| `_record_success`, `_record_failure` | `Record` |
| `_cache_put` with its eviction | `PutCache` |
| the `finally` block | `Release`, then `Discard` |

### ResolverChain and RegistrySync

The sync process has one thread, so a `resolve` is one action; what interleaves is
the order of records, runs, failing records, failing downloads and reviewer edits.
A raw value is abstracted to what the chain compares: its slug, its normalized
form, its rewrites for the fuzzy tiers, and the spelling the HF checker may attest for it. The checker is
nondeterministic on every call (hit or unknown: its budget, breaker and index are
the verifier's), and so is the normalized lookup among rows of one form. An id is a
spelling and a suffix number; the code draws a uuid, the model counts.

| code | model |
| --- | --- |
| entity, alias and result tables | `entities`, `aliases`, `results` |
| `_pending_*` | `draftEntities`, `draftAliases`, `draftResults` |
| `_alias_index` (absent when empty) | `index` (`IndexBuilt`) |
| `svc._resolver`, `svc._resolve_cache` | `snap`, `memo` |
| `run_sync`: new service, index; `finally`: flush, clear | `StartRun`, `EndRun` |
| `process_record` takes a record, writes results, or raises | `TakeRecord`, `FinishRecord`, `FailRecord` |
| `resolve`: memo; existing alias; attestation that disagrees; main path | `ServeMemo`, `ServeAlias`, `FlagDisagreement`, `ResolveAfresh` |
| `add_alias`, `update_alias` | `Added`, `Updated`, on table, buffer and index at once |
| `_find_case_variant_model`, `_auto_create_entity` | `CaseVariants`, `MintId`, `Settled`, `Register` |
| reviewer's patch between runs | `Review` |

A rejected alias is skipped by every lookup and is modelled as absent. Left out:
metadata of drafts, organisation drafts and enrichment.

### ApiService

A step is what a thread does between two uses of the state the threads share; no
lock separates them. A resolver is a position in `built`, the list of snapshots ever
made, so that a thread can hold one that is no longer `current`.

| code | model |
| --- | --- |
| `store`: tables, pending entity rows | `entities`, `aliases`, `drafts` |
| `svc._resolve_cache`, `svc._resolver` | `memo`, `current` |
| `_lookup_index` of each alias store | `lookup`, with the keys filled in so far |
| route, memo, `get_alias` | `Receive`, `FindAlias` |
| `_get_resolver`: test, build, assign, read again | `CheckResolver`, `BuildResolver`, `PublishResolver`, `TakeResolver` (which may find None) |
| `_ensure_lookup_index`: test, publish empty, fill | `EnsureIndex`, `PublishIndex`, `FillIndex` (row by row) |
| read-only and exact, existing alias, disagreement, chain | `ServeResult`, `ServeExisting`, `FlagDisagreement`, `ResolveAfresh` |
| the second `_get_resolver` (337), with or without a prefetched answer | `FlagDisagreement` sends back to "resolver", `Prefetched`; `Fail` when it finds None |
| `_auto_create_entity`: search, append, invalidate | `Settle`, `UpsertDraft`, `AppendDraft`, `InvalidateResolver` |
| `PATCH /aliases`, `POST` and `PATCH` of entities | `PatchAlias`, `PostEntity`, `StoreEntity` |

A thread keeps the mode of its request up to its last step, minting and appending
included, so `ReadersNeverWrite` sees an exact request that gets past the early
return of `resolution_service.py` 347. Pending alias rows, which nothing in this
process reads, are left out.

### HubTables

A table is a set of rows named by the model they are about, so that references
between tables are subset relations; the index is its version number. A process
loads table by table, works in one action, and uploads table by table; it may be
killed before each of these. What a command computes is the subject of
`RegistrySync` and `SeedCommand`; here it adds rows. `acked` (rows of syncs that
ended), `hiccup`, `emptied`, `overlapped` and `torn` (what has gone wrong with whom)
are history variables.

### ModelLineage and SeedCommand

`ModelLineage` has one operator per helper of the derivation; a model id is a
number, since the code breaks ties by the least id, and the relationships and axes
that no walk tells apart are one kind. `SeedCommand` makes one action of a seed,
since it is one process that uploads at its end and uploads nothing when it raises.

| code | model |
| --- | --- |
| merged YAML | `yaml`: entries with the keys they lack (`absent`), listed organisations |
| `canonical_models`, `canonical_orgs`, `aliases`, model ids in `eval_results` | `models`, `orgs` and `draftOrgs`, `aliases`, `cited` |
| `_entry_dev`, `_entry_is_lab`, `strong_claimants`, `lab_leaf_owner` | `DevOf`, `IsLab`, `Claimants`, `LabClaimants` |
| suppressed display names, `alias_specs`, redirect to the owner | `Shown`, `Spellings`, `Target`, `Claims` |
| `alias_collisions` and the raise | `Unambiguous` |
| `upsert_entity`; `add_alias` or the repointing | `Upserted`; `ClaimedAliases` |
| derivation | `Derived`, before pruning as in the code |
| `--prune-stale` | `KeptAliases`, `StaleOrgs`, `StaleModels` |
| syncs in between | `SyncKnown`, `SyncMatched`, `SyncDraft` |
| edits of the YAML | `DropModel`, `DropOrg`, `MoveName`, `Close` |

An entry is confirmed when it is reviewed or HF-sourced; one flag stands for both.
Spellings with one normalized form are one name. Organisations' own aliases,
rejected aliases, tags, release dates and the enrichment of drafts are left out; the
other kinds of entity take the same path without the ownership rules. A walk is a
recursive function of the visited models, as the code's loop is of its `visited`
set. `Rows` keeps of the columns of `canonical_models` those the derivation reads
and writes. The YAML of the runs and of the theorems passes the repository's gate
where a property rests on it (`Curated`: entries name listed organisations, and no
two lab models own one name, `tests/test_gate_invariants.py` 469 and 1329).

### SeedMerge

A form is a surface string; what the code computes from it (collision key, name,
developer, sizes, rank of its spelling) is given by constant functions. `Fields` are
the scalars a weak map may carry (`WEAK_SCALAR_FIELDS`); `Backfilled` are those of
them a winner takes from its losers (`collision_fold.py` 177), all but
`input_modalities` and `output_modalities`. The instance has one of each sort. The
other scalars (`family` and the like) take no weak value. Each file is one action, each pass of
the merge another, and the losers of the fold are transferred one at a time in any
order. The order in which Python compares ids is the constant `Lexical`. An entry
sourced from HF is keyed by its repository, so its id has an org prefix
(`generate_hf_oracle_seed.py` 128-133; `RecordsAssumption`).

| code | model |
| --- | --- |
| `_absorb`, `_merge_into`, skip lists, the weak maps taken out | `AbsorbFile`, `MergeInto`, `Dropped`, `Strong`, `weak` |
| `attribute_orgs` | `AttributeOrgs` |
| promotion of HF-true ids, curated merges over it | `PromoteHf`, `Replaces` |
| groups, `never_fold`, `prefer`, ranks, chase of chains | `Folds`, `WinnerOf`, `Through` and `Chased`, `FoldGroups` |
| transfer pass; its lookup of a folded winner | `Transfer`, `Backfill`; `LoseWinner` |
| parent edges | `RepointEdges` |
| `weak_scalars`, field by field | `Donors`, `Given`, `WeakValue`, `Fillable`, `WeakFill` |

### ModelsDevCatalog and ModelsDevRefresh

`ModelsDevCatalog` gives what `_generate_models` makes of a catalog as one operator
per function of the script: groups of provider records, the record that names a
group, minting or deferral to an HF repository, adoption of OpenRouter keys,
families of a lab's own models, spellings as aliases, merging of bare entries,
deduplication and one owner per form. Strings are forms with constant functions, as
in `SeedMerge`; the functions of the instance are what the code returns for its
forms.

`ModelsDevRefresh` is the job. It works on one committed or generated record per
action, because each record sees what the earlier ones did to the entries, to the
renames and to the claims.

| code | model |
| --- | --- |
| the files of `main`; the job's working tree | `master`; `tree` |
| one run of the script: a process that generates anew | `Produce`, with `flip`, its order of iteration over a set |
| `_carry_forward_committed`, per committed record | `CarrySame`, `CarrySkipped`, `CarryRenamed`, `CarryAbsorbed`, `CarryGone` |
| `stabilized`, `promoted`; `fresh_form_owner`, `committed_claims` | `renamed`; `claimed` |
| `reconcile_generated_against_existing` | `Survive`, `Suppress`, `DropOrphan`, then `Give`, then `Keep` |
| `regenerate_catalog`, first loop | `SplitEnrich`, `SplitClaimed`, `SplitMint` |
| its union of the committed catalog | `UnionSkipped`, `UnionRenamed`, `UnionMerged`, `UnionEnriching`, `UnionOwned`, `UnionRetained` |
| `reconcile_all_orgs` | `ReconcileOrgs` |
| byte-identical outputs of the last two passes; gate; push | `Verify`; `Commit` |

Metadata, prices and dates of entries are left out but for one value that is carried
with them; `--adopt-openrouter-ids-migration`, a switch for one past run, is off.

Two sides of the organisations are left out. `CanonOrg` is a constant, while
`_build_org_canonicalizer` rebuilds the community casing from the files as each run
finds them, so a casing that one run writes and the next reads back is not
modelled. And `canonicalize_model_org_ids` also rewrites `org_id` and
`lineage_origin_model_org_id` in the files of the other sources; the model writes
the spelling into the job's own entries (`Canonical`), and `ReconcileOrgs` the
organisations only.

### ResolveLog and ResolveLogWriter

`ResolveLog` states the promise with sets of entry numbers: until the log is
closed an accepted entry is held until it is stored, or given up only while
`Capacity` newer ones are held; what is stored stays stored.
`ResolveLogWriter` is the code: two flushes (the periodic task's and `stop`'s),
each with a coroutine (`pc`, `batch`) and a worker thread (`upload`). `Stop`
cancels the task where it is suspended, at its sleep or its await; the thread
goes on. The refinement maps `pending` to buffer, batches and uploads under way, `stored`
to the union of the part files, `open` to "not stopping". `bucket` maps a part
file's name, the second its upload starts in, to its entries; a second upload of
that name replaces the file.

### ReleasePipeline

A commit is its position in the history of main; what seeding it yields is its
content. `refresh` is the one refresh in the writers' lane, `job` the one
publisher in the publishers' lane, `queue` the publishers held for it (not
ordered: which one is let in is nondeterministic). `stalled` is the set of open
stall issues. `GiveUp` and `FailJob` fail any step at any time, or time it out or
cancel it; an upload that landed may be reported as an error. `released` (the
newest commit a publisher ended well for) and `lost` (issues that could not be
opened) are history variables. The dry run of pull requests changes nothing and is
left out.

## What the runs check

| run | cfg | shows |
| --- | --- | --- |
| `hf_guards` | `MCHfIdVerifier` | one permit, two threads, two ids: permits add up, budget deque and cache stay within their limits (`LimitsHold`), only time closes the breaker, every check returns |
| `hf_permits` | `MCHfPermits` | two permits: no id is verified twice at once or left in flight, `BudgetOvershootBounded` and `CacheNeverRegresses` |
| `registry_sync` | `MCRegistrySync` | two runs, reruns, failures and reviews: tables and buffer are closed and free of duplicates (`RegistryWhole`), memo, index and snapshot answer as the rows do and end with the run (`CachesAgree`), nothing is repointed silently |
| `api_service` | `MCApiService` | two threads next to patches and posts: an alias in force is never missed and a patch is seen by values not answered before (`AliasesAnswer`); no step of a read-only service or of an exact request, minting steps included, writes a table (`ReadersNeverWrite`) |
| `hub_tables` | `MCHubTables` | Hub and Space are closed and keep what was recorded (`TablesKept`), unless commands overlap or a load swallowed an error; the index never goes back |
| `seed_merge` | `MCSeedMerge` | every subset of eleven records and every curation: no spelling, edge to a real parent, own value or backfilled value is lost and no umbrella is passed on (`FoldLosesNothing`), two repositories stay two |
| `fold_cycle` | `MCFoldCycle` | *violated*: `WinnersSurvive` |
| `seed_command` | `MCSeedCommand` | seeds over any small graph and ownership of a name: groups and families are of one developer and nest (`HierarchySound`), names follow the YAML, seeding again changes nothing; references are closed (in `TypeOK`) |
| `prune_cited` | `MCPruneCited` | *violated*: `CitedModelsKept` |
| `models_dev_refresh` | `MCModelsDevRefresh` | two jobs over upstream days and committed states: the third pass changes nothing (`Settles`), no form has two owners, edges land, no committed form is lost, ids are stable |
| `resolve_log` | `MCResolveLogWriter` | the writer implements the abstract log, keeps cap and order, `stop()` returns |
| `release_pipeline` | `MCReleasePipeline` | the dataset only moves forward, what is vouched for is what is read, a stalled refresh is flagged and in the end published |

Each property of a passing run has a mutant in `PROJECT.json`: a plausible bug in
one mapped definition, with which TLC finds the property violated under the same
cfg.

**Bounds.** *Verifier*: two threads suffice for every race between two blocks, two
ids tell a hit on one's own key from eviction of another's; budget, breaker and
cache limits of 1 or 2 with a clock up to 2 or 4 make each of them bind and expire
again. In `hf_permits` the negative life is 0, so an id is asked for again at once.
Threads and ids are interchangeable in the runs without liveness, where symmetry
is used. *Registry*: a draft spelling, the HF-true spelling of the same repository
and a benchmark whose slug the seed owns; two records that share a raw value, two
configs besides the global scope, two runs of two records, and every subset of the
seed as a start. That is the least in which a rerun follows a review, an alias of
one config meets the global one, a draft meets its case variant, and a record fails
between two writers. `MaxMint` bounds uuid suffixes: one is enough since only the
first collision matters. *API*: two threads, since every race is between the steps
of two requests or of a request and a patch; two resolvers, so that one is
invalidated under a thread that still uses it; values of one normalized form with
different aliases, one of which the checker attests, and one that only the fuzzy
tier finds. *Hub*: two commands (the least that overlap, or follow each other), two
rows, one of which only a sync knows, one failed download, two indexes. *Merge*:
every subset of eleven records over seven forms (three spellings of one key, a
malformed id, a root, an umbrella) in three sources, core.yaml and the enrichments,
each with no curation or one of five; the records link in every way the code knows. *Seed*: three models, two of a lab and one of a
community organisation or of the lab; all parents graphs of at most two edges
(chains of three, cycles and ties, with any kinds), and 64 ways to give one name to
the three entries; one edit and one sync between any number of seeds. A second edit
finds the tables as a seed left them, like the first. *models.dev*: two jobs over any
two of four days, from an empty and from an aged state, cover every ordered pair of
what upstream may do to a model between two jobs: list it, respell it, move it to
the hub, drop it, have it taken over by core.yaml, name a lab nobody knows. The
third job starts from a state the second committed. `MaxTurns` is 1: one process of a
job may iterate over its sets the other way round.
*Log*: a buffer of two, five
entries and four seconds: a put-back batch meets appends, overflows the buffer
and is flushed again. *Pipeline*: two refresh workflows, one of which may commit
a watermark; two contents, so that a commit may restore the published one; three
commits; one held publisher; one failure anywhere. Fewer commits would never have
a publisher overtaken twice; proofs cover all sizes for safety.

**Deadlock** is checked for the verifier (an idle thread may always check again),
for the pipeline (crons recur) and for the Hub tables (the Space may always
restart). The registry and the API stop after their bounded runs and requests, the
log writer after shutdown, the seed when the YAML left by the last edit is refused,
the merge when it is done, the refresh after `MaxDays`.

**Fairness.** *Verifier*: weak fairness of each thread that is inside `check`: no
block waits (the acquire does not block, the locks are held for a few
statements) and the Hub request carries a timeout. A new check is never forced.
*Log*: weak fairness of the two flushes' steps and of `stop`'s continuation: the
event loop runs what is ready and a thread's upload ends. No request, wake-up or
`stop()` is forced. *Pipeline*: crons recur and wait for the writers' lane
(strong fairness of `StartRefresh`, whose lane is taken again and again); the
publishers' lane lets in whoever waits (strong fairness of `StartChild`, weak of
`StartJob`); every step ends (weak fairness; GitHub bounds each by a timeout).
Failures are never forced, and their number is bounded: `RefreshReleased` says that
publication happens once failures stop.

## Where the code departs from its documentation

Two runs show a departure as a counterexample of a few steps (`expect: violation`):

1. `prune_cited`: pruning takes a model for unused when all its aliases are the
   seed's (`cli.py` 1582), but a sync that resolved by a seeded alias wrote none;
   its result rows are left naming a deleted model. The comment (1574) says such a
   model "wasn't referenced by sync data".
2. `fold_cycle`: an HF entry takes over the record of an id it carries as an alias
   (`cli.py` 498); a curated merge of the HF entry into that id closes a cycle; the
   chase of `collision_fold.py` 120-130 ends with every record of it a loser, and the
   lookup at 140 raises `KeyError`. The comment (122) says it never does.

Others were met while modelling. The models contain them, no run asks about them:

3. A rerun that agrees with a confirmed alias writes status `auto` over it
   (`resolution_service.py` 433); line 420 says never.
4. A rerun bypasses the memo and its snapshot has no pending alias, so two
   occurrences of a raw value in one run may get two ids (`README.md` 677).
5. The search for a case variant sees the table only (`resolution_service.py` 534),
   so a draft of the same run is missed and a second entity is minted (361).
6. A part file of the log is named by the second; the final flush of `stop()` may
   replace the file of the flush it cancelled (`log_writer.py` 102, `README.md` 740).
7. The publisher of a seed push refuses when main moved on
   (`publish_registry_data.py` 123) by a push that triggers no publisher, and nothing
   publishes main again until something else does (`publish-registry-data.yml` 13).
8. A patched or rejected alias goes on being answered from the API's memo for values
   answered before (`README.md` 668): hence `PatchSeen` is about other values only.
9. `_get_resolver` reads the attribute again after its test
   (`resolution_service.py` 206); another thread's invalidation in between makes the
   request fail.
10. `fold_target` takes the first match while it iterates over a set of strings
    (`fold.py` 320-335), so two processes may fold one mint onto different HF entries;
    `refresh-models.yml` 18 calls the generator deterministic across runs. The passes
    then disagree and the job stops: hence `Settles` and `OneOwner` ask for one order
    of iteration (`turns = 0`).
11. A catalog mint that upstream removed keeps its forms whatever another source has
    claimed since (`refresh_from_modelsdev.py` 3870): hence the exception in `OneOwner`.
12. A fold drops what a loser says of its modalities: `collision_fold.py` 177 backfills
    five fields, and `input_modalities` and `output_modalities` are not among them,
    while `WEAK_SCALAR_FIELDS` (`seed_io.py` 22-29) has them. The field is then lost,
    or filled by a weak value (`cli.py` 550). The comment at `cli.py` 527-529 calls "a
    folded-in full entry's scalars" strong, "so a value from any full entry beats a
    weak one regardless of file load order"; `seed_io.py` says a weak value fills a
    field "only when every full entry left it empty". Hence `StrongBeatsWeak` speaks of
    folded records for `Backfilled` fields only; for the other field of the instance
    TLC refutes it.
13. An umbrella stays the parent of an entry that came with the edge:
    `collision_fold.py` 171 filters only the edges a winner inherits from a loser, and
    its comment (169) says so ("Only filters FOLD-inherited edges"). But
    `collision_overrides.yaml` 28-33 says of these ids that they "must NEVER be used as
    a lineage PARENT" and that this "drops those edges everywhere", and `cli.py`
    459-460 that they "may never be a lineage PARENT". Hence `LineageLands` says
    nothing for or against an entry's own edge to an umbrella, only that no fold passes
    one on; TLC refutes that no final entry has one.

## What is proved

All theorems hold for every value of the constants that satisfies the named
assumptions of the modules. Nothing is taken on trust beyond the library's
theorems on finite sets and sequences.

**HfIdVerifierProofs**, from `ThreadsAssumption` (the threads are finitely many),
`LimitsAssumption` and `SettingAssumption`. None of the checked invariants is
inductive alone. `Invariance` proves the conjunction of
- `TypeOK`;
- `PermitProtocol`: which labels hold a permit, and what the locals contain at each;
- `PermitsAddUp`: free permits and holders make up `MaxConcurrent`. Each step adds
  or removes one holder, and cardinality follows;
- `SingleFlight`: `EnterFlight` is the only entry to the region and tests the set
  that equals the keys of the region;
- `WindowWithinBudget`: a token is only appended below the budget, and expiry shortens;
- `OpensWithinCooldown`: the breaker closes at most one cooldown from now, so a
  failure, which sets it to exactly that, never brings it forward;
- `StampsPast` and `OvershootLedger`: while the window that starts at an instant `s`
  is open, its tokens and the threads still on their way to the lock with a stamp
  older than `s` are no more than the deque's stamps from `s` on and one per permit.
  When the window opens there are no tokens, and the threads on their way hold
  permits; from then on a token either has a stamp of the window, which stays in the
  deque, since nothing pops a stamp before the window is over (`RecentSuffix`), or
  ends one of those threads' ways. With the cap of the deque this bounds the window
  (`BudgetOvershootBounded`), and a closed window gains no token;
- `AnswersInOrder`: a cached answer is no newer than the clock, nor than the answer
  of the one thread in flight for its key;
- `CacheCapped`: eviction takes the first keys of the insertion order. That this
  removes as many as it counts needs the order to be free of repetitions and to hold
  the cached keys, which expiry and overwriting under other threads preserve
  (`SuffixElements`, `DropAtDistinct`, `CacheCappedStep`).

From it follow `TypeCorrect`, `SingleFlightHolds`, `ConcurrencyCapHolds` (and
`LiveCallsCapped`, a bound on concurrent Hub calls), `WindowWithinBudgetHolds`,
`BudgetOvershootHolds`, `CacheCappedHolds`, the limits at once (`LimitsHoldAlways`),
`BreakerNeverShortenedHolds` and `CacheNeverRegressesHolds`.

**HubProofs**, first part, about `ReleasePipeline` from `PipelineAssumption`. `Invariance` proves
- `TypeOK`, whose revisions are commits of main; main only grows;
- `PublishedInOrder`: the dataset is at most what was released, has the content of
  it, and a publisher past the freshness check has a commit no older than what was
  released. The lane is exclusive, so nobody releases a newer commit meanwhile.
  This is why the check needs no lock on main;
- `WatchedCovers`: the publisher a refresh waits for publishes a commit that covers
  every data commit of that refresh, and once it ended well they are all released;
- `FlaggedOrOwing`: `StallIsFlagged` together with what the current refresh still
  owes, step by step.

From it follow `TypeCorrect`, `NeverRollsBackHolds`, `DatasetIsReleasedHolds`,
`StallIsFlaggedHolds` and `ClearedMeansReleasedHolds`.

**ResolveLogWriterProofs**, from `WriterAssumption`. `Invariance` proves
- `TypeOK` and `BufferCapped`;
- `OneFlush`: until `stop()` only the periodic flush runs, afterwards only the final one;
- `BatchHeld`: a batch is in its flush from its taking to the end of the flush, and
  the upload that is awaited is the upload of that batch. An upload that outlives its
  cancelled flush belongs to nobody;
- `InOrder`: buffer and batches increase, and a batch is older than the buffer. So
  what is put back in front of the buffer keeps the order (`RejoinedInOrder`), and the
  cap, which drops from the front, drops the oldest;
- `PartsNew`: until `stop()` the part a flush writes is later than every part in the
  bucket, so an upload replaces nothing. `stop()` is the one place where it may.

`BufferKeptHolds` follows at once. `ImplementsHolds` shows that every step is a step
of `ResolveLog` or a stutter under the refinement mapping of `ResolveLogWriter`. The
hard part is the loss of an entry: `DroppedForNewer` finds, for an entry that the cap
drops, `MaxBuffer` newer ones that are kept, by the order of the buffer, and
`CapMayDrop` makes of it what the abstract log allows.

**HubProofs**, second part, about `HubTables` from `HubAssumption` and
`PushedAssumption`, which says that the order of uploads written out in `PUSHED_NAMES` is what skipping the cron's tables
leaves of `TABLE_NAMES`; TLC evaluates it. `TablesInvariance` proves
- `TablesTypeOK` and `LeftOK`: a load and a push have a suffix of their list before them;
- `IndexOne`: the index on the Hub is one index, for no command uploads it;
- `Alone`: as long as commands did not overlap, one is under way at most;
- `AddedLate`: a command adds rows only once it has loaded;
- `WholeInv`: while nothing went wrong, the Hub is closed and holds what was recorded
  (`HubWhole`); what a command has loaded so far is still what the Hub holds; and what
  it has yet to upload extends what the Hub holds (`PushedSoFar`). The last clause is
  why a push may be killed between any two uploads: entities go up before the rows
  that name them.

From it follow `TablesTypeCorrect`, `TablesKeptHolds` and `IndexHolds`.

**RegistrySyncProofs**, from `ChainAssumption` and `RegistryAssumption`. `Invariance`
proves
- `TypeOK`, and `Control`: only a run works on a record;
- `StoreOK`: no key has a row in the table and another in the buffer, and the index,
  once built, equals the rows in force. `AddedStep` and `UpdatedStep` show it of
  `add_alias` and `update_alias` for any store;
- `OneRow` and `Closed`: the same of entities and results, and nothing names an
  unregistered entity. The step that answers with a draft also registers it, and the
  chain answers only with ids of the snapshot or of an index hit, or with such a
  draft (`ChainFrom`, `SettledFrom`);
- `NothingLeftBehind`;
- `DraftsMemoized`: a buffered alias is one of a value this run has answered.
  `get_alias` does not see the buffer while the index is not built; this clause is
  why it is never asked for a buffered value, which the memo answers first
  (`GetAliasFacts`). Without it a value could be settled anew, with another id than
  the alias that lands; a double row `add_alias` prevents by itself;
- `Answered`: `AnswersMatchAliases` with the memo in it, for the memo is what the
  next answer comes from.

`FlagStep` and `AfreshStep` carry the two ways a value is settled through these
clauses, and also show that a row in force keeps its id unless the run is a rerun.
From it follow `TypeCorrect`, `RegistryWholeHolds`, `CachesAgreeHolds` and
`NeverSilentlyRepointedHolds`.

**ApiServiceProofs**, from `ChainAssumption` and `ApiAssumption`, for any number of
threads and requests. `Invariance` proves
- `Shared`: the types of what the threads share; a resolver and its lookup index
  keep their place in `built` and `lookup`;
- `OneSnapshot`: in a read-only service every snapshot has the rows that were loaded;
- for each thread `Control` (what its locals hold where it stands), `OnlyReads` (a
  read-only service never gets to a draft or a row), `OnRow` and `Owes`. `OnRow` is
  why a stale resolver does no harm in the writable service: as long as nobody
  writes the row of its key, a request carries the row it has read, and neither settles nor
  drafts. `Owes` says it of the answer. In the read-only service, which reads no
  row, the lookup index may hide the row while it is filled, but the normalized
  tier of the snapshot finds a row of the same form (`NearFacts`).

Each action has a lemma; `Finishing` is shared by all that answer. From the
invariant follow `TypeCorrect`, `AliasesAnswerHolds` and `ReadersNeverWriteHolds`.

**SeedMergeProofs**, from `SeedMergeAssumption` and `RecordsAssumption`. `Invariance`
proves, for any files, curation and order of transfers,
- `Typed`: entries are keyed by their ids;
- `BeforeFold`: passes before the fold change no entry, an attribution only names ids
  without prefix, and a promotion only ids that are not HF-true;
- `DuringFold`: losers are still as they were absorbed; a loser that is done has
  brought its surface to a winner that is no loser; a survivor has lost nothing, has
  in each backfilled field the value of one of those merged into it (`Valued`), and
  its edges are its own or come from losers, umbrellas excepted (`Lineage`). `ChasedFacts` shows that the chase
  of chains ends at a survivor unless it ends in a cycle, and then the run stops
  at the transfer of that loser (`fold_cycle`);
- `AfterFold`: what `FoldLosesNothing` says, from the repointing on, with the values
  accounted for while weak ones are filled in;
- `Distinct`: of two HF entries with one key none is folded but by curation. A group
  with two of them is not folded as a group (`ReposUnfolded`), and an attribution or
  promotion never names an HF entry, which is where `RecordsAssumption` is needed;
- `StrongBeatsWeak`.

From it follow `TypeCorrect`, `FoldLosesNothingHolds` and `ReposStayDistinctHolds`.

**SeedCommandProofs**, from `ModelsAssumption` and `SeedAssumption`, for any edges,
names, edits and syncs. `Invariance` proves `Typed`, `ReferencesClosed`, `Curated`,
`OneDeveloper`, `NamesFollowCuration` and
- `Seeded`: after a seed that prunes nothing, the tables are what the seed would make
  of them again.

Two arguments carry it. *Walks.* A walk is defined by recursion on the visited
models, so its function must first be shown to exist: if a least number of models
left to visit had none, one could be built from that for one model less
(`StepsExist`). Then a walk ends in every set it cannot leave (`DeepestStays`), and
ends at a model without a next one or in a cycle (`DeepestEnds`). The set of the
models of one developer gives `OneDeveloper`, whatever the edges. Over a tree a model
and its next one end at the same place (`StepEnd`), so a walk over more kinds of
edges ends where it ends from the end of a walk over fewer (`PartEnds`, `PartNests`):
groups lie within families and roots are roots. *Settling.* A derivation writes only
columns it does not read, except developer and openness, and gives those back as it
found or set them (`DerivesOnce`); the upsert gives back what the entries say
(`UpsertsOnce`); an alias claimed once is claimed again by the same owner. Hence
`SeedSettles`, and with it `ReseedChangesNothingHolds`: the invariant remembers,
across syncs that write nothing, that the tables are settled.

From it follow also `TypeCorrect`, `NamesFollowCurationHolds` and
`HierarchySoundHolds`.

**ModelsDevRefreshProofs**, about `ModelsDevCatalog` and `ModelsDevRefresh`, from
`CatalogAssumption` (the functions of forms return forms and organisations, `Before`
numbers the forms) and `RefreshAssumption` (the files of other sources hold one
well-formed record per id, the committed files are ones the job could have written,
the canonical name of an organisation is canonical, forms equal but for case have
one normalized form). Four arguments carry it.

*What is generated.* `GeneratedEntries`, for any catalog: entries are whole, no two
have one normalized id, no alias has two owners or spells another entry's id, as
`_reconcile_intra_output` promises ("no emitted alias equals (exact or
resolver-normalized) another canonical's id"). The group lists and
the recursive functions of the generator must first be shown to exist; where one
did not, a least counterexample gives a contradiction (`Recursion`, `Iterates`). Of
the union-find only closure is needed: classes are disjoint, linked entries share
one, so one entry per class leaves no two of one normalized id.

*The job.* `JobInvariance` proves
- `JobType`: types, and files with one record per id;
- `Received`: as long as edges are still to be repointed (`judge`, `give`, `keep`) a
  suppressed record has a receiver in `Receivers`: an id that some source or entry
  defines in full, or an HF repository, and itself only if another source defines it.
  It is why `Give` finds an heir for every record it visits;
- `MintsApart`: what the catalog mints is whole and its ids differ in more than
  case, also from those still to split, and its enriching records have distinct
  ids. Case matters: the union matches committed ids by it (`Prior`), and a renamed or
  retained record would otherwise be the second of its id in the file;
- `OrgsExist`: organisations are canonical from the writing of a file on and exist
  once they are reconciled.

From it follow `TypeCorrect` and `ForwardedAndApart`.

*The split.* `MintsShareNothing`: no form of a minted entry is a form of another,
because every form an entry keeps is claimed by it (`Claims`) and an entry that
enters drops what others have claimed.

*The carry.* `CarryLosesNothing`: each committed record is still to visit,
suppressed by `core.yaml`, or its forms are held by an entry (`Carried`). An entry
whose id is taken away by a twin keeps that id as an alias.

The model builds maps with `Owned` and `++` and not with TLC's `:>` and `@@`, which
have no meaning to the prover.

**Only model-checked.** Liveness (`CheckReturns`, `StopReturns`, `RefreshReleased`),
which the prover cannot do. Of the models.dev refresh, the properties that compare
whole passes or all files: `Settles`, `OneOwner`, `EdgesLand`, `FormsKept` and
`StableIds`. The last four hold of the instance's days and committed files and are
not true of every value of the constants: two independent sources may own one form
or name a parent nobody defines, which the job reads and does not repair; a
spelling that normalizes to one that is kept may be dropped; twins in a committed
file may make an id an alias. A theorem would have to assume of the other
generators what only their own models could show. `Settles` says that a whole pass,
generation included, gives back what it reads; that it does for every catalog is not
shown. The two counterexamples need no proof.

## What is left

The core, the API, the tables on the Hub, the merge of the YAML and the largest of
the generators are modelled. In order of worth: organisation drafts and enrichment
in `RegistrySync`; the hub-stats and tier 3 generators as further jobs that write
inputs of `ModelsDevRefresh`, whose models could justify the assumptions that
`OneOwner` and `EdgesLand` need to be proved; posts that race each other on one
table in `ApiService`; proofs that reconciliation and the union of the committed
catalog keep the forms that carry-forward and the split keep.
