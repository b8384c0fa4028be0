----------------------------- MODULE ApiService -----------------------------
(***************************************************************************)
(* The HTTP API as one process: FastAPI runs each handler on a thread of a  *)
(* pool, and all threads share one store and one ResolutionService with its *)
(* memo, its resolver and that resolver's lazily built lookup index, none   *)
(* of them behind a lock.  A step is what a thread does between two uses of *)
(* that shared state.  Nothing is flushed or pushed: drafts stay in the     *)
(* pending buffer as long as the process lives, and the pending alias rows, *)
(* which nothing in this process reads, are left out.                       *)
(***************************************************************************)
EXTENDS ResolverChain

CONSTANTS
  Threads,     \* threads of the pool
  SeedIds,     \* entities the loaded registry holds
  SeedAliases, \* [raw, scope] -> id of the rows it holds, a partial function
  PatchRows,   \* what a reviewer may make of an alias row
  PostIds,     \* ids clients post or patch entities under
  MaxBuilds,   \* bound on the resolvers ever built
  MaxRequests, \* bound on the resolve requests
  MaxPatches,  \* bound on the alias patches
  MaxPosts     \* bound on the entity posts and patches

Statuses == {"auto", "uncertain", "confirmed", "rejected"}

\* The registry loaded at startup and what clients send are rows and ids.
ASSUME ApiAssumption ==
  /\ Raws # {} /\ SeedIds \subseteq Ids /\ PostIds \subseteq Ids
  /\ SeedAliases \in [DOMAIN SeedAliases -> Ids] /\ DOMAIN SeedAliases \subseteq Keys
  /\ PatchRows \subseteq [canonical : Ids, status : Statuses]

Modes == {"resolve", "exact"}
NoRow == [canonical |-> NoId, status |-> "none"]
Rows == [canonical : Ids, status : Statuses] \cup {NoRow}
NoMemo == [found |-> FALSE, id |-> NoId]
AnyKey == CHOOSE k \in Keys : TRUE
Idle == [pc |-> "idle", key |-> AnyKey, mode |-> "resolve", existing |-> NoRow,
         at |-> AnyKey, resolver |-> 0, left |-> {}, result |-> Result(NoId, FALSE, FALSE),
         id |-> NoId, ids |-> {}]
NoReply == [key |-> AnyKey, mode |-> "resolve", id |-> NoId, via |-> "none"]

VARIABLES
  readOnly,  \* settings.read_only
  entities,  \* ids in the canonical tables
  drafts,    \* ids of the pending entity rows, in the order they were buffered
  aliases,   \* rows of the aliases table, rejected ones included
  memo,      \* _resolve_cache: <<key, mode>> -> answer
  built,     \* snapshots of the resolvers built so far
  lookup,    \* _lookup_index of each: [built, keys], keys filled in so far
  current,   \* svc._resolver: a position in built, or 0 for None
  thread,    \* where each thread stands, and its local variables
  reply,     \* the last answer of each thread
  touched,   \* history: alias keys written since each thread took its request
  minted, requests, patches, posts

store == <<entities, drafts, aliases>>
service == <<memo, built, lookup, current>>
history == <<reply, touched>>
bounds == <<minted, requests, patches, posts>>
vars == <<readOnly, store, service, thread, history, bounds>>

Live(row) == row.status \notin {"none", "rejected"}
DraftIds == {drafts[i] : i \in 1 .. Len(drafts)}
At(t, pc) == thread[t].pc = pc

Init ==
  /\ readOnly \in BOOLEAN
  /\ entities = SeedIds /\ drafts = <<>>
  /\ aliases = [k \in Keys |-> IF k \in DOMAIN SeedAliases
                               THEN [canonical |-> SeedAliases[k], status |-> "auto"]
                               ELSE NoRow]
  /\ memo = [q \in Keys \X Modes |-> NoMemo]
  /\ built = <<>> /\ lookup = <<>> /\ current = 0
  /\ thread = [t \in Threads |-> Idle]
  /\ reply = [t \in Threads |-> NoReply]
  /\ touched = [t \in Threads |-> {}]
  /\ minted = 0 /\ requests = 0 /\ patches = 0 /\ posts = 0

\* The alias table is written under requests that are under way.
WriteAlias(key, row) ==
  /\ aliases' = [aliases EXCEPT ![key] = row]
  /\ touched' = [t \in Threads |-> touched[t] \cup {key}]
-----------------------------------------------------------------------------
(* services/resolution_service.py                                          *)

\* The request is answered from the memo, or goes on to the alias table; a
\* read-only service goes straight to its resolver.
Receive(t, key, mode) ==
  /\ At(t, "idle") /\ requests < MaxRequests
  /\ requests' = requests + 1
  /\ touched' = [touched EXCEPT ![t] = {}]
  /\ IF memo[<<key, mode>>].found
     THEN /\ reply' = [reply EXCEPT ![t] = [key |-> key, mode |-> mode,
                                            id |-> memo[<<key, mode>>].id, via |-> "memo"]]
          /\ UNCHANGED thread
     ELSE /\ thread' = [thread EXCEPT ![t].pc = IF readOnly THEN "resolver" ELSE "alias",
                                      ![t].key = key, ![t].mode = mode]
          /\ reply' = [reply EXCEPT ![t] = NoReply]
  /\ UNCHANGED <<readOnly, store, service, minted, patches, posts>>

\* get_alias scans the table, scoped row before global; the index of a sync is
\* never built here.
AliasKey(key) == IF Live(aliases[key]) THEN key ELSE <<key[1], Global>>
FindAlias(t) ==
  /\ At(t, "alias")
  /\ LET at == AliasKey(thread[t].key)
     IN thread' = [thread EXCEPT ![t].pc = "resolver", ![t].at = at,
                     ![t].existing = IF Live(aliases[at]) THEN aliases[at] ELSE NoRow]
  /\ UNCHANGED <<readOnly, store, service, history, bounds>>

\* _get_resolver tests self._resolver, builds one if there is none, and reads
\* self._resolver once more to return it.
CheckResolver(t) ==
  /\ At(t, "resolver")
  /\ thread' = [thread EXCEPT ![t].pc = IF current = 0 THEN "build" ELSE "take"]
  /\ UNCHANGED <<readOnly, store, service, history, bounds>>

BuildResolver(t) ==
  /\ At(t, "build") /\ Len(built) < MaxBuilds
  /\ built' = Append(built, [entities |-> entities \cup DraftIds,
       aliases |-> [k \in Keys |-> IF Live(aliases[k]) THEN aliases[k].canonical ELSE NoId]])
  /\ lookup' = Append(lookup, [built |-> FALSE, keys |-> {}])
  /\ thread' = [thread EXCEPT ![t].pc = "publish", ![t].resolver = Len(built) + 1]
  /\ UNCHANGED <<readOnly, store, memo, current, history, bounds>>

PublishResolver(t) ==
  /\ At(t, "publish")
  /\ current' = thread[t].resolver
  /\ thread' = [thread EXCEPT ![t].pc = "take"]
  /\ UNCHANGED <<readOnly, store, memo, built, lookup, history, bounds>>

\* An exception leaves neither a memo entry nor an answer.
Fail(t) ==
  /\ reply' = [reply EXCEPT ![t] = [key |-> thread[t].key, mode |-> thread[t].mode,
                                    id |-> NoId, via |-> "error"]]
  /\ thread' = [thread EXCEPT ![t] = Idle]
  /\ UNCHANGED memo

\* The answer, and the memo unless it is the miss of a value shaped like an HF
\* id, which the checker may confirm later.
Finish(t, id, via) ==
  /\ reply' = [reply EXCEPT ![t] = [key |-> thread[t].key, mode |-> thread[t].mode,
                                    id |-> id, via |-> via]]
  /\ memo' = IF id = NoId /\ HitKind[thread[t].key[1]] # "never" THEN memo
             ELSE [memo EXCEPT ![<<thread[t].key, thread[t].mode>>] = [found |-> TRUE, id |-> id]]
  /\ thread' = [thread EXCEPT ![t] = Idle]

\* A disagreement was flagged, and its attestation is the result to settle on.
Prefetched(t) == thread[t].result.id # NoId

\* Another thread may have invalidated the resolver in between, and a request
\* that has to run the chain, or to render the draft it has created, ends in an
\* AttributeError on None.  One that brings an attestation goes on either way.
TakeResolver(t) ==
  /\ At(t, "take")
  /\ \/ current = 0 /\ ~Prefetched(t) /\ Fail(t)
     \/ /\ current # 0 /\ ~Prefetched(t) /\ thread[t].id = NoId
        /\ thread' = [thread EXCEPT ![t].pc = "index", ![t].resolver = current]
        /\ UNCHANGED <<memo, reply>>
     \/ /\ Prefetched(t)
        /\ thread' = [thread EXCEPT ![t].pc = "settle", ![t].resolver = current]
        /\ UNCHANGED <<memo, reply>>
     \/ /\ current # 0 /\ ~Prefetched(t) /\ thread[t].id # NoId
        /\ Finish(t, thread[t].id, "draft")
  /\ UNCHANGED <<readOnly, store, built, lookup, current, touched, bounds>>
-----------------------------------------------------------------------------
(* AliasStore._ensure_lookup_index of the resolver a thread took            *)

\* An index that exists is used as it is, whether or not it is complete.
EnsureIndex(t) ==
  /\ At(t, "index")
  /\ thread' = [thread EXCEPT ![t].pc =
       IF lookup[thread[t].resolver].built THEN "chain" ELSE "publishIndex"]
  /\ UNCHANGED <<readOnly, store, service, history, bounds>>

\* The empty dict is published first, over whatever another thread may have
\* filled in.
PublishIndex(t) ==
  /\ At(t, "publishIndex")
  /\ LET n == thread[t].resolver
         rows == {k \in Keys : built[n].aliases[k] # NoId}
     IN /\ lookup' = [lookup EXCEPT ![n] = [built |-> TRUE, keys |-> {}]]
        /\ thread' = [thread EXCEPT ![t].pc = IF rows = {} THEN "chain" ELSE "fillIndex",
                                    ![t].left = rows]
  /\ UNCHANGED <<readOnly, store, memo, built, current, history, bounds>>

\* Then it is filled row by row.
FillIndex(t) ==
  /\ At(t, "fillIndex")
  /\ \E k \in thread[t].left :
       /\ lookup' = [lookup EXCEPT ![thread[t].resolver].keys = @ \cup {k}]
       /\ thread' = [thread EXCEPT ![t].left = @ \ {k},
            ![t].pc = IF thread[t].left = {k} THEN "chain" ELSE "fillIndex"]
  /\ UNCHANGED <<readOnly, store, memo, built, current, history, bounds>>
-----------------------------------------------------------------------------
(* The answer                                                               *)

Indexed(n) == [k \in Keys |-> IF k \in lookup[n].keys THEN built[n].aliases[k] ELSE NoId]

\* Results of the chain on the resolver the thread took.
Fresh(t) ==
  LET key == thread[t].key
      n == thread[t].resolver
  IN UNION {Resolve(built[n], Indexed(n), key[1], key[2], hit, thread[t].mode) :
              hit \in Hits(key[1])}

\* Exact mode and the read-only service serve the result as it is.
ServeResult(t) ==
  /\ At(t, "chain") /\ thread[t].existing = NoRow
  /\ readOnly \/ thread[t].mode = "exact"
  /\ \E fresh \in Fresh(t) : Finish(t, fresh.id, IF fresh.attested THEN "attested" ELSE "chain")
  /\ UNCHANGED <<readOnly, store, built, lookup, current, touched, bounds>>

\* Mutant of ServeExisting: the fresh result is served even when the alias row
\* says otherwise.
ServeFresh(t) ==
  /\ At(t, "chain") /\ thread[t].existing # NoRow
  /\ LET row == thread[t].existing
     IN \E fresh \in Fresh(t) :
          \/ /\ fresh.attested => SameUpToCase(fresh.id, row.canonical)
             /\ Finish(t, fresh.id, "alias")
          \/ /\ fresh.attested /\ ~SameUpToCase(fresh.id, row.canonical)
             /\ thread[t].mode = "exact"
             /\ Finish(t, fresh.id, "attested")
  /\ UNCHANGED <<readOnly, store, built, lookup, current, touched, bounds>>

\* The alias row found at the start answers, whatever the resolver of this
\* moment says, unless the HF checker attests another repository; exact mode
\* then serves the attestation.
ServeExisting(t) ==
  /\ At(t, "chain") /\ thread[t].existing # NoRow
  /\ LET row == thread[t].existing
     IN \E fresh \in Fresh(t) :
          \/ /\ fresh.attested => SameUpToCase(fresh.id, row.canonical)
             /\ Finish(t, row.canonical, "alias")
          \/ /\ fresh.attested /\ ~SameUpToCase(fresh.id, row.canonical)
             /\ thread[t].mode = "exact"
             /\ Finish(t, fresh.id, "attested")
  /\ UNCHANGED <<readOnly, store, built, lookup, current, touched, bounds>>

\* Mutant of ResolveAfresh: exact requests go down the main path too.
ResolveInAnyMode(t) ==
  /\ At(t, "chain") /\ thread[t].existing = NoRow
  /\ ~readOnly
  /\ \E fresh \in Fresh(t) :
       thread' = [thread EXCEPT ![t].pc = "settle", ![t].result = fresh]
  /\ UNCHANGED <<readOnly, store, service, history, bounds>>

\* A miss, or a match of a raw value without an alias row, goes down the main
\* path; exact mode has returned by then.
ResolveAfresh(t) ==
  /\ At(t, "chain") /\ thread[t].existing = NoRow
  /\ ~readOnly /\ thread[t].mode = "resolve"
  /\ \E fresh \in Fresh(t) :
       thread' = [thread EXCEPT ![t].pc = "settle", ![t].result = fresh]
  /\ UNCHANGED <<readOnly, store, service, history, bounds>>

\* An attestation that disagrees with the row: the row, as it is by now, is
\* flagged uncertain unless the copy read at the start was confirmed, and the
\* attested id goes down the main path, which asks for the resolver again.
FlagDisagreement(t) ==
  /\ At(t, "chain") /\ thread[t].existing # NoRow
  /\ thread[t].mode = "resolve"
  /\ LET at == thread[t].at
         row == thread[t].existing
         status == IF row.status = "confirmed" THEN aliases[at].status ELSE "uncertain"
     IN /\ \E fresh \in Fresh(t) :
             /\ fresh.attested /\ ~SameUpToCase(fresh.id, row.canonical)
             /\ thread' = [thread EXCEPT ![t].pc = "resolver", ![t].result = fresh]
        /\ WriteAlias(at, [aliases[at] EXCEPT !.status = status])
  /\ UNCHANGED <<readOnly, entities, drafts, service, reply, bounds>>
-----------------------------------------------------------------------------
(* The main path                                                            *)

\* A registered match is answered, a spelling of the attested id that the table
\* has is rendered by the resolver, which may be None after a disagreement, and
\* anything else gets an id that is unique in the table of this moment, the
\* pending rows not being looked at.
Settle(t) ==
  /\ At(t, "settle")
  /\ \E s \in Settled(thread[t].key[1], thread[t].result, entities, minted + 1) :
       /\ s.id[2] <= MaxMint
       /\ \/ /\ s.created
             /\ thread' = [thread EXCEPT ![t] = [Idle EXCEPT !.pc = "upsert",
                             !.key = thread[t].key, !.mode = thread[t].mode, !.id = s.id]]
             /\ minted' = IF s.id[2] > 0 THEN s.id[2] ELSE minted
             /\ UNCHANGED <<reply, memo>>
          \/ /\ ~s.created /\ thread[t].result.unregistered /\ thread[t].resolver = 0
             /\ Fail(t) /\ UNCHANGED minted
          \/ /\ ~s.created /\ ~(thread[t].result.unregistered /\ thread[t].resolver = 0)
             /\ Finish(t, s.id, IF thread[t].result.attested THEN "attested" ELSE "chain")
             /\ UNCHANGED minted
  /\ UNCHANGED <<readOnly, store, built, lookup, current, touched,
                 requests, patches, posts>>

\* upsert_entity(buffered=True) looks for a row of that id, in the table and
\* in the buffer,
UpsertDraft(t) ==
  /\ At(t, "upsert")
  /\ thread' = [thread EXCEPT ![t].pc =
       IF thread[t].id \in entities \cup DraftIds THEN "invalidate" ELSE "append"]
  /\ UNCHANGED <<readOnly, store, service, history, bounds>>

\* Mutant of AppendDraft: the row is buffered under its raw value.
AppendRaw(t) ==
  /\ At(t, "append")
  /\ drafts' = Append(drafts, thread[t].key)
  /\ thread' = [thread EXCEPT ![t].pc = "invalidate"]
  /\ UNCHANGED <<readOnly, entities, aliases, service, history, bounds>>

\* and appends one to the buffer if it saw none.
AppendDraft(t) ==
  /\ At(t, "append")
  /\ drafts' = Append(drafts, thread[t].id)
  /\ thread' = [thread EXCEPT ![t].pc = "invalidate"]
  /\ UNCHANGED <<readOnly, entities, aliases, service, history, bounds>>

\* A created draft drops the resolver; rendering the answer takes a new one.
InvalidateResolver(t) ==
  /\ At(t, "invalidate")
  /\ current' = 0
  /\ thread' = [thread EXCEPT ![t].pc = "resolver"]
  /\ UNCHANGED <<readOnly, store, memo, built, lookup, history, bounds>>
-----------------------------------------------------------------------------
(* routes_aliases.py, routes_entities.py: refused when the service is      *)
(* read-only (deps.py)                                                      *)

\* A reviewer confirms, rejects or corrects a row of the table; neither the
\* resolver nor the memo of the service hears of it.
PatchAlias(key, row) ==
  /\ ~readOnly /\ patches < MaxPatches
  /\ aliases[key] # NoRow
  /\ WriteAlias(key, row)
  /\ patches' = patches + 1
  /\ UNCHANGED <<readOnly, entities, drafts, service, thread, reply, minted, requests, posts>>

\* POST and PATCH of an entity read the table; a row that is only in the
\* buffer is merged there.
PostEntity(t, id) ==
  /\ At(t, "idle") /\ ~readOnly /\ posts < MaxPosts
  /\ id \in entities \/ id \notin DraftIds
  /\ posts' = posts + 1
  /\ thread' = [thread EXCEPT ![t].pc = "store", ![t].ids = entities, ![t].id = id]
  /\ UNCHANGED <<readOnly, store, service, history, minted, requests, patches>>

\* The table read, with the row, replaces the table.
StoreEntity(t) ==
  /\ At(t, "store")
  /\ entities' = thread[t].ids \cup {thread[t].id}
  /\ thread' = [thread EXCEPT ![t] = Idle]
  /\ UNCHANGED <<readOnly, drafts, aliases, service, history, bounds>>

Next ==
  \/ \E t \in Threads :
       \/ \E key \in Keys, mode \in Modes : Receive(t, key, mode)
       \/ FindAlias(t)
       \/ CheckResolver(t) \/ BuildResolver(t) \/ PublishResolver(t) \/ TakeResolver(t)
       \/ EnsureIndex(t) \/ PublishIndex(t) \/ FillIndex(t)
       \/ ServeResult(t) \/ ServeExisting(t) \/ FlagDisagreement(t) \/ ResolveAfresh(t)
       \/ Settle(t) \/ UpsertDraft(t) \/ AppendDraft(t) \/ InvalidateResolver(t)
       \/ \E id \in PostIds : PostEntity(t, id)
       \/ StoreEntity(t)
  \/ \E key \in Keys, row \in PatchRows : PatchAlias(key, row)

Spec == Init /\ [][Next]_vars
-----------------------------------------------------------------------------
TypeOK ==
  /\ readOnly \in BOOLEAN
  /\ entities \subseteq Ids /\ drafts \in Seq(Ids)
  /\ aliases \in [Keys -> Rows]
  /\ memo \in [Keys \X Modes -> [found : BOOLEAN, id : Ids \cup {NoId}]]
  /\ built \in Seq([entities : SUBSET Ids, aliases : [Keys -> Ids \cup {NoId}]])
  /\ lookup \in Seq([built : BOOLEAN, keys : SUBSET Keys])
  /\ current \in 0 .. Len(built) /\ Len(lookup) = Len(built)
  /\ \A t \in Threads :
       /\ thread[t].key \in Keys /\ thread[t].at \in Keys /\ thread[t].mode \in Modes
       /\ thread[t].existing \in Rows /\ thread[t].resolver \in 0 .. Len(built)
       /\ thread[t].left \subseteq Keys /\ thread[t].result \in Results
       /\ thread[t].id \in Ids \cup {NoId} /\ thread[t].ids \subseteq Ids
       /\ thread[t].pc \in {"idle", "alias", "resolver", "build", "publish", "take", "index",
            "publishIndex", "fillIndex", "chain", "settle", "upsert", "append", "invalidate", "store"}
  /\ reply \in [Threads -> [key : Keys, mode : Modes, id : Ids \cup {NoId},
                          via : {"none", "memo", "alias", "attested", "chain", "draft", "error"}]]
  /\ touched \in [Threads -> SUBSET Keys]

\* A lookup index that another thread is still filling hides alias rows, but
\* never turns a request for an aliased value into a miss or into a new draft:
\* the normalized tier, whose map is not shared while it is built, still
\* answers it with the id of a row of the same normalized form.
AliasedNeverMissed ==
  \A t \in Threads :
    LET key == reply[t].key
    IN /\ reply[t].via \in {"chain", "draft"}
       /\ Live(aliases[key]) /\ key \notin touched[t]
       => /\ reply[t].via = "chain"
          /\ \E k \in Keys : Norm[k[1]] = Norm[key[1]] /\ aliases[k].canonical = reply[t].id

\* In the writable service a request that is not answered from the memo gives
\* the id its alias row has had since the request came in, although the
\* resolver it runs on may be older than that row: a patch is seen by every
\* value not answered before.  Only an HF attestation answers otherwise.
PatchSeen ==
  \A t \in Threads :
    LET key == reply[t].key
    IN /\ ~readOnly /\ reply[t].via \in {"alias", "chain", "draft"}
       /\ Live(aliases[key]) /\ key \notin touched[t]
       => reply[t].id = aliases[key].canonical

\* An alias row is what answers, whatever the threads share meanwhile.
AliasesAnswer == AliasedNeverMissed /\ PatchSeen

\* README "Exact mode", deps.py: no step of an exact request, nor any step of a
\* read-only service, from the chain to the tables a draft or a post would be
\* written to, changes the registry, whatever tier answers it and whatever the
\* HF checker attests.
ReadersNeverWrite ==
  [][\A t \in Threads :
       /\ thread[t].pc # "idle" /\ thread'[t] # thread[t]
       /\ readOnly \/ thread[t].mode = "exact"
       => UNCHANGED store]_vars

=============================================================================
