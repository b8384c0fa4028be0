-------------------------- MODULE ApiServiceProofs --------------------------
(***************************************************************************)
(* The API under any number of threads, any requests, patches and posts, in *)
(* any interleaving: an alias row is what answers, and neither a read-only  *)
(* service nor an exact request writes to the registry.                     *)
(***************************************************************************)
EXTENDS ApiService, SequenceTheorems, TLAPS

MaybeIds == Ids \cup {NoId}
Maps == [Keys -> MaybeIds]
Snapshots == [entities : SUBSET Ids, aliases : Maps]
Replies == [key : Keys, mode : Modes, id : MaybeIds,
            via : {"none", "memo", "alias", "attested", "chain", "draft", "error"}]

(* Where a thread stands: on its way to a resolver, using it, past it.      *)
Fetching == {"resolver", "build", "publish", "take"}
Using == {"index", "publishIndex", "fillIndex", "chain"}
Drafting == {"upsert", "append", "invalidate"}
Pcs == {"idle", "alias", "settle", "store"} \cup Fetching \cup Using \cup Drafting

Locals == [pc : Pcs, key : Keys, mode : Modes, existing : Rows, at : Keys, resolver : Nat,
           left : SUBSET Keys, result : Results, id : MaybeIds, ids : SUBSET Ids]

(* The variables the threads share.                                         *)
Shared ==
  /\ readOnly \in BOOLEAN
  /\ entities \in SUBSET Ids /\ drafts \in Seq(Ids)
  /\ aliases \in [Keys -> Rows]
  /\ memo \in [Keys \X Modes -> [found : BOOLEAN, id : MaybeIds]]
  /\ built \in Seq(Snapshots) /\ lookup \in Seq([built : BOOLEAN, keys : SUBSET Keys])
  /\ current \in 0 .. Len(built) /\ Len(lookup) = Len(built)
  /\ touched \in [Threads -> SUBSET Keys]
  /\ minted \in Nat

(* The locals a thread relies on where it stands.                           *)
Control(th) ==
  /\ th \in Locals /\ th.resolver \in 0 .. Len(built)
  /\ th.pc \in Using \cup {"publish"} => th.resolver # 0
  /\ th.pc \in Drafting \cup {"store"} => th.id \in Ids
  /\ th.pc \in Drafting \cup {"idle", "settle", "store"} => th.mode = "resolve"
  /\ th.pc \in {"idle", "alias"} => th.id = NoId /\ th.result.id = NoId
  /\ th.pc \in Fetching /\ (th.id # NoId \/ th.result.id # NoId) => th.mode = "resolve"
  /\ th.existing # NoRow => aliases[th.at] # NoRow

(* A key whose alias row has not been written since the request came in.    *)
Steady(t, key) == Live(aliases[key]) /\ key \notin touched[t]

(* A writable service works on the row as it was when the request came in,  *)
(* and on no draft of a value that has one.                                 *)
OnRow(t, th) ==
  ~readOnly /\ Steady(t, th.key) =>
    /\ th.pc \notin Drafting \cup {"settle"}
    /\ th.pc \in Fetching \cup Using =>
         /\ th.id = NoId /\ th.result.id = NoId
         /\ th.at = th.key /\ th.existing = aliases[th.key]

(* A read-only service never leaves the read path.                          *)
OnlyReads(th) ==
  readOnly => /\ th.pc \in {"idle"} \cup Fetching \cup Using
              /\ th.existing = NoRow /\ th.id = NoId /\ th.result.id = NoId

(* Every snapshot of a read-only service is of the rows it loaded.          *)
OneSnapshot ==
  readOnly => \A n \in 1 .. Len(built) : \A k \in Keys :
    built[n].aliases[k] = IF Live(aliases[k]) THEN aliases[k].canonical ELSE NoId

(* What an answer owes to the row of its key.                               *)
Owes(t, r) ==
  Steady(t, r.key) =>
    /\ ~readOnly => /\ r.via \notin {"chain", "draft"}
                    /\ r.via = "alias" => r.id = aliases[r.key].canonical
    /\ readOnly => /\ r.via # "draft"
                   /\ r.via = "chain" =>
                        \E k \in Keys : Norm[k[1]] = Norm[r.key[1]] /\ aliases[k].canonical = r.id

(* A thread and its last answer.                                            *)
Sound(t, th, r) ==
  Control(th) /\ OnRow(t, th) /\ OnlyReads(th) /\ r \in Replies /\ Owes(t, r)

(* The inductive invariant: every property of the theorems follows from it.  *)
IInv ==
  /\ Shared /\ OneSnapshot
  /\ thread \in [Threads -> Locals] /\ reply \in [Threads -> Replies]
  /\ \A t \in Threads : Sound(t, thread[t], reply[t])
-----------------------------------------------------------------------------

(* Ids have two parts; NoId is none of them.                                *)
LEMMA IdFacts ==
  /\ NoId \notin Ids
  /\ \A b \in Bases : Plain(b) \in Ids
  /\ \A b \in Bases, n \in Nat : <<b, n>>[2] = n /\ (n <= MaxMint => <<b, n>> \in Ids)
BY ChainAssumption DEF Ids, NoId, Plain

(* A live row names an id, and no row that names none is live.              *)
LEMMA RowFacts ==
  /\ NoRow \in Rows /\ ~Live(NoRow)
  /\ \A row \in Rows : row.canonical \in MaybeIds /\ (Live(row) => row.canonical \in Ids)
  /\ \A row \in Rows, st \in Statuses : row # NoRow => [row EXCEPT !.status = st] \in Rows
  /\ \A row \in Rows : row # NoRow => row \in [canonical : Ids, status : Statuses]
  /\ [canonical : Ids, status : Statuses] \subseteq Rows
BY IdFacts DEF Rows, NoRow, Live, MaybeIds, Statuses

(* Keys are a raw value with a scope.                                       *)
LEMMA KeyFacts ==
  /\ \A k \in Keys : k[1] \in Raws /\ k[2] \in Scopes /\ k = <<k[1], k[2]>>
  /\ \A r \in Raws, s \in Scopes : <<r, s>> \in Keys /\ <<r, s>>[1] = r
  /\ Global \in Scopes /\ AnyKey \in Keys
<1>1. Global \in Scopes
  BY DEF Scopes
<1>2. AnyKey \in Keys
  <2>1. \E r \in Raws : <<r, Global>> \in Keys
    BY <1>1, ApiAssumption DEF Keys
  <2> QED BY <2>1 DEF AnyKey
<1> QED BY <1>1, <1>2 DEF Keys

(* What a thread starts from.                                               *)
LEMMA IdleFacts ==
  /\ Idle \in Locals /\ Idle.pc = "idle" /\ Idle.id = NoId /\ Idle.existing = NoRow
  /\ Idle.result.id = NoId /\ Idle.resolver = 0 /\ Idle.mode = "resolve"
  /\ NoReply \in Replies /\ NoReply.via = "none"
<1>1. Result(NoId, FALSE, FALSE) \in Results /\ Result(NoId, FALSE, FALSE).id = NoId
  BY DEF Result, Results
<1> QED BY <1>1, KeyFacts, RowFacts DEF Idle, NoReply, Locals, Replies, Modes, Pcs, MaybeIds

-----------------------------------------------------------------------------
(* The chain of ResolverChain over a snapshot and a lookup index.           *)

(* The ids of the rows that share the normalized form of a raw value.       *)
Alike(map, raw) == {map[k] : k \in {x \in Keys : Norm[x[1]] = Norm[raw]}} \ {NoId}

(* A normalized lookup returns some of them, and one at least if the value  *)
(* has a row itself.                                                        *)
LEMMA NearFacts ==
  ASSUME NEW map, NEW raw \in Raws, NEW scope \in Scopes
  PROVE  /\ Near(map, Norm[raw], scope) \subseteq Alike(map, raw)
         /\ map[<<raw, scope>>] # NoId => Near(map, Norm[raw], scope) # {}
<1> DEFINE at(s) == {map[<<r, s>>] : r \in {q \in Raws : Norm[q] = Norm[raw]}} \ {NoId}
<1>1. Near(map, Norm[raw], scope) = IF at(scope) # {} THEN at(scope) ELSE at(Global)
  BY DEF Near
<1>2. \A s \in Scopes : at(s) \subseteq Alike(map, raw)
  BY KeyFacts DEF Alike
<1>3. map[<<raw, scope>>] # NoId => map[<<raw, scope>>] \in at(scope)
  OBVIOUS
<1> HIDE DEF at
<1> QED BY <1>1, <1>2, <1>3, KeyFacts

\* A normalized lookup returns ids.
LEMMA NearType ==
  ASSUME NEW map \in Maps, NEW form, NEW scope \in Scopes
  PROVE  Near(map, form, scope) \subseteq Ids
<1> DEFINE at(s) == {map[<<r, s>>] : r \in {q \in Raws : Norm[q] = form}} \ {NoId}
<1>1. Near(map, form, scope) = IF at(scope) # {} THEN at(scope) ELSE at(Global)
  BY DEF Near
<1>2. ASSUME NEW s \in Scopes PROVE at(s) \subseteq Ids
  <2>1. \A r \in Raws : map[<<r, s>>] \in MaybeIds
    BY KeyFacts DEF Maps
  <2> QED BY <2>1 DEF MaybeIds
<1> HIDE DEF at
<1> QED BY <1>1, <1>2, KeyFacts

\* The fuzzy tier returns an id or a miss.
LEMMA FuzzyType ==
  ASSUME NEW map \in Maps, NEW raw \in Raws, NEW scope \in Scopes
  PROVE  Fuzzy(map, raw, scope) \subseteq MaybeIds
<1> DEFINE found(i) == Near(map, Rewrites[raw][i], scope)
<1>1. \A i \in DOMAIN Rewrites[raw] : found(i) \subseteq Ids
  BY NearType
<1> QED BY <1>1 DEF Fuzzy, MaybeIds

(* The ways the chain answers: with the attested id, with an alias of the   *)
(* value or of one like it, or, where there is none, with what the fuzzy    *)
(* rules find.                                                              *)
Answered(fresh, exact, near, fuzzy, hf) ==
  \/ fresh \in {Result(hf, TRUE, TRUE), Result(hf, TRUE, FALSE)}
  \/ \E id \in near \cup ({exact} \ {NoId}) :
       fresh \in {Result(id, TRUE, FALSE), Result(id, FALSE, FALSE)}
  \/ near = {} /\ \E id \in fuzzy \cup {NoId} : fresh = Result(id, FALSE, FALSE)

\* Whichever tier answers, the result is one that Answered describes.
LEMMA ChainCases ==
  ASSUME NEW snap, NEW indexed, NEW raw \in Raws, NEW scope, NEW hit \in Hits(raw), NEW mode,
         NEW fresh \in Resolve(snap, indexed, raw, scope, hit, mode)
  PROVE  Answered(fresh, Exact(indexed, raw, scope), Near(snap.aliases, Norm[raw], scope),
                  Fuzzy(snap.aliases, raw, scope), Plain(HfName[raw]))
<1> DEFINE exact == Exact(indexed, raw, scope)
           near == Near(snap.aliases, Norm[raw], scope)
           fuzzy == Fuzzy(snap.aliases, raw, scope)
           hf == Plain(HfName[raw])
           aliased(id) == Result(id, hit # "unknown" /\ id = hf, FALSE)
           checked == Result(hf, TRUE, hf \notin snap.entities)
           rest == IF mode = "exact" THEN {NoId} ELSE fuzzy
           missed == {Result(id, FALSE, FALSE) : id \in rest}
<1>1. hit \in {"unknown", "verbatim", "normalized"}
  BY ChainAssumption DEF Hits
<1>2. \A id : aliased(id) \in {Result(id, TRUE, FALSE), Result(id, FALSE, FALSE)}
  <2> TAKE id
  <2>1. CASE hit # "unknown" /\ id = hf
    <3>1. (hit # "unknown" /\ id = hf) = TRUE
      BY <2>1
    <3> QED BY <3>1
  <2>2. CASE ~(hit # "unknown" /\ id = hf)
    <3>1. (hit # "unknown" /\ id = hf) = FALSE
      BY <2>2
    <3> QED BY <3>1
  <2> QED BY <2>1, <2>2
<1>3. checked \in {Result(hf, TRUE, TRUE), Result(hf, TRUE, FALSE)}
  <2>1. CASE hf \in snap.entities
    <3>1. (hf \notin snap.entities) = FALSE
      BY <2>1
    <3> QED BY <3>1
  <2>2. CASE hf \notin snap.entities
    <3>1. (hf \notin snap.entities) = TRUE
      BY <2>2
    <3> QED BY <3>1
  <2> QED BY <2>1, <2>2
<1>4. Resolve(snap, indexed, raw, scope, hit, mode) =
        CASE hit = "verbatim" -> {IF exact = hf THEN aliased(hf) ELSE checked}
          [] hit # "verbatim" /\ exact # NoId -> {aliased(exact)}
          [] hit # "verbatim" /\ exact = NoId /\ near # {} -> {aliased(id) : id \in near}
          [] hit = "normalized" /\ exact = NoId /\ near = {} -> {checked}
          [] hit = "unknown" /\ exact = NoId /\ near = {} -> missed
  BY DEF Resolve
<1>5. hit = "verbatim" => aliased(hf) = Result(hf, TRUE, FALSE)
  <2> SUFFICES ASSUME hit = "verbatim" PROVE aliased(hf) = Result(hf, TRUE, FALSE)
    OBVIOUS
  <2>1. (hit # "unknown" /\ hf = hf) = TRUE
    OBVIOUS
  <2> QED BY <2>1
<1>6. \A r \in missed : \E id \in fuzzy \cup {NoId} : r = Result(id, FALSE, FALSE)
  OBVIOUS
<1> HIDE DEF exact, near, fuzzy, hf, aliased, checked, missed, rest
<1>7. \/ hit = "verbatim" /\ fresh \in {aliased(hf), checked}
      \/ exact # NoId /\ fresh = aliased(exact)
      \/ \E id \in near : fresh = aliased(id)
      \/ fresh = checked
      \/ near = {} /\ fresh \in missed
  BY <1>1, <1>4
<1>8. Answered(fresh, exact, near, fuzzy, hf)
  BY <1>2, <1>3, <1>5, <1>6, <1>7 DEF Answered
<1> QED BY <1>8 DEF exact, near, fuzzy, hf

\* What Result builds is a result.
LEMMA ResultFacts ==
  \A id \in MaybeIds, a, u \in BOOLEAN : Result(id, a, u) \in Results
BY DEF Result, Results, MaybeIds

(* It answers with results,                                                 *)
LEMMA ChainType ==
  ASSUME NEW snap \in Snapshots, NEW indexed \in Maps, NEW raw \in Raws, NEW scope \in Scopes,
         NEW hit \in Hits(raw), NEW mode,
         NEW fresh \in Resolve(snap, indexed, raw, scope, hit, mode)
  PROVE  fresh \in Results
<1> DEFINE exact == Exact(indexed, raw, scope)
           near == Near(snap.aliases, Norm[raw], scope)
           tail == Fuzzy(snap.aliases, raw, scope)
           hf == Plain(HfName[raw])
<1>1. snap.aliases \in Maps
  BY DEF Snapshots
<1>2. exact \in MaybeIds
  BY KeyFacts DEF Exact, Maps
<1>3. near \subseteq MaybeIds /\ tail \subseteq MaybeIds
  BY <1>1, NearType, FuzzyType DEF MaybeIds
<1>4. hf \in MaybeIds /\ NoId \in MaybeIds
  BY ChainAssumption, IdFacts DEF MaybeIds
<1>5. Answered(fresh, exact, near, tail, hf)
  BY ChainCases
<1> HIDE DEF exact, near, tail, hf
<1>6. \E id \in MaybeIds, a \in BOOLEAN, u \in BOOLEAN : fresh = Result(id, a, u)
  BY <1>2, <1>3, <1>4, <1>5 DEF Answered
<1> QED BY <1>6, ResultFacts

(* and a value the snapshot has an alias for, unless attested, with the id  *)
(* of a row of the same normalized form, however little of the index is     *)
(* filled in.                                                               *)
LEMMA AliasedFound ==
  ASSUME NEW snap \in Snapshots, NEW indexed \in Maps, NEW raw \in Raws, NEW scope \in Scopes,
         NEW hit \in Hits(raw), NEW mode,
         NEW fresh \in Resolve(snap, indexed, raw, scope, hit, mode),
         \A k \in Keys : indexed[k] \in {NoId, snap.aliases[k]},
         snap.aliases[<<raw, scope>>] # NoId, ~fresh.attested
  PROVE  fresh.id \in Alike(snap.aliases, raw)
<1> DEFINE exact == Exact(indexed, raw, scope)
           near == Near(snap.aliases, Norm[raw], scope)
<1>1. exact # NoId => exact \in Alike(snap.aliases, raw)
  BY KeyFacts DEF Exact, Alike
<1>2. near # {} /\ near \subseteq Alike(snap.aliases, raw)
  BY NearFacts
<1>3. Answered(fresh, exact, near, Fuzzy(snap.aliases, raw, scope), Plain(HfName[raw]))
  BY ChainCases
<1> HIDE DEF exact, near
<1>4. \E id \in near \cup ({exact} \ {NoId}) : fresh.id = id
  <2>1. fresh \notin {Result(Plain(HfName[raw]), TRUE, TRUE), Result(Plain(HfName[raw]), TRUE, FALSE)}
    BY DEF Result
  <2>2. PICK id \in near \cup ({exact} \ {NoId}) :
          fresh \in {Result(id, TRUE, FALSE), Result(id, FALSE, FALSE)}
    BY <1>2, <1>3, <2>1 DEF Answered
  <2>3. fresh.id = id
    BY <2>2 DEF Result
  <2> QED BY <2>3
<1> QED BY <1>1, <1>2, <1>4

(* The main path settles on ids.                                            *)
LEMMA SettledType ==
  ASSUME NEW ids \in SUBSET Ids, NEW n \in Nat, NEW raw \in Raws, NEW fresh \in Results,
         NEW s \in Settled(raw, fresh, ids, n), s.id[2] <= MaxMint
  PROVE  s.id \in Ids /\ s.created \in BOOLEAN
<1>1. CASE fresh.id # NoId /\ ~fresh.unregistered
  <2>1. s = [id |-> fresh.id, created |-> FALSE, status |-> "auto"]
    BY <1>1 DEF Settled
  <2> QED BY <1>1, <2>1 DEF Results
<1>2. CASE fresh.unregistered /\ CaseVariants(fresh.id, ids) # {}
  <2>1. \E v \in ids : s = [id |-> v, created |-> FALSE, status |-> "auto"]
    BY <1>2 DEF Settled, CaseVariants
  <2> QED BY <2>1
<1>3. CASE /\ ~(fresh.id # NoId /\ ~fresh.unregistered)
           /\ ~(fresh.unregistered /\ CaseVariants(fresh.id, ids) # {})
  <2>1. PICK b \in MintBases(raw, fresh) :
          s = [id |-> MintId(b, ids, n), created |-> TRUE,
               status |-> IF fresh.unregistered THEN "auto" ELSE "uncertain"]
    BY <1>3 DEF Settled
  <2>2. b \in Bases
    BY <2>1, ChainAssumption DEF MintBases
  <2>3. s.id = Plain(b) \/ s.id = <<b, n>>
    BY <2>1 DEF MintId
  <2>4. s.id \in Ids
    BY <2>2, <2>3, IdFacts
  <2> QED BY <2>1, <2>4
<1> QED BY <1>1, <1>2, <1>3
-----------------------------------------------------------------------------
(* Steps of one thread.                                                     *)

\* A step that writes only a thread's locals keeps the shared variables as they are.
LEMMA SharedKept ==
  ASSUME IInv, UNCHANGED <<readOnly, store, service, touched, minted>>
  PROVE  Shared' /\ OneSnapshot'
BY DEF IInv, Shared, OneSnapshot, store, service

(* A step of one thread that leaves the rows alone concerns no other.       *)
LEMMA Moves ==
  ASSUME IInv, NEW t \in Threads, NEW th, NEW r,
         thread' = [thread EXCEPT ![t] = th], reply' = [reply EXCEPT ![t] = r],
         UNCHANGED <<readOnly, aliases>>, Len(built) <= Len(built'),
         \A u \in Threads \ {t} : touched'[u] = touched[u],
         Shared', OneSnapshot',
         Control(th)', OnRow(t, th)', OnlyReads(th)', r \in Replies, Owes(t, r)'
  PROVE  IInv'
<1>1. th \in Locals
  BY DEF Control
<1>2. thread' \in [Threads -> Locals] /\ reply' \in [Threads -> Replies]
  BY <1>1 DEF IInv
<1>3. ASSUME NEW u \in Threads PROVE Sound(u, thread[u], reply[u])'
  <2>1. CASE u = t
    <3>1. thread'[u] = th /\ reply'[u] = r
      BY <2>1 DEF IInv
    <3> QED BY <2>1, <3>1 DEF Sound
  <2>2. CASE u # t
    <3>1. thread'[u] = thread[u] /\ reply'[u] = reply[u] /\ touched'[u] = touched[u]
      BY <2>2 DEF IInv
    <3>2. Sound(u, thread[u], reply[u])
      BY DEF IInv
    <3>3. Len(built) \in Nat /\ Len(built') \in Nat
      BY LenProperties DEF IInv, Shared
    <3>4. Control(thread[u])'
      BY <3>1, <3>2, <3>3 DEF Sound, Control, Locals
    <3>5. OnRow(u, thread[u])' /\ OnlyReads(thread[u])'
      BY <3>1, <3>2 DEF Sound, OnRow, OnlyReads, Steady
    <3>6. Owes(u, reply[u])' /\ reply'[u] \in Replies
      BY <3>1, <3>2 DEF Sound, Owes, Steady
    <3> QED BY <3>4, <3>5, <3>6 DEF Sound
  <2> QED BY <2>1, <2>2
<1> QED BY <1>2, <1>3 DEF IInv

(* A step that is seen by its thread only.                                  *)
LEMMA Walks ==
  ASSUME IInv, NEW t \in Threads, NEW th, thread' = [thread EXCEPT ![t] = th],
         UNCHANGED <<readOnly, store, service, history, bounds>>,
         Control(th), OnRow(t, th), OnlyReads(th)
  PROVE  IInv'
<1>1. Sound(t, thread[t], reply[t])
  BY DEF IInv
<1>2. reply' = [reply EXCEPT ![t] = reply[t]]
  BY DEF IInv, history
<1>3. Shared' /\ OneSnapshot'
  BY SharedKept DEF history, bounds
<1>4. Len(built) <= Len(built')
  BY LenProperties DEF IInv, Shared, service
<1>5. Control(th)' /\ OnRow(t, th)' /\ OnlyReads(th)'
  BY DEF Control, OnRow, OnlyReads, Steady, store, service, history
<1>6. reply[t] \in Replies
  BY <1>1 DEF Sound
<1>7. ASSUME NEW r, r = reply[t] PROVE Owes(t, r)'
  BY <1>1, <1>7 DEF Sound, Owes, Steady, store, history
<1>8. PICK r : r = reply[t]
  OBVIOUS
<1>9. Owes(t, r)' /\ r \in Replies /\ reply' = [reply EXCEPT ![t] = r]
  BY <1>2, <1>6, <1>7, <1>8
<1> QED BY <1>3, <1>4, <1>5, <1>9, Moves DEF store, history

(* A step that answers nothing.                                             *)
LEMMA Steps ==
  ASSUME IInv, NEW t \in Threads, NEW th, thread' = [thread EXCEPT ![t] = th],
         UNCHANGED <<readOnly, aliases, history>>, Len(built) <= Len(built'),
         Shared', OneSnapshot', Control(th)', OnRow(t, th), OnlyReads(th)
  PROVE  IInv'
<1>1. Sound(t, thread[t], reply[t])
  BY DEF IInv
<1>2. PICK r : r = reply[t]
  OBVIOUS
<1>3. reply' = [reply EXCEPT ![t] = r] /\ r \in Replies
  BY <1>1, <1>2 DEF IInv, history, Sound
<1>4. OnRow(t, th)' /\ OnlyReads(th)'
  BY DEF OnRow, OnlyReads, Steady, history
<1>5. Owes(t, r)'
  BY <1>1, <1>2 DEF Sound, Owes, Steady, history
<1> QED BY <1>3, <1>4, <1>5, Moves DEF history

(* An answer.                                                               *)
LEMMA Answering ==
  ASSUME IInv, NEW t \in Threads, NEW id \in MaybeIds,
         NEW via \in {"memo", "alias", "attested", "chain", "draft", "error"}, NEW r,
         r = [key |-> thread[t].key, mode |-> thread[t].mode, id |-> id, via |-> via],
         thread' = [thread EXCEPT ![t] = Idle], reply' = [reply EXCEPT ![t] = r],
         memo' \in [Keys \X Modes -> [found : BOOLEAN, id : MaybeIds]],
         UNCHANGED <<readOnly, store, built, lookup, current, touched, minted>>,
         Owes(t, r)
  PROVE  IInv'
<1>1. thread[t].key \in Keys /\ thread[t].mode \in Modes
  BY DEF IInv, Locals
<1>2. r \in Replies
  BY <1>1 DEF Replies
<1>3. Shared' /\ OneSnapshot'
  BY DEF IInv, Shared, OneSnapshot, store
<1>4. Control(Idle)' /\ OnRow(t, Idle)' /\ OnlyReads(Idle)'
  BY <1>3, IdleFacts, LenProperties DEF Control, OnRow, OnlyReads, Using, Fetching, Drafting, Shared
<1>5. Owes(t, r)'
  BY DEF Owes, Steady, store
<1>6. Len(built) <= Len(built')
  BY LenProperties DEF IInv, Shared
<1> QED BY <1>2, <1>3, <1>4, <1>5, <1>6, Moves DEF store

\* A request that answers within what it owes to the row of its key, and
\* writes nothing but the memo, keeps the invariant.
LEMMA Finishing ==
  ASSUME IInv, NEW t \in Threads, NEW id \in MaybeIds,
         NEW via \in {"memo", "alias", "attested", "chain", "draft", "error"},
         Finish(t, id, via), UNCHANGED <<readOnly, store, built, lookup, current, touched, minted>>,
         Owes(t, [key |-> thread[t].key, mode |-> thread[t].mode, id |-> id, via |-> via])
  PROVE  IInv'
<1>1. <<thread[t].key, thread[t].mode>> \in Keys \X Modes
  BY DEF IInv, Locals
<1>2. memo' \in [Keys \X Modes -> [found : BOOLEAN, id : MaybeIds]]
  BY <1>1 DEF Finish, IInv, Shared
<1>3. PICK r : r = [key |-> thread[t].key, mode |-> thread[t].mode, id |-> id, via |-> via]
  OBVIOUS
<1> QED BY <1>2, <1>3, Answering DEF Finish

\* A request that ends in an exception owes nothing to any row.
LEMMA Failing ==
  ASSUME IInv, NEW t \in Threads, Fail(t),
         UNCHANGED <<readOnly, store, built, lookup, current, touched, minted>>
  PROVE  IInv'
<1>1. PICK r : r = [key |-> thread[t].key, mode |-> thread[t].mode, id |-> NoId, via |-> "error"]
  OBVIOUS
<1>2. Owes(t, r)
  BY <1>1 DEF Owes
<1>3. memo' \in [Keys \X Modes -> [found : BOOLEAN, id : MaybeIds]]
  BY DEF Fail, IInv, Shared
<1>4. NoId \in MaybeIds
  BY DEF MaybeIds
<1> QED BY <1>1, <1>2, <1>3, <1>4, Answering DEF Fail

-----------------------------------------------------------------------------
(* To a resolver.                                                           *)

\* A request comes in: the memo answers it, or its locals start afresh.
LEMMA ReceiveKeeps ==
  ASSUME IInv, NEW t \in Threads, NEW key \in Keys, NEW mode \in Modes, Receive(t, key, mode)
  PROVE  IInv'
<1>1. Sound(t, thread[t], reply[t]) /\ thread[t] \in Locals
  BY DEF IInv
<1>2. touched' \in [Threads -> SUBSET Keys] /\ touched' = [touched EXCEPT ![t] = {}]
  BY DEF Receive, IInv, Shared
<1>3. Shared' /\ OneSnapshot'
  BY <1>2 DEF IInv, Shared, OneSnapshot, Receive, store, service
<1>4. Len(built) <= Len(built')
  BY LenProperties DEF Receive, IInv, Shared, service
<1>5. UNCHANGED <<readOnly, aliases>>
  BY DEF Receive, store
<1>6. \A u \in Threads \ {t} : touched'[u] = touched[u]
  BY <1>2 DEF IInv, Shared
<1>7. <<key, mode>> \in Keys \X Modes
  OBVIOUS
<1>8. CASE memo[<<key, mode>>].found
  <2>1. PICK r : r = [key |-> key, mode |-> mode, id |-> memo[<<key, mode>>].id, via |-> "memo"]
    OBVIOUS
  <2>2. PICK th : th = thread[t]
    OBVIOUS
  <2>3. thread' = [thread EXCEPT ![t] = th] /\ reply' = [reply EXCEPT ![t] = r]
    BY <1>8, <2>1, <2>2 DEF Receive, IInv
  <2>4. r \in Replies
    BY <1>7, <2>1 DEF Replies, IInv, Shared
  <2>5. Control(th)'
    BY <1>1, <1>5, <2>2 DEF Sound, Control, Receive, service, Using, Drafting
  <2>6. OnRow(t, th)'
    BY <2>2 DEF OnRow, Receive, At, Using, Fetching, Drafting
  <2>7. OnlyReads(th)'
    BY <1>1, <1>5, <2>2 DEF Sound, OnlyReads
  <2>8. Owes(t, r)'
    BY <2>1 DEF Owes
  <2> QED BY <1>3, <1>4, <1>5, <1>6, <2>3, <2>4, <2>5, <2>6, <2>7, <2>8, Moves
<1>9. CASE ~memo[<<key, mode>>].found
  <2>1. PICK th : th = [thread[t] EXCEPT !.pc = IF readOnly THEN "resolver" ELSE "alias",
                                         !.key = key, !.mode = mode]
    OBVIOUS
  <2>2. thread' = [thread EXCEPT ![t] = th] /\ reply' = [reply EXCEPT ![t] = NoReply]
    BY <1>9, <2>1 DEF Receive, IInv
  <2>3. /\ th \in Locals /\ th.pc = (IF readOnly THEN "resolver" ELSE "alias")
        /\ th.id = thread[t].id /\ th.existing = thread[t].existing /\ th.at = thread[t].at
        /\ th.resolver = thread[t].resolver /\ th.result = thread[t].result
    BY <1>1, <2>1 DEF Locals, Pcs, Fetching
  <2>4. Control(th)'
    BY <1>1, <1>5, <2>3 DEF Sound, Control, Receive, At, service, Using, Drafting
  <2>5. OnRow(t, th)'
    BY <1>5, <2>3 DEF OnRow, Using, Fetching, Drafting
  <2>6. OnlyReads(th)'
    BY <1>1, <1>5, <2>3 DEF Sound, OnlyReads, Fetching
  <2>7. NoReply \in Replies /\ Owes(t, NoReply)'
    BY IdleFacts DEF Owes
  <2>8. PICK r : r = NoReply
    OBVIOUS
  <2> QED BY <1>3, <1>4, <1>5, <1>6, <2>2, <2>4, <2>5, <2>6, <2>7, <2>8, Moves
<1> QED BY <1>8, <1>9

(* The row found is the one the table holds.                                *)
LEMMA FindAliasKeeps ==
  ASSUME IInv, NEW t \in Threads, FindAlias(t)
  PROVE  IInv'
<1> DEFINE at == AliasKey(thread[t].key)
<1>1. Sound(t, thread[t], reply[t]) /\ thread[t] \in Locals /\ thread[t].pc = "alias"
  BY DEF IInv, FindAlias, At
<1>2. thread[t].key \in Keys /\ aliases \in [Keys -> Rows]
  BY <1>1 DEF Locals, IInv, Shared
<1>3. at \in Keys /\ (Live(aliases[thread[t].key]) => at = thread[t].key)
  BY <1>2, KeyFacts DEF AliasKey
<1> HIDE DEF at
<1>4. PICK row : row = (IF Live(aliases[at]) THEN aliases[at] ELSE NoRow)
  OBVIOUS
<1>5. PICK th : th = [thread[t] EXCEPT !.pc = "resolver", !.at = at, !.existing = row]
  OBVIOUS
<1>6. thread' = [thread EXCEPT ![t] = th]
  BY <1>4, <1>5 DEF FindAlias, IInv, at
<1>7. row \in Rows /\ (row # NoRow => aliases[at] # NoRow)
  BY <1>2, <1>3, <1>4, RowFacts
<1>8. /\ th \in Locals /\ th.pc = "resolver" /\ th.at = at /\ th.existing = row
      /\ th.id = thread[t].id /\ th.key = thread[t].key /\ th.resolver = thread[t].resolver
      /\ th.mode = thread[t].mode /\ th.result = thread[t].result
  BY <1>1, <1>3, <1>5, <1>7 DEF Locals, Pcs, Fetching
<1>9. Control(th)
  BY <1>1, <1>7, <1>8 DEF Sound, Control, Using, Drafting
<1>10. OnRow(t, th)
  BY <1>1, <1>3, <1>4, <1>8 DEF Sound, Control, OnRow, Steady, Drafting
<1>11. OnlyReads(th)
  BY <1>1 DEF Sound, OnlyReads, Fetching, Using
<1> QED BY <1>6, <1>9, <1>10, <1>11, Walks DEF FindAlias

\* The test of the resolver attribute.
LEMMA CheckResolverKeeps ==
  ASSUME IInv, NEW t \in Threads, CheckResolver(t)
  PROVE  IInv'
<1>1. Sound(t, thread[t], reply[t]) /\ thread[t] \in Locals /\ thread[t].pc = "resolver"
  BY DEF IInv, CheckResolver, At
<1>2. PICK th : th = [thread[t] EXCEPT !.pc = IF current = 0 THEN "build" ELSE "take"]
  OBVIOUS
<1>3. thread' = [thread EXCEPT ![t] = th]
  BY <1>2 DEF CheckResolver, IInv
<1>4. /\ th \in Locals /\ th.pc \in {"build", "take"} /\ th.at = thread[t].at
      /\ th.existing = thread[t].existing /\ th.id = thread[t].id /\ th.key = thread[t].key
      /\ th.resolver = thread[t].resolver
      /\ th.mode = thread[t].mode /\ th.result = thread[t].result
  BY <1>1, <1>2 DEF Locals, Pcs, Fetching
<1>5. Control(th)
  BY <1>1, <1>4 DEF Sound, Control, Fetching, Using, Drafting
<1>6. OnRow(t, th) /\ OnlyReads(th)
  BY <1>1, <1>4 DEF Sound, OnRow, OnlyReads, Steady, Fetching, Using, Drafting
<1> QED BY <1>3, <1>5, <1>6, Walks DEF CheckResolver
\* The buffered entity rows have ids.
LEMMA DraftIdsType ==
  ASSUME Shared PROVE DraftIds \subseteq Ids
BY DEF Shared, DraftIds

(* The rows a resolver is built from.                                       *)
LEMMA BuildResolverKeeps ==
  ASSUME IInv, NEW t \in Threads, BuildResolver(t)
  PROVE  IInv'
<1>1. Sound(t, thread[t], reply[t]) /\ thread[t] \in Locals /\ thread[t].pc = "build"
  BY DEF IInv, BuildResolver, At
<1>2. PICK snap : snap = [entities |-> entities \cup DraftIds,
        aliases |-> [k \in Keys |-> IF Live(aliases[k]) THEN aliases[k].canonical ELSE NoId]]
  OBVIOUS
<1>3. built' = Append(built, snap)
  BY <1>2 DEF BuildResolver
<1>4. snap \in Snapshots
  <2>1. [k \in Keys |-> IF Live(aliases[k]) THEN aliases[k].canonical ELSE NoId] \in Maps
    BY RowFacts DEF IInv, Shared, Maps, MaybeIds
  <2> QED BY <1>2, <2>1, DraftIdsType DEF Snapshots, IInv, Shared
<1>5. /\ built' \in Seq(Snapshots) /\ Len(built') = Len(built) + 1 /\ Len(built) \in Nat
      /\ \A n \in 1 .. Len(built) : built'[n] = built[n]
      /\ built'[Len(built) + 1] = snap
  BY <1>3, <1>4, AppendProperties, LenProperties DEF IInv, Shared
<1>6. lookup' \in Seq([built : BOOLEAN, keys : SUBSET Keys]) /\ Len(lookup') = Len(lookup) + 1
  <2>1. [built |-> FALSE, keys |-> {}] \in [built : BOOLEAN, keys : SUBSET Keys]
    OBVIOUS
  <2> QED BY <2>1, AppendProperties DEF BuildResolver, IInv, Shared
<1>7. UNCHANGED <<readOnly, entities, drafts, aliases, memo, current, history, touched, minted>>
  BY DEF BuildResolver, store, history, bounds
<1>8. Shared'
  BY <1>5, <1>6, <1>7 DEF IInv, Shared
<1>9. OneSnapshot'
  <2> SUFFICES ASSUME readOnly, NEW n \in 1 .. Len(built'), NEW k \in Keys
               PROVE built'[n].aliases[k] = IF Live(aliases[k]) THEN aliases[k].canonical ELSE NoId
    BY <1>7 DEF OneSnapshot, Live
  <2>1. CASE n \in 1 .. Len(built)
    BY <1>5, <2>1 DEF IInv, OneSnapshot
  <2>2. CASE n = Len(built) + 1
    BY <1>2, <1>5, <2>2
  <2> QED BY <1>5, <2>1, <2>2
<1>10. PICK n \in Nat : n = Len(built) + 1
  BY <1>5
<1>11. PICK th : th = [thread[t] EXCEPT !.pc = "publish", !.resolver = n]
  OBVIOUS
<1>12. thread' = [thread EXCEPT ![t] = th]
  BY <1>11, <1>10 DEF BuildResolver, IInv
<1>13. /\ th \in Locals /\ th.pc = "publish" /\ th.at = thread[t].at
       /\ th.existing = thread[t].existing /\ th.id = thread[t].id /\ th.key = thread[t].key
       /\ th.resolver = n /\ th.mode = thread[t].mode /\ th.result = thread[t].result
  BY <1>1, <1>11 DEF Locals, Pcs, Fetching
<1>14. Control(th)'
  BY <1>1, <1>5, <1>7, <1>13, <1>10 DEF Sound, Control, Fetching, Using, Drafting
<1>15. OnRow(t, th) /\ OnlyReads(th)
  BY <1>1, <1>13 DEF Sound, OnRow, OnlyReads, Steady, Fetching, Using, Drafting
<1>16. Len(built) <= Len(built')
  BY <1>5
<1> QED BY <1>7, <1>8, <1>9, <1>12, <1>14, <1>15, <1>16, Steps

\* The assignment of the attribute; another thread may have assigned its own.
LEMMA PublishResolverKeeps ==
  ASSUME IInv, NEW t \in Threads, PublishResolver(t)
  PROVE  IInv'
<1>1. Sound(t, thread[t], reply[t]) /\ thread[t] \in Locals /\ thread[t].pc = "publish"
  BY DEF IInv, PublishResolver, At
<1>2. PICK th : th = [thread[t] EXCEPT !.pc = "take"]
  OBVIOUS
<1>3. thread' = [thread EXCEPT ![t] = th]
  BY <1>2 DEF PublishResolver, IInv
<1>4. /\ th \in Locals /\ th.pc = "take" /\ th.at = thread[t].at
      /\ th.existing = thread[t].existing /\ th.id = thread[t].id /\ th.key = thread[t].key
      /\ th.resolver = thread[t].resolver
      /\ th.mode = thread[t].mode /\ th.result = thread[t].result
  BY <1>1, <1>2 DEF Locals, Pcs, Fetching
<1>5. Control(th) /\ OnRow(t, th) /\ OnlyReads(th)
  BY <1>1, <1>4 DEF Sound, Control, OnRow, OnlyReads, Steady, Fetching, Using, Drafting
<1>6. UNCHANGED <<readOnly, store, memo, built, lookup, history, touched, minted>>
  BY DEF PublishResolver, history, bounds
<1>7. current' \in 0 .. Len(built)
  BY <1>1 DEF PublishResolver, Sound, Control
<1>8. Shared' /\ OneSnapshot' /\ Control(th)'
  BY <1>5, <1>6, <1>7 DEF IInv, Shared, OneSnapshot, Control, store
<1>9. Len(built) <= Len(built')
  BY <1>6, LenProperties DEF IInv, Shared
<1> QED BY <1>3, <1>5, <1>6, <1>8, <1>9, Steps DEF store

(* An error, the way to the index, or a draft's answer; a value with a row  *)
(* gets no draft.                                                           *)
LEMMA TakeResolverKeeps ==
  ASSUME IInv, NEW t \in Threads, TakeResolver(t)
  PROVE  IInv'
<1>1. Sound(t, thread[t], reply[t]) /\ thread[t] \in Locals /\ thread[t].pc = "take"
  BY DEF IInv, TakeResolver, At
<1>2. UNCHANGED <<readOnly, store, built, lookup, current, touched, bounds, minted>>
  BY DEF TakeResolver, bounds
<1>3. CASE Fail(t)
  BY <1>2, <1>3, Failing
<1>4. CASE /\ current # 0 /\ ~Prefetched(t) /\ thread[t].id = NoId
           /\ thread' = [thread EXCEPT ![t].pc = "index", ![t].resolver = current]
           /\ UNCHANGED <<memo, reply>>
  <2>1. PICK th : th = [thread[t] EXCEPT !.pc = "index", !.resolver = current]
    OBVIOUS
  <2>2. thread' = [thread EXCEPT ![t] = th]
    BY <1>4, <2>1 DEF IInv
  <2>3. current \in 0 .. Len(built) /\ current \in Nat
    BY LenProperties DEF IInv, Shared
  <2>4. /\ th \in Locals /\ th.pc = "index" /\ th.at = thread[t].at
        /\ th.existing = thread[t].existing /\ th.id = thread[t].id /\ th.key = thread[t].key
        /\ th.resolver = current /\ th.mode = thread[t].mode /\ th.result = thread[t].result
    BY <1>1, <2>1, <2>3 DEF Locals, Pcs, Using
  <2>5. Control(th) /\ OnRow(t, th) /\ OnlyReads(th)
    BY <1>1, <1>4, <2>3, <2>4
       DEF Sound, Control, OnRow, OnlyReads, Steady, Fetching, Using, Drafting
  <2> QED BY <1>2, <1>4, <2>2, <2>5, Walks DEF service, history
<1>5. CASE thread[t].id # NoId /\ Finish(t, thread[t].id, "draft")
  <2>1. thread[t].id \in MaybeIds
    BY <1>1 DEF Locals
  <2>2. Owes(t, [key |-> thread[t].key, mode |-> thread[t].mode, id |-> thread[t].id,
                 via |-> "draft"])
    BY <1>1, <1>5 DEF Owes, Sound, OnRow, OnlyReads, Fetching, IInv, Shared
  <2> QED BY <1>2, <1>5, <2>1, <2>2, Finishing
<1>6. CASE /\ Prefetched(t)
           /\ thread' = [thread EXCEPT ![t].pc = "settle", ![t].resolver = current]
           /\ UNCHANGED <<memo, reply>>
  <2>1. PICK th : th = [thread[t] EXCEPT !.pc = "settle", !.resolver = current]
    OBVIOUS
  <2>2. thread' = [thread EXCEPT ![t] = th]
    BY <1>6, <2>1 DEF IInv
  <2>3. current \in 0 .. Len(built) /\ current \in Nat
    BY LenProperties DEF IInv, Shared
  <2>4. /\ th \in Locals /\ th.pc = "settle" /\ th.at = thread[t].at
        /\ th.existing = thread[t].existing /\ th.key = thread[t].key
        /\ th.resolver = current /\ th.mode = thread[t].mode
    BY <1>1, <2>1, <2>3 DEF Locals, Pcs
  <2>5. ~readOnly /\ ~Steady(t, thread[t].key)
    BY <1>1, <1>6 DEF Prefetched, Sound, OnRow, OnlyReads, Fetching, IInv, Shared
  <2>6. Control(th)
    BY <1>1, <1>6, <2>3, <2>4 DEF Prefetched, Sound, Control, Fetching, Using, Drafting
  <2>7. OnRow(t, th) /\ OnlyReads(th)
    BY <2>4, <2>5 DEF OnRow, OnlyReads
  <2> QED BY <1>2, <1>6, <2>2, <2>6, <2>7, Walks DEF service, history
<1> QED BY <1>3, <1>4, <1>5, <1>6 DEF TakeResolver
-----------------------------------------------------------------------------
(* The lookup index, and what the chain answers on it.                      *)

\* The test of the lookup index, which another thread may be filling.
LEMMA EnsureIndexKeeps ==
  ASSUME IInv, NEW t \in Threads, EnsureIndex(t)
  PROVE  IInv'
<1>1. Sound(t, thread[t], reply[t]) /\ thread[t] \in Locals /\ thread[t].pc = "index"
  BY DEF IInv, EnsureIndex, At
<1>2. PICK th : th = [thread[t] EXCEPT !.pc =
                        IF lookup[thread[t].resolver].built THEN "chain" ELSE "publishIndex"]
  OBVIOUS
<1>3. thread' = [thread EXCEPT ![t] = th]
  BY <1>2 DEF EnsureIndex, IInv
<1>4. /\ th \in Locals /\ th.pc \in {"chain", "publishIndex"} /\ th.at = thread[t].at
      /\ th.existing = thread[t].existing /\ th.id = thread[t].id /\ th.key = thread[t].key
      /\ th.resolver = thread[t].resolver
      /\ th.mode = thread[t].mode /\ th.result = thread[t].result
  BY <1>1, <1>2 DEF Locals, Pcs, Using
<1>5. Control(th) /\ OnRow(t, th) /\ OnlyReads(th)
  BY <1>1, <1>4 DEF Sound, Control, OnRow, OnlyReads, Steady, Fetching, Using, Drafting
<1> QED BY <1>3, <1>5, Walks DEF EnsureIndex

(* A thread that fills the index.                                           *)
LEMMA IndexKeeps ==
  ASSUME IInv, NEW t \in Threads, thread[t].pc \in {"publishIndex", "fillIndex"},
         NEW pc \in {"chain", "fillIndex"}, NEW left \in SUBSET Keys,
         NEW filled \in [built : BOOLEAN, keys : SUBSET Keys],
         lookup' = [lookup EXCEPT ![thread[t].resolver] = filled],
         thread' = [thread EXCEPT ![t].pc = pc, ![t].left = left],
         UNCHANGED <<readOnly, store, memo, built, current, history, bounds>>
  PROVE  IInv'
<1>1. Sound(t, thread[t], reply[t]) /\ thread[t] \in Locals
  BY DEF IInv
<1>2. PICK th : th = [thread[t] EXCEPT !.pc = pc, !.left = left]
  OBVIOUS
<1>3. thread' = [thread EXCEPT ![t] = th]
  BY <1>2 DEF IInv
<1>4. /\ th \in Locals /\ th.pc \in {"chain", "fillIndex"} /\ th.at = thread[t].at
      /\ th.existing = thread[t].existing /\ th.id = thread[t].id /\ th.key = thread[t].key
      /\ th.resolver = thread[t].resolver
      /\ th.mode = thread[t].mode /\ th.result = thread[t].result
  BY <1>1, <1>2 DEF Locals, Pcs, Using
<1>5. Control(th) /\ OnRow(t, th) /\ OnlyReads(th)
  BY <1>1, <1>4 DEF Sound, Control, OnRow, OnlyReads, Steady, Fetching, Using, Drafting
<1>6. /\ lookup' \in Seq([built : BOOLEAN, keys : SUBSET Keys]) /\ Len(lookup') = Len(lookup)
  <2>1. thread[t].resolver \in 1 .. Len(lookup)
    BY <1>1 DEF Sound, Control, Using, IInv, Shared
  <2> QED BY <2>1, ExceptSeq DEF IInv, Shared
<1>7. Shared' /\ OneSnapshot' /\ Control(th)'
  BY <1>5, <1>6 DEF IInv, Shared, OneSnapshot, Control, store, history, bounds
<1>8. Len(built) <= Len(built')
  BY LenProperties DEF IInv, Shared
<1> QED BY <1>3, <1>5, <1>7, <1>8, Steps DEF store

\* The index is published empty.
LEMMA PublishIndexKeeps ==
  ASSUME IInv, NEW t \in Threads, PublishIndex(t)
  PROVE  IInv'
<1>1. PICK rows \in SUBSET Keys :
        rows = {k \in Keys : built[thread[t].resolver].aliases[k] # NoId}
  OBVIOUS
<1>2. PICK pc \in {"chain", "fillIndex"} : pc = (IF rows = {} THEN "chain" ELSE "fillIndex")
  OBVIOUS
<1>3. thread' = [thread EXCEPT ![t].pc = pc, ![t].left = rows]
  BY <1>1, <1>2 DEF PublishIndex
<1>4. PICK filled \in [built : BOOLEAN, keys : SUBSET Keys] : filled = [built |-> TRUE, keys |-> {}]
  OBVIOUS
<1>5. lookup' = [lookup EXCEPT ![thread[t].resolver] = filled]
  BY <1>4 DEF PublishIndex
<1>6. /\ thread[t].pc \in {"publishIndex", "fillIndex"}
      /\ UNCHANGED <<readOnly, store, memo, built, current, history, bounds>>
  BY DEF PublishIndex, At
<1> QED BY <1>3, <1>5, <1>6, IndexKeeps

\* A row enters the index.
LEMMA FillIndexKeeps ==
  ASSUME IInv, NEW t \in Threads, FillIndex(t)
  PROVE  IInv'
<1>1. PICK k \in thread[t].left :
        /\ lookup' = [lookup EXCEPT ![thread[t].resolver].keys = @ \cup {k}]
        /\ thread' = [thread EXCEPT ![t].left = @ \ {k},
             ![t].pc = IF thread[t].left = {k} THEN "chain" ELSE "fillIndex"]
  BY DEF FillIndex
<1>2. thread[t] \in Locals /\ thread[t].left \in SUBSET Keys /\ k \in Keys
  BY <1>1 DEF IInv, Locals
<1>3. thread[t].resolver \in 1 .. Len(lookup)
  BY DEF IInv, Sound, Control, Using, Shared, FillIndex, At
<1>4. lookup[thread[t].resolver] \in [built : BOOLEAN, keys : SUBSET Keys]
  BY <1>3, ElementOfSeq DEF IInv, Shared
<1>5. PICK filled \in [built : BOOLEAN, keys : SUBSET Keys] :
        filled = [lookup[thread[t].resolver] EXCEPT !.keys = @ \cup {k}]
  BY <1>2, <1>4
<1>6. lookup' = [lookup EXCEPT ![thread[t].resolver] = filled]
  BY <1>1, <1>5
<1>7. PICK left \in SUBSET Keys : left = thread[t].left \ {k}
  BY <1>2
<1>8. PICK pc \in {"chain", "fillIndex"} :
        pc = (IF thread[t].left = {k} THEN "chain" ELSE "fillIndex")
  OBVIOUS
<1>9. thread' = [thread EXCEPT ![t].pc = pc, ![t].left = left]
  BY <1>1, <1>2, <1>7, <1>8 DEF IInv
<1>10. /\ thread[t].pc \in {"publishIndex", "fillIndex"}
       /\ UNCHANGED <<readOnly, store, memo, built, current, history, bounds>>
  BY DEF FillIndex, At
<1> QED BY <1>6, <1>9, <1>10, IndexKeeps

(* A result of the chain, on whatever part of the index is filled in; in a  *)
(* read-only service, of a value with a row, one of a row like it.          *)
LEMMA FreshFacts ==
  ASSUME IInv, NEW t \in Threads, thread[t].pc = "chain", NEW fresh \in Fresh(t)
  PROVE  /\ fresh \in Results
         /\ readOnly /\ Live(aliases[thread[t].key]) /\ ~fresh.attested =>
              \E k \in Keys : /\ Norm[k[1]] = Norm[thread[t].key[1]]
                             /\ aliases[k].canonical = fresh.id
<1> DEFINE n == thread[t].resolver
           key == thread[t].key
<1>1. n \in 1 .. Len(built) /\ n \in 1 .. Len(lookup) /\ key \in Keys
  BY DEF IInv, Sound, Control, Using, Shared, Locals
<1>2. key[1] \in Raws /\ key[2] \in Scopes /\ key = <<key[1], key[2]>>
  BY <1>1, KeyFacts
<1>3. built[n] \in Snapshots /\ built[n].aliases \in Maps
  <2>1. built[n] \in Snapshots
    BY <1>1, ElementOfSeq DEF IInv, Shared
  <2> QED BY <2>1 DEF Snapshots
<1>4. PICK indexed : indexed = Indexed(n)
  OBVIOUS
<1>5. indexed \in Maps /\ \A k \in Keys : indexed[k] \in {NoId, built[n].aliases[k]}
  BY <1>3, <1>4 DEF Indexed, Maps, MaybeIds
<1>6. PICK hit \in Hits(key[1]) :
        fresh \in Resolve(built[n], indexed, key[1], key[2], hit, thread[t].mode)
  BY <1>4 DEF Fresh
<1>7. PICK snap, mode : snap \in Snapshots /\ snap = built[n] /\ mode = thread[t].mode
  BY <1>3
<1>8. fresh \in Resolve(snap, indexed, key[1], key[2], hit, mode)
  BY <1>6, <1>7
<1> HIDE DEF n
<1>9. fresh \in Results
  BY <1>2, <1>5, <1>7, <1>8, ChainType
<1>10. ASSUME readOnly, Live(aliases[key]), ~fresh.attested
       PROVE  \E k \in Keys : Norm[k[1]] = Norm[key[1]] /\ aliases[k].canonical = fresh.id
  <2>1. \A k \in Keys : snap.aliases[k] = IF Live(aliases[k]) THEN aliases[k].canonical ELSE NoId
    BY <1>1, <1>7, <1>10 DEF IInv, OneSnapshot
  <2>2. aliases[key] \in Rows
    BY <1>1 DEF IInv, Shared
  <2>3. aliases[key].canonical # NoId
    BY <1>10, <2>2, RowFacts, IdFacts
  <2>4. snap.aliases[<<key[1], key[2]>>] # NoId
    BY <1>1, <1>2, <1>10, <2>1, <2>3
  <2>5. fresh.id \in Alike(snap.aliases, key[1])
    BY <1>2, <1>5, <1>7, <1>8, <1>10, <2>4, AliasedFound
  <2>6. PICK k \in Keys : /\ Norm[k[1]] = Norm[key[1]] /\ snap.aliases[k] = fresh.id
                          /\ snap.aliases[k] # NoId
    BY <2>5 DEF Alike
  <2> QED BY <2>1, <2>6
<1> QED BY <1>9, <1>10
-----------------------------------------------------------------------------
(* Answers, drafts and writes.                                              *)

\* A result has an id and says whether it was attested.
LEMMA AttestedType ==
  \A fresh \in Results : fresh.id \in MaybeIds /\ fresh.attested \in BOOLEAN
BY DEF Results, MaybeIds

(* A thread that works without a row in a writable service: its value had   *)
(* none when it looked, or has been written since.                          *)
LEMMA RowlessFacts ==
  ASSUME IInv, NEW t \in Threads, ~readOnly,
         \/ thread[t].pc = "chain" /\ thread[t].existing = NoRow
         \/ thread[t].pc \in Drafting \cup {"settle"}
  PROVE  ~Steady(t, thread[t].key)
<1>1. OnRow(t, thread[t])
  BY DEF IInv, Sound
<1> QED BY <1>1, RowFacts DEF OnRow, Steady, Using

\* A read-only or exact request answers with what the chain found.
LEMMA ServeResultKeeps ==
  ASSUME IInv, NEW t \in Threads, ServeResult(t)
  PROVE  IInv'
<1>1. PICK fresh \in Fresh(t) : Finish(t, fresh.id, IF fresh.attested THEN "attested" ELSE "chain")
  BY DEF ServeResult
<1>2. thread[t].pc = "chain" /\ thread[t].existing = NoRow
  BY DEF ServeResult, At
<1>3. fresh \in Results /\ fresh.id \in MaybeIds
  BY <1>2, FreshFacts, AttestedType
<1>4. PICK via \in {"attested", "chain"} : via = (IF fresh.attested THEN "attested" ELSE "chain")
  OBVIOUS
<1>5. ASSUME NEW r, r = [key |-> thread[t].key, mode |-> thread[t].mode, id |-> fresh.id, via |-> via]
      PROVE  Owes(t, r)
  <2>1. r.key = thread[t].key /\ r.id = fresh.id /\ r.via = via
    BY <1>5
  <2>2. readOnly /\ Steady(t, r.key) /\ r.via = "chain" =>
          \E k \in Keys : Norm[k[1]] = Norm[r.key[1]] /\ aliases[k].canonical = r.id
    BY <1>2, <1>4, <2>1, FreshFacts DEF Steady
  <2>3. readOnly \/ ~Steady(t, r.key)
    BY <1>2, <2>1, RowlessFacts
  <2> QED BY <1>4, <2>1, <2>2, <2>3 DEF Owes
<1>6. UNCHANGED <<readOnly, store, built, lookup, current, touched, minted>>
  BY DEF ServeResult, bounds
<1> QED BY <1>1, <1>3, <1>4, <1>5, <1>6, Finishing

\* An alias row answers its own request.
LEMMA ServeExistingKeeps ==
  ASSUME IInv, NEW t \in Threads, ServeExisting(t)
  PROVE  IInv'
<1>1. PICK fresh \in Fresh(t) :
        \/ Finish(t, thread[t].existing.canonical, "alias")
        \/ Finish(t, fresh.id, "attested")
  BY DEF ServeExisting
<1>2. Sound(t, thread[t], reply[t]) /\ thread[t] \in Locals /\ thread[t].pc = "chain"
  BY DEF IInv, ServeExisting, At
<1>3. UNCHANGED <<readOnly, store, built, lookup, current, touched, minted>>
  BY DEF ServeExisting, bounds
<1>4. ~readOnly
  BY <1>2 DEF Sound, OnlyReads, ServeExisting
<1>5. CASE Finish(t, thread[t].existing.canonical, "alias")
  <2>1. PICK id : id = thread[t].existing.canonical
    OBVIOUS
  <2>2. id \in MaybeIds
    BY <1>2, <2>1, RowFacts DEF Locals
  <2>3. ASSUME NEW r, r = [key |-> thread[t].key, mode |-> thread[t].mode, id |-> id, via |-> "alias"]
        PROVE  Owes(t, r)
    <3>1. r.key = thread[t].key /\ r.id = id /\ r.via = "alias"
      BY <2>3
    <3>2. Steady(t, r.key) => thread[t].existing = aliases[r.key]
      BY <1>2, <1>4, <3>1 DEF Sound, OnRow, Using
    <3> QED BY <1>4, <2>1, <3>1, <3>2 DEF Owes
  <2> QED BY <1>3, <1>5, <2>1, <2>2, <2>3, Finishing
<1>6. CASE Finish(t, fresh.id, "attested")
  <2>1. fresh.id \in MaybeIds
    BY <1>2, FreshFacts, AttestedType
  <2>2. Owes(t, [key |-> thread[t].key, mode |-> thread[t].mode, id |-> fresh.id,
                 via |-> "attested"])
    BY DEF Owes
  <2> QED BY <1>3, <1>6, <2>1, <2>2, Finishing
<1> QED BY <1>1, <1>5, <1>6

\* A writable request takes what the chain found: no row in force is passed by.
LEMMA ResolveAfreshKeeps ==
  ASSUME IInv, NEW t \in Threads, ResolveAfresh(t)
  PROVE  IInv'
<1>1. PICK fresh \in Fresh(t) : thread' = [thread EXCEPT ![t].pc = "settle", ![t].result = fresh]
  BY DEF ResolveAfresh
<1>2. Sound(t, thread[t], reply[t]) /\ thread[t] \in Locals /\ thread[t].pc = "chain"
  BY DEF IInv, ResolveAfresh, At
<1>3. fresh \in Results
  BY <1>2, FreshFacts
<1>4. PICK th : th = [thread[t] EXCEPT !.pc = "settle", !.result = fresh]
  OBVIOUS
<1>5. thread' = [thread EXCEPT ![t] = th]
  BY <1>1, <1>4 DEF IInv
<1>6. /\ th \in Locals /\ th.pc = "settle" /\ th.at = thread[t].at /\ th.mode = thread[t].mode
      /\ th.existing = thread[t].existing /\ th.id = thread[t].id /\ th.key = thread[t].key
      /\ th.resolver = thread[t].resolver
  BY <1>2, <1>3, <1>4 DEF Locals, Pcs
<1>7. Control(th)
  BY <1>2, <1>6 DEF Sound, Control, Using, Drafting, ResolveAfresh
<1>8. OnRow(t, th) /\ OnlyReads(th)
  BY <1>2, <1>6, RowlessFacts DEF OnRow, OnlyReads, ResolveAfresh
<1> QED BY <1>5, <1>7, <1>8, Walks DEF ResolveAfresh
(* A draft is only ever minted for a value without a row.                   *)
LEMMA SettleKeeps ==
  ASSUME IInv, NEW t \in Threads, Settle(t)
  PROVE  IInv'
<1>1. PICK s \in Settled(thread[t].key[1], thread[t].result, entities, minted + 1) :
        /\ s.id[2] <= MaxMint
        /\ \/ /\ s.created
              /\ thread' = [thread EXCEPT ![t] = [Idle EXCEPT !.pc = "upsert",
                              !.key = thread[t].key, !.mode = thread[t].mode, !.id = s.id]]
              /\ minted' = IF s.id[2] > 0 THEN s.id[2] ELSE minted
              /\ UNCHANGED <<reply, memo>>
           \/ Fail(t) /\ UNCHANGED minted
           \/ /\ Finish(t, s.id, IF thread[t].result.attested THEN "attested" ELSE "chain")
              /\ UNCHANGED minted
  BY DEF Settle
<1>2. Sound(t, thread[t], reply[t]) /\ thread[t] \in Locals /\ thread[t].pc = "settle"
  BY DEF IInv, Settle, At
<1>3. ~readOnly /\ ~Steady(t, thread[t].key)
  <2>1. ~readOnly
    BY <1>2 DEF Sound, OnlyReads, Fetching, Using
  <2> QED BY <1>2, <2>1, RowlessFacts
<1>4. thread[t].key[1] \in Raws /\ thread[t].result \in Results /\ minted + 1 \in Nat
  BY <1>2, KeyFacts DEF Locals, IInv, Shared
<1>5. s.id \in Ids /\ s.id[2] \in Nat
  <2>1. s.id \in Ids
    BY <1>1, <1>4, SettledType DEF IInv, Shared
  <2> QED BY <2>1, ChainAssumption DEF Ids
<1>6. UNCHANGED <<readOnly, store, built, lookup, current, touched>>
  BY DEF Settle
<1>7. CASE /\ thread' = [thread EXCEPT ![t] = [Idle EXCEPT !.pc = "upsert",
                           !.key = thread[t].key, !.mode = thread[t].mode, !.id = s.id]]
           /\ minted' = IF s.id[2] > 0 THEN s.id[2] ELSE minted
           /\ UNCHANGED <<reply, memo>>
  <2>1. PICK th : th = [Idle EXCEPT !.pc = "upsert", !.key = thread[t].key,
                                   !.mode = thread[t].mode, !.id = s.id]
    OBVIOUS
  <2>2. thread' = [thread EXCEPT ![t] = th] /\ UNCHANGED <<reply, memo>> /\ minted' \in Nat
    BY <1>5, <1>7, <2>1 DEF IInv, Shared
  <2>3. /\ th \in Locals /\ th.pc = "upsert" /\ th.mode = "resolve" /\ th.existing = NoRow
        /\ th.id \in Ids /\ th.key = thread[t].key /\ th.resolver = 0
    BY <1>2, <1>5, <2>1, IdleFacts DEF Sound, Control, Locals, Pcs, Drafting, MaybeIds
  <2>4. Shared' /\ OneSnapshot'
    BY <1>6, <2>2 DEF IInv, Shared, OneSnapshot, store
  <2>5. /\ Len(built) \in Nat /\ built' = built /\ Len(built) <= Len(built')
        /\ UNCHANGED <<readOnly, aliases, history>>
    BY <1>6, <2>2, LenProperties DEF IInv, Shared, store, history
  <2>6. Control(th)'
    BY <1>6, <2>3, <2>5 DEF Control, Using, Drafting
  <2>7. OnRow(t, th) /\ OnlyReads(th)
    BY <1>3, <2>3 DEF OnRow, OnlyReads
  <2> QED BY <2>2, <2>4, <2>5, <2>6, <2>7, Steps
<1>8. CASE /\ Finish(t, s.id, IF thread[t].result.attested THEN "attested" ELSE "chain")
           /\ UNCHANGED minted
  <2>1. PICK via \in {"attested", "chain"} :
          via = (IF thread[t].result.attested THEN "attested" ELSE "chain")
    OBVIOUS
  <2>2. Finish(t, s.id, via) /\ UNCHANGED minted
    BY <1>8, <2>1
  <2>3. PICK id \in MaybeIds : id = s.id
    BY <1>5 DEF MaybeIds
  <2>4. Owes(t, [key |-> thread[t].key, mode |-> thread[t].mode, id |-> id, via |-> via])
    BY <1>3 DEF Owes
  <2> QED BY <1>6, <2>2, <2>3, <2>4, Finishing
<1>9. CASE Fail(t) /\ UNCHANGED minted
  BY <1>6, <1>9, Failing
<1> QED BY <1>1, <1>7, <1>8, <1>9

\* The search of the tables for the draft's id.
LEMMA UpsertDraftKeeps ==
  ASSUME IInv, NEW t \in Threads, UpsertDraft(t)
  PROVE  IInv'
<1>1. Sound(t, thread[t], reply[t]) /\ thread[t] \in Locals /\ thread[t].pc = "upsert"
  BY DEF IInv, UpsertDraft, At
<1>2. PICK th : th = [thread[t] EXCEPT !.pc =
                        IF thread[t].id \in entities \cup DraftIds THEN "invalidate" ELSE "append"]
  OBVIOUS
<1>3. thread' = [thread EXCEPT ![t] = th]
  BY <1>2 DEF UpsertDraft, IInv
<1>4. /\ th \in Locals /\ th.pc \in {"invalidate", "append"} /\ th.at = thread[t].at
      /\ th.existing = thread[t].existing /\ th.id = thread[t].id /\ th.key = thread[t].key
      /\ th.resolver = thread[t].resolver /\ th.mode = thread[t].mode
      /\ th.result = thread[t].result
  BY <1>1, <1>2 DEF Locals, Pcs, Drafting
<1>5. Control(th) /\ OnRow(t, th) /\ OnlyReads(th)
  BY <1>1, <1>4 DEF Sound, Control, OnRow, OnlyReads, Steady, Fetching, Using, Drafting
<1> QED BY <1>3, <1>5, Walks DEF UpsertDraft

\* The draft enters the buffer.
LEMMA AppendDraftKeeps ==
  ASSUME IInv, NEW t \in Threads, AppendDraft(t)
  PROVE  IInv'
<1>1. Sound(t, thread[t], reply[t]) /\ thread[t] \in Locals /\ thread[t].pc = "append"
  BY DEF IInv, AppendDraft, At
<1>2. PICK th : th = [thread[t] EXCEPT !.pc = "invalidate"]
  OBVIOUS
<1>3. thread' = [thread EXCEPT ![t] = th]
  BY <1>2 DEF AppendDraft, IInv
<1>4. /\ th \in Locals /\ th.pc = "invalidate" /\ th.at = thread[t].at
      /\ th.existing = thread[t].existing /\ th.id = thread[t].id /\ th.key = thread[t].key
      /\ th.resolver = thread[t].resolver /\ th.mode = thread[t].mode
      /\ th.result = thread[t].result
  BY <1>1, <1>2 DEF Locals, Pcs, Drafting
<1>5. Control(th) /\ OnRow(t, th) /\ OnlyReads(th)
  BY <1>1, <1>4 DEF Sound, Control, OnRow, OnlyReads, Steady, Fetching, Using, Drafting
<1>6. UNCHANGED <<readOnly, entities, aliases, memo, built, lookup, current, history, minted>>
  BY DEF AppendDraft, service, bounds
<1>7. drafts' \in Seq(Ids)
  BY <1>1, AppendProperties DEF AppendDraft, IInv, Shared, Sound, Control, Drafting
<1>8. Shared' /\ OneSnapshot' /\ Control(th)'
  BY <1>5, <1>6, <1>7 DEF IInv, Shared, OneSnapshot, Control, history
<1>9. Len(built) <= Len(built')
  BY <1>6, LenProperties DEF IInv, Shared
<1> QED BY <1>3, <1>5, <1>6, <1>8, <1>9, Steps

\* The resolver is dropped under whoever uses it; the minting request takes another.
LEMMA InvalidateResolverKeeps ==
  ASSUME IInv, NEW t \in Threads, InvalidateResolver(t)
  PROVE  IInv'
<1>1. Sound(t, thread[t], reply[t]) /\ thread[t] \in Locals /\ thread[t].pc = "invalidate"
  BY DEF IInv, InvalidateResolver, At
<1>2. PICK th : th = [thread[t] EXCEPT !.pc = "resolver"]
  OBVIOUS
<1>3. thread' = [thread EXCEPT ![t] = th]
  BY <1>2 DEF InvalidateResolver, IInv
<1>4. /\ th \in Locals /\ th.pc = "resolver" /\ th.at = thread[t].at
      /\ th.existing = thread[t].existing /\ th.id = thread[t].id /\ th.key = thread[t].key
      /\ th.resolver = thread[t].resolver /\ th.mode = thread[t].mode
      /\ th.result = thread[t].result
  BY <1>1, <1>2 DEF Locals, Pcs, Fetching
<1>5. Control(th) /\ OnRow(t, th) /\ OnlyReads(th)
  BY <1>1, <1>4 DEF Sound, Control, OnRow, OnlyReads, Steady, Fetching, Using, Drafting
<1>6. UNCHANGED <<readOnly, store, memo, built, lookup, history, minted>> /\ current' = 0
  BY DEF InvalidateResolver, bounds
<1>7. Len(built) \in Nat
  BY LenProperties DEF IInv, Shared
<1>8. Shared' /\ OneSnapshot' /\ Control(th)'
  <2>1. Shared' /\ OneSnapshot'
    BY <1>6, <1>7 DEF IInv, Shared, OneSnapshot, history, store
  <2>2. Control(th)'
    BY <1>5, <1>6 DEF Control, store
  <2> QED BY <2>1, <2>2
<1>9. Len(built) <= Len(built')
  BY <1>6, <1>7
<1> QED BY <1>3, <1>5, <1>6, <1>8, <1>9, Steps DEF store

\* A post of an entity starts.
LEMMA PostEntityKeeps ==
  ASSUME IInv, NEW t \in Threads, NEW id \in PostIds, PostEntity(t, id)
  PROVE  IInv'
<1>1. Sound(t, thread[t], reply[t]) /\ thread[t] \in Locals /\ thread[t].pc = "idle" /\ ~readOnly
  BY DEF IInv, PostEntity, At
<1>2. PICK th : th = [thread[t] EXCEPT !.pc = "store", !.ids = entities, !.id = id]
  OBVIOUS
<1>3. thread' = [thread EXCEPT ![t] = th]
  BY <1>2 DEF PostEntity, IInv
<1>4. entities \in SUBSET Ids /\ id \in Ids
  BY ApiAssumption DEF IInv, Shared
<1>5. /\ th \in Locals /\ th.pc = "store" /\ th.at = thread[t].at
      /\ th.existing = thread[t].existing /\ th.id = id /\ th.key = thread[t].key
      /\ th.resolver = thread[t].resolver /\ th.mode = thread[t].mode
      /\ th.result = thread[t].result
  BY <1>1, <1>2, <1>4 DEF Locals, Pcs, MaybeIds
<1>6. Control(th) /\ OnRow(t, th) /\ OnlyReads(th)
  BY <1>1, <1>4, <1>5 DEF Sound, Control, OnRow, OnlyReads, Fetching, Using, Drafting
<1>7. UNCHANGED <<readOnly, store, service, touched, minted, history>>
  BY DEF PostEntity, history
<1>8. Shared' /\ OneSnapshot'
  BY <1>7, SharedKept
<1>9. Len(built) <= Len(built') /\ Control(th)'
  BY <1>6, <1>7, LenProperties DEF IInv, Shared, Control, service, store
<1> QED BY <1>3, <1>6, <1>7, <1>8, <1>9, Steps DEF store

\* A post replaces the table by the one it read, with its row.
LEMMA StoreEntityKeeps ==
  ASSUME IInv, NEW t \in Threads, StoreEntity(t)
  PROVE  IInv'
<1>1. Sound(t, thread[t], reply[t]) /\ thread[t] \in Locals /\ thread[t].pc = "store"
  BY DEF IInv, StoreEntity, At
<1>2. PICK th : th = Idle
  OBVIOUS
<1>3. thread' = [thread EXCEPT ![t] = th]
  BY <1>2 DEF StoreEntity
<1>4. UNCHANGED <<readOnly, drafts, aliases, memo, built, lookup, current, touched, minted, history>>
  BY DEF StoreEntity, service, history, bounds
<1>5. entities' \subseteq Ids
  BY <1>1 DEF StoreEntity, Sound, Control, Locals
<1>6. Shared' /\ OneSnapshot'
  BY <1>4, <1>5 DEF IInv, Shared, OneSnapshot
<1>7. Len(built) \in Nat /\ Len(built) <= Len(built')
  BY <1>4, LenProperties DEF IInv, Shared
<1>8. Control(th)' /\ OnRow(t, th) /\ OnlyReads(th)
  BY <1>2, <1>4, <1>7, IdleFacts DEF Control, OnRow, OnlyReads, Fetching, Using, Drafting
<1> QED BY <1>3, <1>4, <1>6, <1>7, <1>8, Steps
(* A write to an alias row, which takes the value of the row out of every   *)
(* promise, and disturbs no thread and no answer otherwise.                 *)
LEMMA WriteKeeps ==
  ASSUME IInv, NEW key \in Keys, NEW row \in Rows, row # NoRow, ~readOnly,
         WriteAlias(key, row), UNCHANGED <<readOnly, entities, drafts, service, minted>>
  PROVE  /\ Shared' /\ OneSnapshot'
         /\ \A t \in Threads : touched'[t] = touched[t] \cup {key}
         /\ \A k \in Keys : aliases'[k] = IF k = key THEN row ELSE aliases[k]
         /\ \A t \in Threads : \A th, r : Sound(t, th, r) => Sound(t, th, r)'
<1>1. /\ aliases' \in [Keys -> Rows] /\ touched' \in [Threads -> SUBSET Keys]
      /\ \A t \in Threads : touched'[t] = touched[t] \cup {key}
      /\ \A k \in Keys : aliases'[k] = IF k = key THEN row ELSE aliases[k]
  BY DEF WriteAlias, IInv, Shared
<1>2. Shared' /\ OneSnapshot'
  BY <1>1 DEF IInv, Shared, OneSnapshot, service
<1>3. ASSUME NEW t \in Threads, NEW th, NEW r, Sound(t, th, r) PROVE Sound(t, th, r)'
  <2>1. \A k \in Keys : Steady(t, k)' => Steady(t, k) /\ aliases'[k] = aliases[k]
    BY <1>1 DEF Steady
  <2>2. r \in Replies /\ r.key \in Keys /\ th \in Locals /\ th.key \in Keys /\ th.at \in Keys
    BY <1>3 DEF Sound, Control, Locals, Replies
  <2>3. Control(th)'
    BY <1>1, <1>3, <2>2 DEF Sound, Control, service
  <2>4. OnRow(t, th)' /\ OnlyReads(th)'
    BY <1>3, <2>1, <2>2 DEF Sound, OnRow, OnlyReads
  <2>5. Owes(t, r)'
    BY <1>3, <2>1, <2>2 DEF Sound, Owes
  <2> QED BY <2>2, <2>3, <2>4, <2>5 DEF Sound
<1> QED BY <1>1, <1>2, <1>3

\* An attested id that disagrees with the row flags it, and the row still answers.
LEMMA FlagDisagreementKeeps ==
  ASSUME IInv, NEW t \in Threads, FlagDisagreement(t)
  PROVE  IInv'
<1> DEFINE at == thread[t].at
<1>1. Sound(t, thread[t], reply[t]) /\ thread[t] \in Locals /\ thread[t].pc = "chain"
  BY DEF IInv, FlagDisagreement, At
<1>2. /\ thread[t].existing # NoRow /\ thread[t].mode = "resolve" /\ ~readOnly
      /\ at \in Keys /\ aliases[at] # NoRow /\ aliases[at] \in Rows
  BY <1>1 DEF Sound, Control, OnlyReads, FlagDisagreement, Locals, IInv, Shared
<1>3. PICK fresh \in Fresh(t) : thread' = [thread EXCEPT ![t].pc = "resolver", ![t].result = fresh]
  BY DEF FlagDisagreement
<1>4. fresh \in Results
  BY <1>1, FreshFacts
<1>5. PICK status : status = (IF thread[t].existing.status = "confirmed"
                             THEN aliases[at].status ELSE "uncertain")
  OBVIOUS
<1>6. aliases[at] \in [canonical : Ids, status : Statuses]
  BY <1>2, RowFacts
<1>7. status \in Statuses
  BY <1>5, <1>6 DEF Statuses
<1>8. PICK row : row = [aliases[at] EXCEPT !.status = status]
  OBVIOUS
<1>9. row \in Rows /\ row # NoRow
  <2>1. row \in [canonical : Ids, status : Statuses] /\ row.canonical \in Ids
    BY <1>6, <1>7, <1>8
  <2>2. NoRow.canonical \notin Ids
    BY IdFacts DEF NoRow
  <2> QED BY <2>1, <2>2, RowFacts
<1>10. WriteAlias(at, row) /\ UNCHANGED <<readOnly, entities, drafts, service, reply, minted>>
  BY <1>5, <1>8 DEF FlagDisagreement, bounds
<1>11. /\ Shared' /\ OneSnapshot'
       /\ \A u \in Threads : touched'[u] = touched[u] \cup {at}
       /\ \A k \in Keys : aliases'[k] = IF k = at THEN row ELSE aliases[k]
       /\ \A u \in Threads : \A th, r : Sound(u, th, r) => Sound(u, th, r)'
  BY <1>2, <1>9, <1>10, WriteKeeps
<1>12. PICK th : th = [thread[t] EXCEPT !.pc = "resolver", !.result = fresh]
  OBVIOUS
<1>13. thread' = [thread EXCEPT ![t] = th]
  BY <1>3, <1>12 DEF IInv
<1>14. /\ th \in Locals /\ th.pc = "resolver" /\ th.at = at /\ th.mode = "resolve"
       /\ th.existing = thread[t].existing /\ th.id = thread[t].id /\ th.key = thread[t].key
       /\ th.resolver = thread[t].resolver
  BY <1>1, <1>2, <1>4, <1>12 DEF Locals, Pcs, Fetching
<1>15. PICK r : r = reply[t]
  OBVIOUS
<1>16. PICK old : old = thread[t]
  OBVIOUS
<1>17. Sound(t, old, r)'
  BY <1>1, <1>11, <1>15, <1>16
<1>18. Control(th)'
  BY <1>1, <1>2, <1>9, <1>10, <1>11, <1>14 DEF Sound, Control, Using, Fetching, Drafting, service
<1>19. OnRow(t, th)'
  <2>1. Steady(t, th.key)' => Steady(t, th.key) /\ th.key # at
    BY <1>1, <1>11, <1>14 DEF Steady, Locals
  <2>2. ~Steady(t, th.key) \/ th.key = at
    BY <1>1, <1>2, <1>14 DEF Sound, OnRow, Using
  <2> QED BY <2>1, <2>2 DEF OnRow
<1>20. OnlyReads(th)'
  BY <1>2, <1>10 DEF OnlyReads
<1>21. Sound(t, th, r)'
  BY <1>17, <1>18, <1>19, <1>20 DEF Sound
<1>22. ASSUME NEW u \in Threads PROVE Sound(u, thread[u], reply[u])'
  <2>1. CASE u = t
    <3>1. thread'[u] = th /\ reply'[u] = r
      BY <1>10, <1>13, <1>15, <2>1 DEF IInv
    <3> QED BY <1>21, <2>1, <3>1 DEF Sound, Control, OnRow, OnlyReads, Owes
  <2>2. CASE u # t
    <3>1. PICK uth, ur : uth = thread[u] /\ ur = reply[u]
      OBVIOUS
    <3>2. Sound(u, uth, ur)'
      BY <1>11, <3>1 DEF IInv
    <3>3. thread'[u] = uth /\ reply'[u] = ur
      BY <1>10, <1>13, <2>2, <3>1 DEF IInv
    <3> QED BY <3>2, <3>3 DEF Sound, Control, OnRow, OnlyReads, Owes
  <2> QED BY <2>1, <2>2
<1>23. thread' \in [Threads -> Locals] /\ reply' \in [Threads -> Replies]
  BY <1>10, <1>13, <1>14 DEF IInv
<1> QED BY <1>11, <1>22, <1>23 DEF IInv

\* A reviewer's patch replaces a row: every request under way has seen it touched.
LEMMA PatchAliasKeeps ==
  ASSUME IInv, NEW key \in Keys, NEW row \in PatchRows, PatchAlias(key, row)
  PROVE  IInv'
<1>1. row \in Rows /\ row # NoRow
  <2>1. row \in [canonical : Ids, status : Statuses] /\ row.canonical \in Ids
    BY ApiAssumption
  <2>2. NoRow.canonical \notin Ids
    BY IdFacts DEF NoRow
  <2> QED BY <2>1, <2>2, RowFacts
<1>2. /\ ~readOnly /\ WriteAlias(key, row)
      /\ UNCHANGED <<readOnly, entities, drafts, service, thread, reply, minted>>
  BY DEF PatchAlias
<1>3. /\ Shared' /\ OneSnapshot'
      /\ \A u \in Threads : \A th, r : Sound(u, th, r) => Sound(u, th, r)'
  BY <1>1, <1>2, WriteKeeps
<1>4. ASSUME NEW u \in Threads PROVE Sound(u, thread[u], reply[u])'
  <2>1. PICK uth, ur : uth = thread[u] /\ ur = reply[u]
    OBVIOUS
  <2>2. Sound(u, uth, ur)'
    BY <1>3, <2>1 DEF IInv
  <2>3. thread'[u] = uth /\ reply'[u] = ur
    BY <1>2, <2>1
  <2> QED BY <2>2, <2>3 DEF Sound, Control, OnRow, OnlyReads, Owes
<1> QED BY <1>2, <1>3, <1>4 DEF IInv
-----------------------------------------------------------------------------

\* The registry as loaded, and idle threads, satisfy the invariant.
LEMMA InitHolds ==
  ASSUME Init
  PROVE  IInv
<1>1. Shared
  <2>1. aliases \in [Keys -> Rows]
    <3>1. ASSUME NEW k \in Keys PROVE aliases[k] \in Rows
      <4>1. k \in DOMAIN SeedAliases => SeedAliases[k] \in Ids
        BY ApiAssumption
      <4>2. k \in DOMAIN SeedAliases => [canonical |-> SeedAliases[k], status |-> "auto"] \in Rows
        BY <4>1 DEF Rows, Statuses
      <4>3. aliases[k] = IF k \in DOMAIN SeedAliases
                         THEN [canonical |-> SeedAliases[k], status |-> "auto"] ELSE NoRow
        BY DEF Init
      <4> QED BY <4>2, <4>3, RowFacts
    <3> QED BY <3>1 DEF Init
  <2>2. memo \in [Keys \X Modes -> [found : BOOLEAN, id : MaybeIds]]
    BY DEF Init, NoMemo, MaybeIds
  <2>3. /\ drafts \in Seq(Ids) /\ built \in Seq(Snapshots) /\ Len(built) = 0
        /\ lookup \in Seq([built : BOOLEAN, keys : SUBSET Keys]) /\ Len(lookup) = 0
    BY EmptySeq DEF Init
  <2>4. touched \in [Threads -> SUBSET Keys]
    BY DEF Init
  <2> QED BY <2>1, <2>2, <2>3, <2>4, ApiAssumption DEF Init, Shared
<1>2. OneSnapshot
  BY EmptySeq DEF Init, OneSnapshot
<1>3. ASSUME NEW t \in Threads PROVE Sound(t, thread[t], reply[t])
  <2>1. thread[t] = Idle /\ reply[t] = NoReply
    BY DEF Init
  <2>2. Control(Idle) /\ OnRow(t, Idle) /\ OnlyReads(Idle)
    BY <1>1, IdleFacts, LenProperties
       DEF Control, OnRow, OnlyReads, Using, Fetching, Drafting, Shared
  <2>3. Owes(t, NoReply)
    BY IdleFacts DEF Owes
  <2> QED BY <2>1, <2>2, <2>3, IdleFacts DEF Sound
<1> QED BY <1>1, <1>2, <1>3, IdleFacts DEF IInv, Init

\* A step that changes nothing keeps the invariant.
LEMMA StutterKeeps ==
  ASSUME IInv, UNCHANGED vars
  PROVE  IInv'
<1>1. UNCHANGED <<readOnly, entities, drafts, aliases, memo, built, lookup, current, thread,
                  reply, touched, minted>>
  BY DEF vars, store, service, history, bounds
<1>2. Shared' /\ OneSnapshot'
  BY <1>1 DEF IInv, Shared, OneSnapshot
<1>3. ASSUME NEW t \in Threads PROVE Sound(t, thread[t], reply[t])'
  BY <1>1, <1>3 DEF IInv, Sound, Control, OnRow, OnlyReads, Owes, Steady
<1> QED BY <1>1, <1>2, <1>3 DEF IInv

(* Whatever step one thread or one reviewer takes.                          *)
LEMMA NextKeeps ==
  ASSUME IInv, [Next]_vars
  PROVE  IInv'
<1>1. CASE UNCHANGED vars
  BY <1>1, StutterKeeps
<1>2. ASSUME NEW key \in Keys, NEW row \in PatchRows, PatchAlias(key, row) PROVE IInv'
  BY <1>2, PatchAliasKeeps
<1>3. ASSUME NEW t \in Threads,
             \/ \E key \in Keys, mode \in Modes : Receive(t, key, mode)
             \/ FindAlias(t)
             \/ CheckResolver(t) \/ BuildResolver(t) \/ PublishResolver(t) \/ TakeResolver(t)
             \/ EnsureIndex(t) \/ PublishIndex(t) \/ FillIndex(t)
             \/ ServeResult(t) \/ ServeExisting(t) \/ FlagDisagreement(t) \/ ResolveAfresh(t)
             \/ Settle(t) \/ UpsertDraft(t) \/ AppendDraft(t) \/ InvalidateResolver(t)
             \/ \E id \in PostIds : PostEntity(t, id)
             \/ StoreEntity(t)
      PROVE  IInv'
  BY <1>3, ReceiveKeeps, FindAliasKeeps, CheckResolverKeeps, BuildResolverKeeps,
     PublishResolverKeeps, TakeResolverKeeps, EnsureIndexKeeps, PublishIndexKeeps,
     FillIndexKeeps, ServeResultKeeps, ServeExistingKeeps, FlagDisagreementKeeps,
     ResolveAfreshKeeps, SettleKeeps, UpsertDraftKeeps, AppendDraftKeeps,
     InvalidateResolverKeeps, PostEntityKeeps, StoreEntityKeeps
<1> QED BY <1>1, <1>2, <1>3 DEF Next

(* The inductive invariant holds of every behaviour.                        *)
THEOREM Invariance == Spec => []IInv
<1>1. Init => IInv
  BY InitHolds
<1>2. IInv /\ [Next]_vars => IInv'
  BY NextKeeps
<1> QED BY <1>1, <1>2, PTL DEF Spec

(* Every variable keeps its type, a thread that uses a resolver has one, and *)
(* no position outlives the list it points into.                            *)
THEOREM TypeCorrect == Spec => []TypeOK
<1>1. IInv => TypeOK
  <2> SUFFICES ASSUME IInv PROVE TypeOK
    OBVIOUS
  <2>1. \A t \in Threads :
          /\ thread[t].key \in Keys /\ thread[t].at \in Keys /\ thread[t].mode \in Modes
          /\ thread[t].existing \in Rows /\ thread[t].resolver \in 0 .. Len(built)
          /\ thread[t].left \subseteq Keys /\ thread[t].result \in Results
          /\ thread[t].id \in MaybeIds /\ thread[t].ids \subseteq Ids /\ thread[t].pc \in Pcs
    BY DEF IInv, Sound, Control, Locals
  <2> QED BY <2>1 DEF TypeOK, IInv, Shared, Replies, Snapshots, Maps, MaybeIds,
                     Pcs, Using, Fetching, Drafting
<1> QED BY <1>1, Invariance, PTL

(* resolution_service.py, aliases.py: an alias row answers the requests for  *)
(* its value, in whatever state the threads leave the shared resolver, its   *)
(* index and the memo, and no draft is minted over it.                      *)
THEOREM AliasesAnswerHolds == Spec => []AliasesAnswer
<1>1. IInv => AliasesAnswer
  <2> SUFFICES ASSUME IInv, NEW t \in Threads
               PROVE  LET key == reply[t].key
                      IN /\ /\ reply[t].via \in {"chain", "draft"}
                            /\ Live(aliases[key]) /\ key \notin touched[t]
                            => /\ reply[t].via = "chain"
                               /\ \E k \in Keys : /\ Norm[k[1]] = Norm[key[1]]
                                                  /\ aliases[k].canonical = reply[t].id
                         /\ /\ ~readOnly /\ reply[t].via \in {"alias", "chain", "draft"}
                            /\ Live(aliases[key]) /\ key \notin touched[t]
                            => reply[t].id = aliases[key].canonical
    BY DEF AliasesAnswer, AliasedNeverMissed, PatchSeen
  <2>1. Owes(t, reply[t]) /\ readOnly \in BOOLEAN
    BY DEF IInv, Sound, Shared
  <2> QED BY <2>1 DEF Owes, Steady
<1> QED BY <1>1, Invariance, PTL

(* A step of one thread moves no other.                                     *)
LEMMA OthersStand ==
  ASSUME IInv, NEW t \in Threads, NEW u \in Threads, u # t,
         \/ \E key \in Keys, mode \in Modes : Receive(u, key, mode)
         \/ FindAlias(u)
         \/ CheckResolver(u) \/ BuildResolver(u) \/ PublishResolver(u) \/ TakeResolver(u)
         \/ EnsureIndex(u) \/ PublishIndex(u) \/ FillIndex(u)
         \/ ServeResult(u) \/ ServeExisting(u) \/ FlagDisagreement(u) \/ ResolveAfresh(u)
         \/ Settle(u) \/ UpsertDraft(u) \/ AppendDraft(u) \/ InvalidateResolver(u)
         \/ \E id \in PostIds : PostEntity(u, id)
         \/ StoreEntity(u)
  PROVE  thread'[t] = thread[t]
<1>1. thread \in [Threads -> Locals]
  BY DEF IInv
<1>2. (\E id, via : Finish(u, id, via)) => thread'[t] = thread[t]
  BY <1>1 DEF Finish
<1>3. CASE \/ TakeResolver(u) \/ ServeResult(u) \/ ServeExisting(u) \/ Settle(u)
  BY <1>1, <1>2, <1>3 DEF TakeResolver, ServeResult, ServeExisting, Settle, Fail
<1>4. CASE \/ \E key \in Keys, mode \in Modes : Receive(u, key, mode)
           \/ FindAlias(u) \/ CheckResolver(u) \/ BuildResolver(u) \/ PublishResolver(u)
           \/ EnsureIndex(u) \/ PublishIndex(u) \/ FillIndex(u)
  BY <1>1, <1>4 DEF Receive, FindAlias, CheckResolver, BuildResolver, PublishResolver,
                    EnsureIndex, PublishIndex, FillIndex
<1>5. CASE \/ FlagDisagreement(u) \/ ResolveAfresh(u) \/ UpsertDraft(u) \/ AppendDraft(u)
           \/ InvalidateResolver(u) \/ StoreEntity(u) \/ \E id \in PostIds : PostEntity(u, id)
  BY <1>1, <1>5 DEF FlagDisagreement, ResolveAfresh, UpsertDraft, AppendDraft,
                    InvalidateResolver, StoreEntity, PostEntity
<1> QED BY <1>3, <1>4, <1>5

(* Nor does it write to the store, but to flag a disagreement, to buffer a  *)
(* draft or to store a post.                                                *)
LEMMA WriteSteps ==
  ASSUME NEW t \in Threads, thread[t].pc \notin {"idle", "store"},
         \/ \E key \in Keys, mode \in Modes : Receive(t, key, mode)
         \/ FindAlias(t)
         \/ CheckResolver(t) \/ BuildResolver(t) \/ PublishResolver(t) \/ TakeResolver(t)
         \/ EnsureIndex(t) \/ PublishIndex(t) \/ FillIndex(t)
         \/ ServeResult(t) \/ ServeExisting(t) \/ ResolveAfresh(t)
         \/ Settle(t) \/ UpsertDraft(t) \/ InvalidateResolver(t)
         \/ \E id \in PostIds : PostEntity(t, id)
         \/ StoreEntity(t)
  PROVE  UNCHANGED store
BY DEF Receive, FindAlias, CheckResolver, BuildResolver, PublishResolver, TakeResolver,
       EnsureIndex, PublishIndex, FillIndex, ServeResult, ServeExisting, ResolveAfresh,
       Settle, UpsertDraft, InvalidateResolver, PostEntity, StoreEntity, At

(* README "Exact mode", deps.py: no step of an exact request, the way to a  *)
(* draft included, and no step of a read-only service, the way to a post    *)
(* included, changes the registry, whatever the tier that answers and       *)
(* whatever the HF checker attests.                                         *)
THEOREM ReadersNeverWriteHolds == Spec => ReadersNeverWrite
<1>1. ASSUME IInv, [Next]_vars
      PROVE  [\A t \in Threads :
                /\ thread[t].pc # "idle" /\ thread'[t] # thread[t]
                /\ readOnly \/ thread[t].mode = "exact"
                => UNCHANGED store]_vars
  <2> SUFFICES ASSUME Next, NEW t \in Threads, thread[t].pc # "idle", thread'[t] # thread[t],
                      readOnly \/ thread[t].mode = "exact"
               PROVE  UNCHANGED store
    BY <1>1
  <2>1. Control(thread[t]) /\ OnlyReads(thread[t])
    BY <1>1 DEF IInv, Sound
  <2>2. ~FlagDisagreement(t)
    BY <2>1 DEF FlagDisagreement, OnlyReads
  <2>3. ~AppendDraft(t)
    BY <2>1 DEF AppendDraft, At, Control, OnlyReads, Fetching, Using, Drafting
  <2>4. ~\E key \in Keys, row \in PatchRows : PatchAlias(key, row)
    BY DEF PatchAlias
  <2>5. PICK u \in Threads :
          \/ \E key \in Keys, mode \in Modes : Receive(u, key, mode)
          \/ FindAlias(u)
          \/ CheckResolver(u) \/ BuildResolver(u) \/ PublishResolver(u) \/ TakeResolver(u)
          \/ EnsureIndex(u) \/ PublishIndex(u) \/ FillIndex(u)
          \/ ServeResult(u) \/ ServeExisting(u) \/ FlagDisagreement(u) \/ ResolveAfresh(u)
          \/ Settle(u) \/ UpsertDraft(u) \/ AppendDraft(u) \/ InvalidateResolver(u)
          \/ \E id \in PostIds : PostEntity(u, id)
          \/ StoreEntity(u)
    BY <2>4 DEF Next
  <2>6. u = t
    BY <1>1, <2>5, OthersStand
  <2>7. thread[t].pc # "store"
    BY <2>1 DEF Control, OnlyReads, Fetching, Using, Drafting
  <2> QED BY <2>2, <2>3, <2>5, <2>6, <2>7, WriteSteps
<1> QED BY <1>1, Invariance, PTL DEF Spec, ReadersNeverWrite
=============================================================================
