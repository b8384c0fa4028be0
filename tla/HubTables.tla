------------------------------ MODULE HubTables ------------------------------
(***************************************************************************)
(* The registry's tables on the Hub and the processes that copy them:       *)
(* store/hf_store.py with the sync and seed commands of cli.py around it,   *)
(* the read-only Space of main.py and the hub-stats index cron.  A command  *)
(* loads every table (a download error loads an empty one), works in        *)
(* memory and uploads every table but the cron's, one after another, with   *)
(* nothing that keeps two commands apart.  What a command computes is       *)
(* RegistrySync's and SeedCommand's subject: here it only adds rows.        *)
(* --prune-stale, which removes rows, is SeedCommand's too.                 *)
(***************************************************************************)
EXTENDS Naturals, Sequences, FiniteSets

CONSTANTS
  Writers,     \* CLI processes
  Space,       \* the deployed read-only API
  Rows,        \* what a row is about: a model, its alias, a result citing it
  Curated,     \* the rows the YAML lists
  MaxCommands, \* bound on the commands started
  MaxIndex,    \* bound on the indexes the cron publishes
  MaxErrors    \* bound on the download errors

ASSUME HubAssumption ==
  /\ Space \notin Writers /\ Curated \subseteq Rows
  /\ MaxCommands \in Nat /\ MaxIndex \in Nat \ {0} /\ MaxErrors \in Nat

\* The tables whose rows refer to each other, in upload order, and the one the
\* cron owns.  The rows of a table are named by the model they are about.
TABLE_NAMES == <<"canonical_models", "aliases", "eval_results", "hub_stats_index">>
QUERY_TABLE_NAMES == <<"canonical_models", "aliases", "hub_stats_index">>
CRON_OWNED_TABLES == {"hub_stats_index"}

\* The tables push_to_hub goes over: those it loaded, in that order, but the cron's.
PUSHED_NAMES == <<"canonical_models", "aliases", "eval_results">>
ASSUME PushedAssumption ==
  PUSHED_NAMES = SelectSeq(TABLE_NAMES, LAMBDA t : t \notin CRON_OWNED_TABLES)

Tables == {TABLE_NAMES[i] : i \in DOMAIN TABLE_NAMES}

Processes == Writers \cup {Space}
Indexes == 1 .. MaxIndex
Empty == [t \in Tables |-> {}]

VARIABLES
  hub,       \* the dataset: table -> rows; the index holds the cron's version
  pc,        \* process -> "idle", "load", "work", "push", "serve"
  command,   \* process -> "sync", "seed" or "serve"
  left,      \* process -> tables still to be downloaded or uploaded
  mem,       \* process -> its in-memory tables
  added,     \* process -> rows its sync was given
  commands, errors, \* counters that bound the model
  acked,     \* history: rows of syncs that ended without an error
  hiccup,    \* history: processes whose load swallowed a download error
  emptied,   \* history: a command uploaded after such a load
  overlapped,\* history: a command started while another was under way
  torn       \* history: the Space's load saw tables of one push only in part
procs == <<pc, command, left, mem, added, commands, errors>>
history == <<acked, hiccup, emptied, overlapped, torn>>
tableVars == <<hub, procs, history>>

TablesTypeOK ==
  /\ hub \in [Tables -> SUBSET (Rows \cup Indexes)]
  /\ pc \in [Processes -> {"idle", "load", "work", "push", "serve"}]
  /\ pc[Space] \in {"idle", "load", "serve"} /\ \A p \in Writers : pc[p] # "serve"
  /\ command \in [Processes -> {"sync", "seed", "serve"}]
  /\ left \in [Processes -> Seq(Tables)]
  /\ mem \in [Processes -> [Tables -> SUBSET (Rows \cup Indexes)]]
  /\ added \in [Processes -> SUBSET Rows]
  /\ commands \in 0 .. MaxCommands /\ errors \in 0 .. MaxErrors
  /\ acked \subseteq Rows /\ hiccup \subseteq Processes
  /\ emptied \in BOOLEAN /\ overlapped \in BOOLEAN /\ torn \in BOOLEAN

\* A dataset a first seed and the cron have filled.
TablesInit ==
  /\ hub = [t \in Tables |-> IF t \in CRON_OWNED_TABLES THEN {1}
                             ELSE IF t = "eval_results" THEN {} ELSE Curated]
  /\ pc = [p \in Processes |-> "idle"]
  /\ command = [p \in Processes |-> IF p = Space THEN "serve" ELSE "sync"]
  /\ left = [p \in Processes |-> <<>>]
  /\ mem = [p \in Processes |-> Empty]
  /\ added = [p \in Processes |-> {}]
  /\ commands = 0 /\ errors = 0
  /\ acked = {} /\ hiccup = {}
  /\ emptied = FALSE /\ overlapped = FALSE /\ torn = FALSE
-----------------------------------------------------------------------------
(* Starting and loading                                                     *)

\* `sync` or `seed`: the process has no tables yet and loads all of them.
StartCommand(p, c) ==
  /\ pc[p] = "idle" /\ commands < MaxCommands
  /\ pc' = [pc EXCEPT ![p] = "load"]
  /\ command' = [command EXCEPT ![p] = c]
  /\ left' = [left EXCEPT ![p] = TABLE_NAMES]
  /\ mem' = [mem EXCEPT ![p] = Empty]
  /\ added' = [added EXCEPT ![p] = {}]
  /\ commands' = commands + 1
  /\ hiccup' = hiccup \ {p}
  /\ overlapped' = (overlapped \/ \E q \in Writers \ {p} : pc[q] # "idle")
  /\ UNCHANGED <<hub, errors, acked, emptied, torn>>

\* The Space starts, or is restarted (by the cron, a deployment or the host),
\* and loads the query tables.
StartSpace ==
  /\ pc[Space] \in {"idle", "serve"}
  /\ pc' = [pc EXCEPT ![Space] = "load"]
  /\ left' = [left EXCEPT ![Space] = QUERY_TABLE_NAMES]
  /\ mem' = [mem EXCEPT ![Space] = Empty]
  /\ hiccup' = hiccup \ {Space}
  /\ torn' = FALSE
  /\ UNCHANGED <<hub, command, added, commands, errors, acked, emptied, overlapped>>

\* Mutant of Loaded: the Space, too, goes on to write.
LoadedToWork(p) == IF Len(left[p]) > 1 THEN "load" ELSE "work"

\* Where a process goes when it has loaded a table.
Loaded(p) == IF Len(left[p]) > 1 THEN "load" ELSE IF p = Space THEN "serve" ELSE "work"

\* _load_from_hf downloads the next table; any exception becomes an empty table.
LoadTable(p) ==
  /\ pc[p] = "load" /\ left[p] # <<>>
  /\ \E failed \in BOOLEAN :
       /\ errors' = errors + (IF failed THEN 1 ELSE 0)
       /\ errors' <= MaxErrors
       /\ mem' = [mem EXCEPT ![p][Head(left[p])] = IF failed THEN {} ELSE hub[Head(left[p])]]
       /\ hiccup' = IF failed THEN hiccup \cup {p} ELSE hiccup
  /\ left' = [left EXCEPT ![p] = Tail(@)]
  /\ pc' = [pc EXCEPT ![p] = Loaded(p)]
  /\ UNCHANGED <<hub, command, added, commands, acked, emptied, overlapped, torn>>
-----------------------------------------------------------------------------
(* Working and uploading                                                    *)

\* A sync of some configs: every raw value it gets to resolves by its alias or
\* becomes a draft with an alias, and its results are recorded.  A failing
\* config is skipped and its error only counted: the rows it got to stay.
Synced(tables, rows) ==
  LET drafts == rows \ tables["aliases"]
  IN [tables EXCEPT !["canonical_models"] = @ \cup drafts,
                    !["aliases"] = @ \cup drafts,
                    !["eval_results"] = @ \cup rows]

\* A seed upserts what the YAML lists.
Seeded(tables) ==
  [tables EXCEPT !["canonical_models"] = @ \cup Curated, !["aliases"] = @ \cup Curated]

\* Mutant of StartPush: every table is uploaded, the cron's too.
StartPushOfAll(p) ==
  /\ pc' = [pc EXCEPT ![p] = "push"]
  /\ left' = [left EXCEPT ![p] = TABLE_NAMES]

\* Mutant of StartPush: results first, the tables they refer to last.
StartPushBackwards(p) ==
  /\ pc' = [pc EXCEPT ![p] = "push"]
  /\ left' = [left EXCEPT ![p] = <<"eval_results", "aliases", "canonical_models">>]

\* push_to_hub begins.
StartPush(p) ==
  /\ pc' = [pc EXCEPT ![p] = "push"]
  /\ left' = [left EXCEPT ![p] = PUSHED_NAMES]

RunSync(p) ==
  /\ pc[p] = "work" /\ command[p] = "sync"
  /\ \E rows \in SUBSET Rows :
       /\ mem' = [mem EXCEPT ![p] = Synced(@, rows)]
       /\ added' = [added EXCEPT ![p] = rows]
  /\ StartPush(p)
  /\ UNCHANGED <<hub, command, commands, errors, history>>

RunSeed(p) ==
  /\ pc[p] = "work" /\ command[p] = "seed"
  /\ mem' = [mem EXCEPT ![p] = Seeded(@)]
  /\ StartPush(p)
  /\ UNCHANGED <<hub, command, added, commands, errors, history>>

\* After the upload of a table: the next one, or the end of the command.
EndOfUpload(p) ==
  /\ left' = [left EXCEPT ![p] = Tail(@)]
  /\ IF Len(left[p]) = 1
     THEN /\ pc' = [pc EXCEPT ![p] = "idle"]
          /\ mem' = [mem EXCEPT ![p] = Empty]
          /\ added' = [added EXCEPT ![p] = {}]
          /\ acked' = acked \cup added[p]
     ELSE UNCHANGED <<pc, mem, added, acked>>
  /\ emptied' = (emptied \/ p \in hiccup)
  /\ torn' = (torn \/ pc[Space] = "load")
  /\ UNCHANGED <<command, commands, errors, hiccup, overlapped>>

\* The next table's file is replaced as a whole.
PushTable(p) ==
  /\ pc[p] = "push" /\ left[p] # <<>>
  /\ hub' = [hub EXCEPT ![Head(left[p])] = mem[p][Head(left[p])]]
  /\ EndOfUpload(p)

\* The process is killed, or an upload raises: what it uploaded stays.
Crash(p) ==
  /\ pc[p] # "idle"
  /\ pc' = [pc EXCEPT ![p] = "idle"]
  /\ left' = [left EXCEPT ![p] = <<>>]
  /\ mem' = [mem EXCEPT ![p] = Empty]
  /\ added' = [added EXCEPT ![p] = {}]
  /\ UNCHANGED <<hub, command, commands, errors, history>>
-----------------------------------------------------------------------------
(* The index cron                                                           *)

\* build_hub_stats_index.py and the publish step: below the row floor or on any
\* error nothing is uploaded; else the new index replaces the file.  The restart
\* of the Space that follows is StartSpace, which may also fail to come.
PublishIndex ==
  /\ \E v \in Indexes : hub["hub_stats_index"] = {v - 1} /\ hub' = [hub EXCEPT !["hub_stats_index"] = {v}]
  /\ UNCHANGED <<procs, history>>

TablesNext ==
  \/ \E p \in Writers :
       \/ \E c \in {"sync", "seed"} : StartCommand(p, c)
       \/ LoadTable(p) \/ RunSync(p) \/ RunSeed(p) \/ PushTable(p) \/ Crash(p)
  \/ StartSpace \/ LoadTable(Space) \/ Crash(Space)
  \/ PublishIndex

TablesSpec == TablesInit /\ [][TablesNext]_tableVars
-----------------------------------------------------------------------------
(* Properties                                                               *)

Undisturbed == ~overlapped /\ ~emptied

\* On the Hub an alias never names a model, nor a result row a model, that is
\* not there, however many commands were killed between two uploads: tables are
\* uploaded before those that refer to them.  Two things break it: commands that
\* overlap, and a load that swallowed a download error.
HubClosed ==
  Undisturbed =>
    /\ hub["aliases"] \subseteq hub["canonical_models"]
    /\ hub["eval_results"] \subseteq hub["canonical_models"]

\* What a sync that ended without an error recorded is still on the Hub, with
\* the model and the alias it resolved by, after any further commands and
\* crashes: uploading whole tables loses rows in the same two cases only.
SyncedRowsKept ==
  Undisturbed =>
    \A t \in {"canonical_models", "aliases", "eval_results"} : acked \subseteq hub[t]

\* The Space serves no alias of a model it does not have, unless a push was
\* under way while it loaded: downloads and uploads go in one order, so the
\* models may be older than the aliases although the Hub was closed throughout.
ServedClosed ==
  pc[Space] = "serve" /\ Undisturbed /\ ~torn /\ Space \notin hiccup =>
    mem[Space]["aliases"] \subseteq mem[Space]["canonical_models"]

\* What the dataset and a Space serve is closed, and nothing recorded is lost.
TablesKept == HubClosed /\ ServedClosed /\ SyncedRowsKept

\* The hub-stats index is never emptied nor set back by a command that loaded
\* it badly or long ago (the comment on _CRON_OWNED_TABLES).
IndexNeverSetBack ==
  [][\E v \in 0 .. MaxIndex : hub'["hub_stats_index"] = {v}
       /\ \A u \in hub["hub_stats_index"] : u <= v]_hub
=============================================================================
