-------------------------- MODULE ResolveLogWriter --------------------------
(***************************************************************************)
(* services/log_writer.py: request threads append entries to a buffer that  *)
(* a task of the event loop flushes, every Interval seconds, to a part file *)
(* of a storage bucket.  The upload runs in a worker thread, so the task    *)
(* can be cancelled while it goes on; stop() cancels the task and flushes   *)
(* once more.  Coroutines give up the event loop only when they sleep or    *)
(* await the upload; request threads interleave everywhere else too.        *)
(***************************************************************************)
EXTENDS Naturals, Sequences, FiniteSets, Functions

CONSTANTS
  MaxBuffer,   \* _MAX_BUFFER_SIZE
  Interval,    \* seconds between flushes
  HubFails,    \* whether an upload may fail
  MaxEntries,  \* bound on the entries appended
  MaxSecond    \* bound on the wall clock

ASSUME WriterAssumption ==
  /\ MaxBuffer \in Nat \ {0} /\ Interval \in Nat \ {0}
  /\ HubFails \in BOOLEAN
  /\ MaxEntries \in Nat /\ MaxSecond \in Nat

\* The flush of the periodic task and the flush of stop().
Flushes == {"periodic", "final"}

VARIABLES
  second,    \* the wall clock, in seconds
  appended,  \* entries appended so far; an entry is its number
  buffer,    \* self._buffer
  pc,        \* per flush: where it is
  batch,     \* per flush: the entries it took from the buffer
  upload,    \* per flush: the worker thread's upload
  wake,      \* when the periodic task's sleep ends
  stopping,  \* stop() was called
  bucket     \* part file -> the entries in it, <<>> if there is no such file

vars == <<second, appended, buffer, pc, batch, upload, wake, stopping, bucket>>

Seconds == 0 .. MaxSecond
NoUpload == [state |-> "none", entries |-> <<>>, part |-> 0]

Init ==
  /\ second = 0 /\ appended = 0 /\ buffer = <<>>
  /\ pc = [periodic |-> "sleep", final |-> "off"]
  /\ batch = [f \in Flushes |-> <<>>]
  /\ upload = [f \in Flushes |-> NoUpload]
  /\ wake = Interval
  /\ stopping = FALSE
  /\ bucket = [s \in Seconds |-> <<>>]

Goto(f, label) == pc' = [pc EXCEPT ![f] = label]

\* The periodic task sleeps again after a flush; stop() returns after its own.
After(f) == IF f = "periodic" THEN "sleep" ELSE "done"
FlushEnds(f) ==
  /\ Goto(f, After(f))
  /\ wake' = IF f = "periodic" THEN second + Interval ELSE wake

\* The newest MaxBuffer entries: the cap drops the oldest.
Newest(s) == SubSeq(s, IF Len(s) > MaxBuffer THEN Len(s) - MaxBuffer + 1 ELSE 1, Len(s))

\* append(), from a request thread.  The server answers no request any more
\* once the lifespan shuts down.
Request ==
  /\ ~stopping /\ appended < MaxEntries
  /\ appended' = appended + 1
  /\ buffer' = Newest(Append(buffer, appended + 1))
  /\ UNCHANGED <<second, pc, batch, upload, wake, stopping, bucket>>

\* The task's sleep ends.
Wake ==
  /\ pc["periodic"] = "sleep" /\ second >= wake
  /\ Goto("periodic", "take")
  /\ UNCHANGED <<second, appended, buffer, batch, upload, wake, stopping, bucket>>

\* _flush: copy and clear the buffer under the lock.
Take(f) ==
  /\ pc[f] = "take"
  /\ batch' = [batch EXCEPT ![f] = buffer]
  /\ buffer' = <<>>
  /\ IF buffer = <<>> THEN FlushEnds(f) ELSE Goto(f, "convert") /\ UNCHANGED wake
  /\ UNCHANGED <<second, appended, upload, stopping, bucket>>

\* Mutant of PartName: the end of the interval names the part.
NextPart == second + Interval

\* The part is named by the second its upload starts in.
PartName == second

\* The entries become a parquet file, or are not convertible and raise; the
\* upload is handed to a worker thread and awaited.
Convert(f) ==
  /\ pc[f] = "convert"
  /\ \/ /\ Goto(f, "await")
        /\ upload' = [upload EXCEPT ![f] =
             [state |-> "flying", entries |-> batch[f], part |-> PartName]]
     \/ /\ HubFails
        /\ Goto(f, "requeue")
        /\ UNCHANGED upload
  /\ UNCHANGED <<second, appended, buffer, batch, wake, stopping, bucket>>

\* The worker thread.  A part of the same name is replaced.  A request that
\* reached the bucket may still be reported as failed.
UploadLands(f) ==
  /\ upload[f].state = "flying"
  /\ bucket' = [bucket EXCEPT ![upload[f].part] = upload[f].entries]
  /\ \E state \in {"ok"} \cup (IF HubFails THEN {"failed"} ELSE {}) :
       upload' = [upload EXCEPT ![f].state = state]
  /\ UNCHANGED <<second, appended, buffer, pc, batch, wake, stopping>>

UploadFails(f) ==
  /\ HubFails
  /\ upload[f].state = "flying"
  /\ upload' = [upload EXCEPT ![f].state = "failed"]
  /\ UNCHANGED <<second, appended, buffer, pc, batch, wake, stopping, bucket>>

\* The await returns or raises in the coroutine, if it was not cancelled.
Resume(f) ==
  /\ pc[f] = "await" /\ upload[f].state \in {"ok", "failed"}
  /\ upload' = [upload EXCEPT ![f] = NoUpload]
  /\ IF upload[f].state = "ok"
     THEN FlushEnds(f) /\ batch' = [batch EXCEPT ![f] = <<>>]
     ELSE Goto(f, "requeue") /\ UNCHANGED <<wake, batch>>
  /\ UNCHANGED <<second, appended, buffer, stopping, bucket>>

\* Mutants of Requeued: the failed entries go to the back; they are given up.
RequeuedBehind(entries) == Newest(buffer \o entries)
RequeuedNever(entries) == buffer

Requeued(entries) == Newest(entries \o buffer)

\* The except block puts the entries back in front, under the lock.
Requeue(f) ==
  /\ pc[f] = "requeue"
  /\ buffer' = Requeued(batch[f])
  /\ batch' = [batch EXCEPT ![f] = <<>>]
  /\ FlushEnds(f)
  /\ UNCHANGED <<second, appended, upload, stopping, bucket>>

\* Mutant of Stop: the task is awaited without being cancelled.
StopUncancelled ==
  /\ ~stopping /\ pc["periodic"] \in {"sleep", "await"}
  /\ stopping' = TRUE
  /\ UNCHANGED <<second, appended, buffer, pc, batch, upload, wake, bucket>>

\* stop() cancels the task where it is suspended.  CancelledError is no
\* Exception: _flush does not put the batch back, and the worker thread goes on.
Stop ==
  /\ ~stopping /\ pc["periodic"] \in {"sleep", "await"}
  /\ stopping' = TRUE
  /\ Goto("periodic", "cancelled")
  /\ batch' = [batch EXCEPT !["periodic"] = <<>>]
  /\ UNCHANGED <<second, appended, buffer, upload, wake, bucket>>

\* The cancelled task has been awaited.
FinalFlush ==
  /\ stopping /\ pc["periodic"] = "cancelled" /\ pc["final"] = "off"
  /\ Goto("final", "take")
  /\ UNCHANGED <<second, appended, buffer, batch, upload, wake, stopping, bucket>>

Tick ==
  /\ second < MaxSecond
  /\ second' = second + 1
  /\ UNCHANGED <<appended, buffer, pc, batch, upload, wake, stopping, bucket>>

Work(f) == Take(f) \/ Convert(f) \/ UploadLands(f) \/ UploadFails(f) \/ Resume(f) \/ Requeue(f)

Next ==
  \/ \E f \in Flushes : Work(f)
  \/ Request \/ Wake \/ Stop \/ FinalFlush \/ Tick

Spec == Init /\ [][Next]_vars

\* The event loop runs what is ready, and a worker thread's upload ends.
FairSpec == Spec /\ WF_vars(FinalFlush) /\ \A f \in Flushes : WF_vars(Work(f))
-----------------------------------------------------------------------------
TypeOK ==
  /\ second \in Seconds /\ appended \in 0 .. MaxEntries
  /\ buffer \in Seq(1 .. MaxEntries)
  /\ pc \in [Flushes -> {"off", "sleep", "take", "convert", "await", "requeue",
                         "cancelled", "done"}]
  /\ batch \in [Flushes -> Seq(1 .. MaxEntries)]
  /\ upload \in [Flushes -> [state : {"none", "flying", "ok", "failed"},
                             entries : Seq(1 .. MaxEntries), part : Seconds]]
  /\ wake \in Nat /\ stopping \in BOOLEAN
  /\ bucket \in [Seconds -> Seq(1 .. MaxEntries)]

\* The memory bound: neither an append nor a failed batch that is put back
\* lets the buffer grow beyond its cap.
BufferCapped == Len(buffer) <= MaxBuffer

\* Appends race with a flush that fails and puts its batch back; entries still
\* leave in the order they came, and none is buffered twice.
Increasing(s) == \A i, j \in DOMAIN s : i < j => s[i] < s[j]
OldestFirst == \A f \in Flushes : Increasing(batch[f] \o buffer)

\* Cap and order hold together, although each is kept by its own code path.
BufferKept == BufferCapped /\ OldestFirst

Stored == UNION {Range(bucket[s]) : s \in Seconds}
Flying(f) == IF upload[f].state = "flying" THEN Range(upload[f].entries) ELSE {}
Held == Range(buffer) \cup UNION {Range(batch[f]) \cup Flying(f) : f \in Flushes}

\* The writer implements the log's promise.
Log == INSTANCE ResolveLog WITH
  Capacity <- MaxBuffer, accepted <- appended, pending <- Held, stored <- Stored,
  open <- ~stopping
ImplementsLog == Log!Spec

\* stop() returns: neither the cancelled task, the final flush nor a failing
\* upload keeps the shutdown waiting.
StopReturns == stopping ~> pc["final"] = "done"

=============================================================================
