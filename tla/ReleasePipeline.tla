--------------------------- MODULE ReleasePipeline ---------------------------
(***************************************************************************)
(* How a change of the seed reaches the published dataset: the refresh      *)
(* workflows that regenerate sources, gate them, push to main and dispatch  *)
(* a publish (.github/workflows/refresh-*.yml), the publishing workflows    *)
(* (seed.yml, publish-registry-data.yml) and publish_registry_data.py.      *)
(* Two concurrency groups serialise them: registry-seed-writer the          *)
(* refreshes, registry-data-publish the publishers.  People push whenever   *)
(* they like.  A commit is its position in the history of main; what        *)
(* seeding it yields is its content.                                        *)
(***************************************************************************)
EXTENDS Naturals, Sequences, FiniteSets

CONSTANTS
  Workflows,   \* the refresh workflows
  Watermarked, \* those that may commit a watermark without a data change
  People,      \* whoever else pushes to main
  Contents,    \* what seeding a commit may yield
  Initial,     \* the content that is published at first
  MaxCommits,  \* bound on the history of main
  MaxQueue,    \* bound on the publishers held for the lane
  MaxFailures  \* bound on the failures of steps, uploads and gh calls

\* Nobody, or nothing.
None == "none"

ASSUME PipelineAssumption ==
  /\ Watermarked \subseteq Workflows /\ {People, None} \cap Workflows = {}
  /\ Initial \in Contents
  /\ MaxCommits \in Nat /\ MaxQueue \in Nat /\ MaxFailures \in Nat

VARIABLES
  log,      \* the commits of main: [content, by, data]
  dataset,  \* the last upload, as consumers read it: [rev, content]
  released, \* history: the newest commit a publisher vouched for
  queue,    \* commits whose publishers are held for the lane
  job,      \* the publisher in the lane, watched by a refresh or not
  refresh,  \* the refresh in the writers' lane
  stalled,  \* workflows with an open stall issue
  lost,     \* history: workflows whose stall issue could not be opened
  failures  \* counter that bounds the model

vars == <<log, dataset, released, queue, job, refresh, stalled, lost, failures>>

NoJob == [rev |-> 0, watched |-> FALSE, step |-> "idle"]
\* base: the commit checked out; content, data: what the gate let through;
\* expected: the commit to publish, 0 if none was pushed.
Refresh(by, step, base, content, expected, data) ==
  [by |-> by, step |-> step, base |-> base, content |-> content,
   expected |-> expected, data |-> data]
NoRefresh == Refresh(None, "idle", 0, None, 0, FALSE)

Main == Len(log)

Init ==
  /\ log = <<[content |-> Initial, by |-> People, data |-> TRUE]>>
  /\ dataset = [rev |-> 1, content |-> Initial]
  /\ released = 1
  /\ queue = <<>> /\ job = NoJob
  /\ refresh = NoRefresh
  /\ stalled = {} /\ lost = {} /\ failures = 0

Fail == failures < MaxFailures /\ failures' = failures + 1
NoFailure == UNCHANGED failures

\* An arrival of the publishers' lane.  It is held, never superseded.
Enqueue(rev) == Len(queue) < MaxQueue /\ queue' = Append(queue, rev)
-----------------------------------------------------------------------------
(* The refresh workflows                                                   *)

RefreshAt(step) == refresh.step = step
\* What the earlier steps found out is not used again.
RefreshTo(step) == refresh' = Refresh(refresh.by, step, 0, None, 0, FALSE)

\* A cron fires, or a manual run, and checks out main.
StartRefresh(w) ==
  /\ refresh = NoRefresh
  /\ refresh' = Refresh(w, "gate", Main, None, 0, FALSE)
  /\ UNCHANGED <<log, dataset, released, queue, job, stalled, lost, failures>>

\* The sources are regenerated, the smoke and regression gates pass, and the
\* diff says what there is to commit.
PassGate ==
  /\ RefreshAt("gate")
  /\ \E content \in Contents, watermark \in {FALSE, refresh.by \in Watermarked} :
       LET data == content # log[refresh.base].content IN
       /\ data \/ watermark => refresh.base < MaxCommits
       /\ IF data \/ watermark
          THEN refresh' = Refresh(refresh.by, "push", refresh.base, content, 0, data)
          ELSE RefreshTo("decide")
  /\ UNCHANGED <<log, dataset, released, queue, job, stalled, lost, failures>>

\* git push, rejected when main moved since the checkout.  A push made with
\* the workflow's own token triggers no other workflow.
Push ==
  /\ RefreshAt("push")
  /\ \/ /\ Main = refresh.base
        /\ log' = Append(log, [content |-> refresh.content, by |-> refresh.by,
                               data |-> refresh.data])
        /\ refresh' = Refresh(refresh.by, "decide", 0, None, Main + 1, refresh.data)
     \/ /\ Main # refresh.base
        /\ RefreshTo("failed")
        /\ UNCHANGED log
  /\ UNCHANGED <<dataset, released, queue, job, stalled, lost, failures>>

\* Mutant of Needed: a stalled publish is not retried.
NeededForData(issues) == refresh.data

\* Publish when data changed or an earlier publish stalled.
Needed(issues) == refresh.data \/ refresh.by \in issues

\* An issue list that cannot be read counts as empty.
Decide ==
  /\ RefreshAt("decide")
  /\ \E issues \in {stalled, {}} :
       /\ refresh' = IF Needed(issues)
                     THEN Refresh(refresh.by, "dispatch", 0, None, refresh.expected, FALSE)
                     ELSE NoRefresh
       /\ IF issues = stalled THEN NoFailure ELSE Fail
  /\ UNCHANGED <<log, dataset, released, queue, job, stalled, lost>>

Expected == IF refresh.expected # 0 THEN refresh.expected ELSE Main

\* Mutants of Dispatch: the acknowledgement counts as the publish; the retry
\* of a stalled publish pins no commit.
DispatchUnwatched ==
  /\ RefreshAt("dispatch")
  /\ queue' = Append(queue, Expected)
  /\ RefreshTo("clear")
  /\ UNCHANGED <<log, dataset, released, job, stalled, lost, failures>>
DispatchUnpinned ==
  /\ RefreshAt("dispatch")
  /\ refresh' = Refresh(refresh.by, "queued", 0, None, refresh.expected, FALSE)
  /\ UNCHANGED <<log, dataset, released, queue, job, stalled, lost, failures>>

\* seed.yml is dispatched for the commit just pushed, or for main, and watched
\* while it is held for the lane ("queued") and while it runs ("wait").
Dispatch ==
  /\ RefreshAt("dispatch")
  /\ refresh' = Refresh(refresh.by, "queued", 0, None, Expected, FALSE)
  /\ UNCHANGED <<log, dataset, released, queue, job, stalled, lost, failures>>

\* The dispatched publisher of a refresh that gave up goes on unwatched.
Orphan ==
  /\ queue' = IF RefreshAt("queued") THEN Append(queue, refresh.expected) ELSE queue
  /\ job' = [job EXCEPT !.watched = FALSE]

\* Mutant of GiveUp: a cancelled or timed-out wait raises no issue.
GiveUpQuietly ==
  /\ refresh # NoRefresh /\ ~RefreshAt("failed") /\ Fail
  /\ IF RefreshAt("wait") THEN refresh' = NoRefresh ELSE RefreshTo("failed")
  /\ Orphan
  /\ UNCHANGED <<log, dataset, released, stalled, lost>>

\* A step fails, or the job is cancelled or times out in it.
GiveUp ==
  /\ refresh # NoRefresh /\ ~RefreshAt("failed") /\ Fail
  /\ RefreshTo("failed")
  /\ Orphan
  /\ UNCHANGED <<log, dataset, released, stalled, lost>>

\* The stall issue is closed after the correlated publish, as well as gh can.
ClearBeacon ==
  /\ RefreshAt("clear")
  /\ \/ stalled' = stalled \ {refresh.by} /\ NoFailure
     \/ UNCHANGED stalled /\ Fail
  /\ refresh' = NoRefresh
  /\ UNCHANGED <<log, dataset, released, queue, job, lost>>

\* Any failure opens the stall issue, as well as gh can.
RaiseBeacon ==
  /\ RefreshAt("failed")
  /\ \/ /\ stalled' = stalled \cup {refresh.by}
        /\ lost' = lost \ {refresh.by}
        /\ NoFailure
     \/ /\ lost' = lost \cup ({refresh.by} \ stalled)
        /\ UNCHANGED stalled
        /\ Fail
  /\ refresh' = NoRefresh
  /\ UNCHANGED <<log, dataset, released, queue, job>>
-----------------------------------------------------------------------------
(* People                                                                  *)

\* A push to main.  Only one that touches a path the publishing workflow
\* lists triggers it; one that changes the content does.
PushByPeople(content, listed) ==
  /\ Main < MaxCommits
  /\ content # log[Main].content => listed
  /\ log' = Append(log, [content |-> content, by |-> People, data |-> listed])
  /\ IF listed THEN Enqueue(Main + 1) ELSE UNCHANGED queue
  /\ UNCHANGED <<dataset, released, job, refresh, stalled, lost, failures>>

\* A publishing workflow is dispatched by hand.
PublishByHand ==
  /\ Enqueue(Main)
  /\ UNCHANGED <<log, dataset, released, job, refresh, stalled, lost, failures>>
-----------------------------------------------------------------------------
(* The publishing workflows and publish_registry_data.py                   *)

JobAt(step) == job.step = step
JobTo(step) == job' = [job EXCEPT !.step = step]

\* The lane is free: a held publisher checks out its commit.  The order in
\* which held publishers are let in is not fixed.
StartJob(i) ==
  /\ job = NoJob
  /\ job' = [rev |-> queue[i], watched |-> FALSE, step |-> "test"]
  /\ queue' = SubSeq(queue, 1, i - 1) \o SubSeq(queue, i + 1, Len(queue))
  /\ UNCHANGED <<log, dataset, released, refresh, stalled, lost, failures>>

StartChild ==
  /\ job = NoJob
  /\ RefreshAt("queued")
  /\ job' = [rev |-> refresh.expected, watched |-> TRUE, step |-> "test"]
  /\ RefreshTo("wait")
  /\ UNCHANGED <<log, dataset, released, queue, stalled, lost, failures>>

\* The publisher ends; the refresh that watches it goes on or fails.
EndJob(success) ==
  /\ job' = NoJob
  /\ IF job.watched THEN RefreshTo(IF success THEN "clear" ELSE "failed") ELSE UNCHANGED refresh

\* Seeding and the whole test suite.
Test ==
  /\ JobAt("test")
  /\ JobTo("check")
  /\ UNCHANGED <<log, dataset, released, queue, refresh, stalled, lost, failures>>

\* Mutant of IsCurrent: any checkout may be published.
IsAnyCommit(rev) == rev \in 1 .. Main

IsCurrent(rev) == rev = Main

\* _assert_checkout_is_current_main: a delayed older workflow is refused.
CheckHead ==
  /\ JobAt("check")
  /\ IF IsCurrent(job.rev)
     THEN JobTo("manifest") /\ UNCHANGED refresh
     ELSE EndJob(FALSE)
  /\ UNCHANGED <<log, dataset, released, queue, stalled, lost, failures>>

\* Mutant of NoOp: whatever is published already will do.
NoOpOncePublished == dataset.rev # 0

\* The published manifest names the same commit or the same content.
NoOp == dataset.rev = job.rev \/ dataset.content = log[job.rev].content

Vouch(rev) == released' = IF rev > released THEN rev ELSE released

\* _read_remote_manifest.  A manifest that cannot be read, or a content hash
\* that differs although the content does not, leads to an upload.
ReadManifest ==
  /\ JobAt("manifest")
  /\ \/ /\ NoOp
        /\ Vouch(job.rev)
        /\ EndJob(TRUE)
     \/ /\ JobTo("upload")
        /\ UNCHANGED <<released, refresh>>
  /\ UNCHANGED <<log, dataset, queue, stalled, lost, failures>>

\* _push: one revision of the dataset.  An upload that lands may be reported as
\* an error, which is retried with a backoff or ends the publisher.
Upload ==
  /\ JobAt("upload")
  /\ dataset' = [rev |-> job.rev, content |-> log[job.rev].content]
  /\ Vouch(job.rev)
  /\ \/ EndJob(TRUE) /\ NoFailure
     \/ UNCHANGED <<job, refresh>> /\ Fail
  /\ UNCHANGED <<log, queue, stalled, lost>>

\* A step fails: the tests, the look at origin/main, or the last retry of the
\* upload.
FailJob ==
  /\ job # NoJob /\ Fail
  /\ EndJob(FALSE)
  /\ UNCHANGED <<log, dataset, released, queue, stalled, lost>>

RefreshStep == PassGate \/ Push \/ Decide \/ Dispatch \/ ClearBeacon \/ RaiseBeacon
JobStep == Test \/ CheckHead \/ ReadManifest \/ Upload

Next ==
  \/ \E w \in Workflows : StartRefresh(w)
  \/ RefreshStep \/ GiveUp
  \/ \E content \in Contents, listed \in BOOLEAN : PushByPeople(content, listed)
  \/ PublishByHand
  \/ StartChild \/ \E i \in DOMAIN queue : StartJob(i)
  \/ JobStep \/ FailJob

Spec == Init /\ [][Next]_vars

\* Crons recur, the lanes let in whoever waits, and every step of a workflow
\* ends: GitHub bounds each of them by a timeout.
Fairness ==
  /\ \A w \in Workflows : SF_vars(StartRefresh(w))
  /\ WF_vars(RefreshStep)
  /\ SF_vars(StartChild)
  /\ WF_vars(\E i \in DOMAIN queue : StartJob(i))
  /\ WF_vars(JobStep)

FairSpec == Spec /\ Fairness
-----------------------------------------------------------------------------
Commits == [content : Contents, by : Workflows \cup {People}, data : BOOLEAN]
Jobs == [rev : 1 .. Main, watched : BOOLEAN, step : {"test", "check", "manifest", "upload"}]
Refreshes == [by : Workflows, base : 0 .. Main, content : Contents \cup {None},
              expected : 0 .. Main, data : BOOLEAN,
              step : {"gate", "push", "decide", "dispatch", "queued", "wait", "clear", "failed"}]

TypeOK ==
  /\ log \in Seq(Commits)
  /\ dataset \in [rev : 1 .. Main, content : Contents]
  /\ released \in 1 .. Main
  /\ queue \in Seq(1 .. Main)
  /\ job \in Jobs \cup {NoJob}
  /\ refresh \in Refreshes \cup {NoRefresh}
  /\ RefreshAt("push") => refresh.content \in Contents
  /\ stalled \subseteq Workflows /\ lost \subseteq Workflows
  /\ failures \in 0 .. MaxFailures

\* A delayed publisher, a retried upload or a late child never puts an older
\* commit over a newer one (publish_registry_data.py 115).
NeverRollsBack == [][dataset.rev <= dataset'.rev]_vars

\* A publisher that ends well, by upload or as a no-op, left the dataset with
\* the content of its commit: no skipped push hides a change from consumers.
DatasetIsReleased == dataset.content = log[released].content

\* The data commits of a workflow that consumers cannot see yet.
Unreleased(w) == {c \in 1 .. Main : log[c].by = w /\ log[c].data /\ c > released}

\* The stall issue is the durable recovery signal: a refresh never ends with a
\* data commit unpublished and no issue open, unless the issue could not be
\* opened.
StallIsFlagged ==
  \A w \in Workflows :
    Unreleased(w) # {} => w \in stalled \/ w \in lost \/ refresh.by = w

\* The issue is closed only when everything the workflow committed is published.
ClearedMeansReleased ==
  [][\A w \in stalled \ stalled' : Unreleased(w) = {}]_vars

\* Every data commit of a refresh is published once failures stop, whatever
\* failed on the way, or its issue could not be opened.
RefreshReleased ==
  \A w \in Workflows : Unreleased(w) # {} ~> Unreleased(w) = {} \/ w \in lost

=============================================================================
