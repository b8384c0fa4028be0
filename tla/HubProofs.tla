------------------------------ MODULE HubProofs ------------------------------
(***************************************************************************)
(* What is kept on the Hub, for all values of the constants.  The published *)
(* dataset: safety of ReleasePipeline for any workflows, contents, history  *)
(* length, lane capacity and number of failures.  The registry's tables:    *)
(* safety of HubTables for any command lines, rows, commands and download   *)
(* errors.                                                                  *)
(***************************************************************************)
EXTENDS ReleasePipeline, HubTables, SequenceTheorems, TLAPS

\* rev is at least as new as every commit of w.
Covers(w, rev) == \A c \in 1 .. Main : log[c].by = w => c <= rev

\* The dataset is the newest vouched-for commit, and a publisher past the
\* freshness check is not older than it: the lane is exclusive.
PublishedInOrder ==
  /\ dataset.content = log[dataset.rev].content
  /\ dataset.content = log[released].content
  /\ dataset.rev <= released
  /\ job.step \in {"manifest", "upload"} => released <= job.rev

\* A refresh is only ever waiting for a publisher that covers all its commits.
WatchedCovers ==
  /\ job.watched <=> RefreshAt("wait")
  /\ RefreshAt("wait") => Covers(refresh.by, job.rev)
  /\ RefreshAt("queued") => refresh.expected # 0 /\ Covers(refresh.by, refresh.expected)
  /\ refresh.step \in {"decide", "dispatch"} /\ refresh.expected # 0 =>
       Covers(refresh.by, refresh.expected)
  /\ RefreshAt("clear") => Covers(refresh.by, released)

\* The steps from which a refresh goes on to the publish or to the issue.
Owing(w) ==
  /\ refresh.by = w
  /\ \/ refresh.step \in {"dispatch", "queued", "wait", "failed"}
     \/ RefreshAt("decide") /\ refresh.data

\* The reason StallIsFlagged holds.
FlaggedOrOwing ==
  \A w \in Workflows : Unreleased(w) # {} => w \in stalled \cup lost \/ Owing(w)

-----------------------------------------------------------------------------
(* Facts about sequences and the history.                                  *)

\* A sequence over a set is one over every larger set.
LEMMA SeqMono ==
  ASSUME NEW S, NEW T, S \subseteq T, NEW s \in Seq(S)
  PROVE  s \in Seq(T)
BY LenProperties, ElementOfSeq, SeqDef

\* A sequence without one of its elements.
LEMMA WithoutType ==
  ASSUME NEW S, NEW s \in Seq(S), NEW i \in DOMAIN s
  PROVE  SubSeq(s, 1, i - 1) \o SubSeq(s, i + 1, Len(s)) \in Seq(S)
<1>1. /\ Len(s) \in Nat /\ DOMAIN s = 1 .. Len(s)
      /\ \A j \in 1 .. Len(s) : s[j] \in S
  BY LenProperties, ElementOfSeq
<1>2. SubSeq(s, 1, i - 1) \in Seq(S)
  BY <1>1, SubSeqProperties
<1>3. SubSeq(s, i + 1, Len(s)) \in Seq(S)
  BY <1>1, SubSeqProperties
<1>. QED  BY <1>2, <1>3, ConcatProperties

\* A push adds one commit and leaves the others.
LEMMA Pushed ==
  ASSUME log \in Seq(Commits), NEW commit \in Commits, log' = Append(log, commit)
  PROVE  /\ log' \in Seq(Commits)
         /\ Main \in Nat /\ Main' = Main + 1
         /\ \A c \in 1 .. Main : log'[c] = log[c]
         /\ log'[Main + 1] = commit
BY AppendProperties, LenProperties DEF Main

\* A refresh that is at some step is somebody's.
LEMMA ActiveRefresh ==
  ASSUME TypeOK, ~RefreshAt("idle")
  PROVE  refresh \in Refreshes /\ refresh.by \in Workflows
BY DEF TypeOK, RefreshAt, NoRefresh, Refresh, Refreshes

\* A publisher that is at some step has a commit.
LEMMA ActiveJob ==
  ASSUME TypeOK, ~JobAt("idle")
  PROVE  job \in Jobs /\ job.rev \in 1 .. Main /\ job.watched \in BOOLEAN
BY DEF TypeOK, JobAt, NoJob, Jobs

-----------------------------------------------------------------------------
(* Type correctness.                                                       *)

\* The initial state is well typed.
LEMMA InitTyped == Init => TypeOK
<1> SUFFICES ASSUME Init PROVE TypeOK
  OBVIOUS
<1>1. /\ Main = 1 /\ log[1].content = Initial
      /\ log \in Seq(Commits)
  BY PipelineAssumption DEF Init, Main, Commits
<1>2. queue \in Seq(1 .. Main)
  BY <1>1 DEF Init
<1>. QED  BY <1>1, <1>2, PipelineAssumption DEF Init, TypeOK, NoJob, NoRefresh, Refresh, RefreshAt

\* The counter of failures stays within its bound.
LEMMA FailuresTyped ==
  ASSUME TypeOK, NoFailure \/ Fail
  PROVE  failures' \in 0 .. MaxFailures
BY PipelineAssumption DEF TypeOK, NoFailure, Fail

\* What depends on the length of the history stays when no commit is pushed.
LEMMA LogKept ==
  ASSUME TypeOK, UNCHANGED log
  PROVE  /\ Main \in Nat \ {0} /\ Main' = Main
         /\ Jobs' = Jobs /\ Refreshes' = Refreshes
<1>1. Main \in Nat \ {0}
  BY LenProperties DEF TypeOK, Main
<1>2. Main' = Main
  BY DEF Main
<1>. QED  BY <1>1, <1>2 DEF Jobs, Refreshes

\* RefreshTo gives a well typed refresh.
LEMMA RefreshToTyped ==
  ASSUME TypeOK, ~RefreshAt("idle"), UNCHANGED log,
         NEW step \in {"decide", "failed", "clear", "wait"}, RefreshTo(step)
  PROVE  /\ refresh' \in Refreshes /\ ~RefreshAt("push")'
         /\ refresh'.by = refresh.by /\ refresh'.step = step
<1>1. Main \in Nat /\ refresh.by \in Workflows
  BY LogKept, ActiveRefresh
<1>2. refresh' = Refresh(refresh.by, step, 0, None, 0, FALSE)
  BY DEF RefreshTo
<1>. QED  BY <1>1, <1>2 DEF Refresh, Refreshes, RefreshAt

\* A pushed commit keeps every type but that of the variables the pusher sets.
LEMMA PushKeepsTypes ==
  ASSUME TypeOK, NEW commit \in Commits, log' = Append(log, commit),
         UNCHANGED <<dataset, released, job, stalled, lost, failures>>
  PROVE  /\ log' \in Seq(Commits')
         /\ dataset' \in [rev : 1 .. Main', content : Contents]
         /\ released' \in 1 .. Main'
         /\ queue \in Seq(1 .. Main')
         /\ Main + 1 \in 1 .. Main'
         /\ job' \in Jobs' \cup {NoJob}
         /\ refresh \in Refreshes' \cup {NoRefresh}
<1>1. /\ log' \in Seq(Commits) /\ Main \in Nat /\ Main' = Main + 1
  BY Pushed DEF TypeOK
<1>2. queue \in Seq(1 .. Main')
  BY <1>1, SeqMono DEF TypeOK
<1>. QED  BY <1>1, <1>2 DEF TypeOK, Jobs, Refreshes, Commits

\* Every step of a refresh keeps the types.
LEMMA RefreshStepTyped ==
  ASSUME TypeOK, WatchedCovers, RefreshStep \/ GiveUp \/ \E w \in Workflows : StartRefresh(w)
  PROVE  TypeOK'
<1>1. /\ Main \in Nat \ {0} /\ queue \in Seq(1 .. Main)
  BY LenProperties DEF TypeOK, Main
<1>2. CASE \E w \in Workflows : StartRefresh(w)
  <2>1. PICK w \in Workflows : StartRefresh(w)
    BY <1>2
  <2>2. refresh' \in Refreshes /\ ~RefreshAt("push")'
    BY <1>1, <2>1 DEF StartRefresh, Refresh, Refreshes, RefreshAt
  <2>. QED  BY <2>1, <2>2, LogKept DEF StartRefresh, TypeOK
<1>3. CASE PassGate
  <2>1. refresh \in Refreshes /\ refresh.by \in Workflows /\ ~RefreshAt("idle")
    BY <1>3, ActiveRefresh DEF PassGate, RefreshAt
  <2>2. PICK content \in Contents, watermark \in {FALSE, refresh.by \in Watermarked} :
          \/ /\ (content # log[refresh.base].content) \/ watermark
             /\ refresh' = Refresh(refresh.by, "push", refresh.base, content, 0,
                                   content # log[refresh.base].content)
          \/ RefreshTo("decide")
    BY <1>3 DEF PassGate
  <2>3. refresh' \in Refreshes /\ (RefreshAt("push")' => refresh'.content \in Contents)
    <3>1. CASE RefreshTo("decide")
      BY <1>3, <2>1, <3>1, RefreshToTyped DEF PassGate
    <3>2. CASE refresh' = Refresh(refresh.by, "push", refresh.base, content, 0,
                                  content # log[refresh.base].content)
      <4>1. refresh.base \in 0 .. Main /\ (content # log[refresh.base].content) \in BOOLEAN
        BY <2>1 DEF Refreshes
      <4>. HIDE <2>2
      <4>. QED  BY <1>1, <2>1, <3>2, <4>1 DEF Refresh, Refreshes, RefreshAt
    <3>. QED  BY <2>2, <3>1, <3>2
  <2>. QED  BY <1>3, <2>3, LogKept DEF PassGate, TypeOK
<1>4. CASE Push
  <2>1. refresh \in Refreshes /\ refresh.by \in Workflows /\ ~RefreshAt("idle")
    BY <1>4, ActiveRefresh DEF Push, RefreshAt
  <2>2. CASE Main # refresh.base
    <3>1. refresh' \in Refreshes /\ ~RefreshAt("push")' /\ UNCHANGED log
      BY <1>4, <2>1, <2>2, RefreshToTyped DEF Push
    <3>. QED  BY <1>4, <3>1, LogKept DEF Push, TypeOK
  <2>3. CASE Main = refresh.base
    <3>. DEFINE commit == [content |-> refresh.content, by |-> refresh.by, data |-> refresh.data]
    <3>1. commit \in Commits /\ log' = Append(log, commit)
      BY <1>4, <2>1, <2>3 DEF Push, RefreshAt, Commits, Refreshes, TypeOK
    <3>2. Main' = Main + 1
      BY <3>1, Pushed DEF TypeOK
    <3>3. refresh' \in Refreshes' /\ ~RefreshAt("push")'
      BY <1>1, <1>4, <2>1, <2>3, <3>2 DEF Push, Refresh, Refreshes, RefreshAt
    <3>. QED  BY <1>4, <3>1, <3>3, PushKeepsTypes DEF Push, TypeOK
  <2>. QED  BY <2>2, <2>3
<1>5. CASE Decide
  <2>1. refresh \in Refreshes /\ refresh.by \in Workflows
    BY <1>5, ActiveRefresh DEF Decide, RefreshAt
  <2>2. /\ \/ refresh' = NoRefresh
           \/ refresh' = Refresh(refresh.by, "dispatch", 0, None, refresh.expected, FALSE)
        /\ NoFailure \/ Fail
    BY <1>5 DEF Decide
  <2>3. refresh' \in Refreshes \cup {NoRefresh} /\ ~RefreshAt("push")'
    <3>1. CASE refresh' = NoRefresh
      BY <3>1 DEF Refresh, NoRefresh, RefreshAt
    <3>2. CASE refresh' = Refresh(refresh.by, "dispatch", 0, None, refresh.expected, FALSE)
      BY <1>1, <2>1, <3>2 DEF Refresh, Refreshes, RefreshAt
    <3>. QED  BY <2>2, <3>1, <3>2
  <2>. QED  BY <1>5, <2>2, <2>3, FailuresTyped, LogKept DEF Decide, TypeOK
<1>6. CASE Dispatch
  <2>1. refresh \in Refreshes /\ refresh.by \in Workflows
    BY <1>6, ActiveRefresh DEF Dispatch, RefreshAt
  <2>2. refresh' \in Refreshes /\ ~RefreshAt("push")'
    BY <1>1, <1>6, <2>1 DEF Dispatch, Expected, Refresh, Refreshes, RefreshAt
  <2>. QED  BY <1>6, <2>2, LogKept DEF Dispatch, TypeOK
<1>7. CASE GiveUp
  <2>1. ~RefreshAt("idle") /\ refresh \in Refreshes
    BY <1>7 DEF GiveUp, TypeOK, Refreshes, RefreshAt
  <2>2. refresh' \in Refreshes /\ ~RefreshAt("push")'
    BY <1>7, <2>1, RefreshToTyped DEF GiveUp
  <2>3. queue' \in Seq(1 .. Main)
    <3>1. CASE RefreshAt("queued")
      <4>1. refresh.expected \in 1 .. Main
        BY <1>1, <2>1, <3>1 DEF WatchedCovers, Refreshes
      <4>. QED  BY <1>1, <1>7, <3>1, <4>1, AppendProperties DEF GiveUp, Orphan
    <3>. QED  BY <1>1, <1>7, <3>1 DEF GiveUp, Orphan
  <2>4. job' \in Jobs \cup {NoJob}
    <3>1. CASE job = NoJob
      BY <1>7, <3>1 DEF GiveUp, Orphan, NoJob
    <3>2. CASE job \in Jobs
      BY <1>7, <3>2 DEF GiveUp, Orphan, Jobs
    <3>. QED  BY <3>1, <3>2 DEF TypeOK
  <2>. QED  BY <1>7, <2>2, <2>3, <2>4, FailuresTyped, LogKept DEF GiveUp, TypeOK
<1>8. CASE ClearBeacon
  <2>1. refresh' = NoRefresh /\ ~RefreshAt("push")' /\ (NoFailure \/ Fail)
    BY <1>8 DEF ClearBeacon, NoRefresh, Refresh, RefreshAt
  <2>. QED  BY <1>8, <2>1, FailuresTyped, LogKept DEF ClearBeacon, TypeOK
<1>9. CASE RaiseBeacon
  <2>1. refresh.by \in Workflows
    BY <1>9, ActiveRefresh DEF RaiseBeacon, RefreshAt
  <2>2. refresh' = NoRefresh /\ ~RefreshAt("push")' /\ (NoFailure \/ Fail)
    BY <1>9 DEF RaiseBeacon, NoRefresh, Refresh, RefreshAt
  <2>. QED  BY <1>9, <2>1, <2>2, FailuresTyped, LogKept DEF RaiseBeacon, TypeOK
<1>. QED  BY <1>2, <1>3, <1>4, <1>5, <1>6, <1>7, <1>8, <1>9 DEF RefreshStep

\* Every step of people keeps the types.
LEMMA PeopleStepTyped ==
  ASSUME TypeOK,
         PublishByHand \/ \E content \in Contents, listed \in BOOLEAN : PushByPeople(content, listed)
  PROVE  TypeOK'
<1>1. /\ Main \in Nat \ {0} /\ queue \in Seq(1 .. Main)
  BY LenProperties DEF TypeOK, Main
<1>2. CASE PublishByHand
  <2>1. queue' \in Seq(1 .. Main)
    BY <1>1, <1>2, AppendProperties DEF PublishByHand, Enqueue
  <2>. QED  BY <1>2, <2>1, LogKept DEF PublishByHand, TypeOK, RefreshAt
<1>3. CASE \E content \in Contents, listed \in BOOLEAN : PushByPeople(content, listed)
  <2>1. PICK content \in Contents, listed \in BOOLEAN : PushByPeople(content, listed)
    BY <1>3
  <2>. DEFINE commit == [content |-> content, by |-> People, data |-> listed]
  <2>2. commit \in Commits /\ log' = Append(log, commit)
    BY <2>1 DEF PushByPeople, Commits
  <2>3. /\ queue \in Seq(1 .. Main') /\ Main + 1 \in 1 .. Main'
        /\ refresh \in Refreshes' \cup {NoRefresh}
    BY <2>1, <2>2, PushKeepsTypes DEF PushByPeople
  <2>4. queue' \in Seq(1 .. Main')
    <3>1. queue' = queue \/ queue' = Append(queue, Main + 1)
      BY <2>1 DEF PushByPeople, Enqueue
    <3>. DEFINE S == 1 .. Main'
    <3>2. queue \in Seq(S) /\ Main + 1 \in S
      BY <2>3
    <3>. HIDE DEF S
    <3>3. queue' \in Seq(S)
      BY <3>1, <3>2, AppendProperties
    <3>. QED  BY <3>3 DEF S
  <2>. QED  BY <2>1, <2>2, <2>3, <2>4, PushKeepsTypes DEF PushByPeople, TypeOK, RefreshAt
<1>. QED  BY <1>2, <1>3

\* The end of a publisher keeps the types.
LEMMA EndJobTyped ==
  ASSUME TypeOK, WatchedCovers, UNCHANGED log, NEW success \in BOOLEAN, EndJob(success)
  PROVE  /\ job' = NoJob
         /\ refresh' \in Refreshes \cup {NoRefresh} /\ (RefreshAt("push")' => refresh'.content \in Contents)
<1>1. CASE job.watched
  <2>1. ~RefreshAt("idle")
    BY <1>1 DEF WatchedCovers, RefreshAt
  <2>. QED  BY <1>1, <2>1, RefreshToTyped DEF EndJob
<1>2. CASE ~job.watched
  BY <1>2 DEF EndJob, TypeOK, RefreshAt
<1>. QED  BY <1>1, <1>2 DEF EndJob

\* A step of the publisher in the lane keeps the type of its record.
LEMMA JobToTyped ==
  ASSUME TypeOK, ~JobAt("idle"), NEW step \in {"check", "manifest", "upload"}, JobTo(step)
  PROVE  job' \in Jobs /\ job'.step = step /\ job'.rev = job.rev /\ job'.watched = job.watched
<1>1. job \in Jobs
  BY ActiveJob
<1>. QED  BY <1>1 DEF JobTo, Jobs

\* What a publisher vouches for is a commit.
LEMMA VouchTyped ==
  ASSUME TypeOK, job.rev \in 1 .. Main, Vouch(job.rev)
  PROVE  released' \in 1 .. Main /\ released <= released' /\ job.rev <= released'
BY DEF TypeOK, Vouch, Main

\* Every step of the publishers keeps the types.
LEMMA PublisherStepTyped ==
  ASSUME TypeOK, WatchedCovers,
         StartChild \/ (\E i \in DOMAIN queue : StartJob(i)) \/ JobStep \/ FailJob
  PROVE  TypeOK'
<1>1. /\ Main \in Nat \ {0} /\ queue \in Seq(1 .. Main) /\ log \in Seq(Commits)
      /\ released \in 1 .. Main
  BY LenProperties DEF TypeOK, Main
<1>2. CASE StartChild
  <2>1. ~RefreshAt("idle") /\ refresh \in Refreshes
    BY <1>2, ActiveRefresh DEF StartChild, RefreshAt
  <2>2. refresh' \in Refreshes /\ ~RefreshAt("push")'
    BY <1>2, <2>1, RefreshToTyped DEF StartChild
  <2>3. refresh.expected \in 1 .. Main
    BY <1>1, <1>2, <2>1 DEF StartChild, WatchedCovers, Refreshes
  <2>4. job' \in Jobs
    BY <1>2, <2>3 DEF StartChild, Jobs
  <2>. QED  BY <1>2, <2>2, <2>4, LogKept DEF StartChild, TypeOK
<1>3. CASE \E i \in DOMAIN queue : StartJob(i)
  <2>1. PICK i \in DOMAIN queue : StartJob(i)
    BY <1>3
  <2>2. queue' \in Seq(1 .. Main)
    BY <1>1, <2>1, WithoutType DEF StartJob
  <2>3. queue[i] \in 1 .. Main
    BY <1>1, ElementOfSeq, LenProperties
  <2>4. job' \in Jobs
    BY <2>1, <2>3 DEF StartJob, Jobs
  <2>. QED  BY <2>1, <2>2, <2>4, LogKept DEF StartJob, TypeOK, RefreshAt
<1>4. CASE Test
  <2>1. job' \in Jobs
    BY <1>4, JobToTyped DEF Test, JobAt
  <2>. QED  BY <1>4, <2>1, LogKept DEF Test, TypeOK, RefreshAt
<1>5. CASE CheckHead
  <2>1. CASE EndJob(FALSE)
    BY <1>5, <2>1, EndJobTyped, LogKept DEF CheckHead, TypeOK
  <2>2. CASE JobTo("manifest") /\ UNCHANGED refresh
    <3>1. job' \in Jobs
      BY <1>5, <2>2, JobToTyped DEF CheckHead, JobAt
    <3>. QED  BY <1>5, <2>2, <3>1, LogKept DEF CheckHead, TypeOK, RefreshAt
  <2>. QED  BY <1>5, <2>1, <2>2 DEF CheckHead
<1>6. CASE ReadManifest
  <2>1. job.rev \in 1 .. Main
    BY <1>6, ActiveJob DEF ReadManifest, JobAt
  <2>2. CASE Vouch(job.rev) /\ EndJob(TRUE)
    BY <1>6, <2>1, <2>2, VouchTyped, EndJobTyped, LogKept DEF ReadManifest, TypeOK
  <2>3. CASE JobTo("upload") /\ UNCHANGED <<released, refresh>>
    <3>1. job' \in Jobs
      BY <1>6, <2>3, JobToTyped DEF ReadManifest, JobAt
    <3>. QED  BY <1>6, <2>3, <3>1, LogKept DEF ReadManifest, TypeOK, RefreshAt
  <2>. QED  BY <1>6, <2>2, <2>3 DEF ReadManifest
<1>7. CASE Upload
  <2>1. job.rev \in 1 .. Main
    BY <1>7, ActiveJob DEF Upload, JobAt
  <2>2. dataset' \in [rev : 1 .. Main, content : Contents] /\ released' \in 1 .. Main
    <3>1. log[job.rev].content \in Contents
      <4>1. log[job.rev] \in Commits
        BY <1>1, <2>1, ElementOfSeq DEF Main
      <4>. QED  BY <4>1 DEF Commits
    <3>2. dataset' = [rev |-> job.rev, content |-> log[job.rev].content] /\ Vouch(job.rev)
      BY <1>7 DEF Upload
    <3>. QED  BY <2>1, <3>1, <3>2, VouchTyped
  <2>3. CASE EndJob(TRUE) /\ NoFailure
    BY <1>7, <2>2, <2>3, EndJobTyped, FailuresTyped, LogKept DEF Upload, TypeOK
  <2>4. CASE UNCHANGED <<job, refresh>> /\ Fail
    BY <1>7, <2>2, <2>4, FailuresTyped, LogKept DEF Upload, TypeOK, RefreshAt
  <2>. QED  BY <1>7, <2>3, <2>4 DEF Upload
<1>8. CASE FailJob
  BY <1>8, EndJobTyped, FailuresTyped, LogKept DEF FailJob, TypeOK
<1>. QED  BY <1>2, <1>3, <1>4, <1>5, <1>6, <1>7, <1>8 DEF JobStep

\* Every step keeps the types, given what a waiting refresh waits for.
LEMMA StepTyped ==
  ASSUME TypeOK, WatchedCovers, [Next]_vars
  PROVE  TypeOK'
<1>1. CASE UNCHANGED vars
  BY <1>1 DEF vars, TypeOK, Main, Jobs, Refreshes, RefreshAt
<1>. QED  BY <1>1, RefreshStepTyped, PeopleStepTyped, PublisherStepTyped DEF Next

-----------------------------------------------------------------------------
(* The dataset only moves forward.                                         *)

\* A step that publishes nothing keeps the order of what is published, if no
\* other publisher passes the freshness check in it.
LEMMA OrderUndisturbed ==
  ASSUME TypeOK, PublishedInOrder, UNCHANGED <<dataset, released>>,
         UNCHANGED log \/ \E commit \in Commits : log' = Append(log, commit),
         JobAt("manifest")' \/ JobAt("upload")' => JobAt("manifest") \/ JobAt("upload"),
         JobAt("manifest")' \/ JobAt("upload")' => job'.rev = job.rev
  PROVE  PublishedInOrder' /\ dataset.rev <= dataset'.rev
<1>1. dataset.rev \in 1 .. Main /\ released \in 1 .. Main /\ Main \in Nat
  BY LenProperties DEF TypeOK, Main
<1>2. log'[dataset.rev] = log[dataset.rev] /\ log'[released] = log[released]
  BY <1>1, Pushed DEF TypeOK
<1>3. dataset'.content = log'[dataset'.rev].content /\ dataset'.content = log'[released'].content
  BY <1>2 DEF PublishedInOrder
<1>4. dataset'.rev <= released' /\ dataset.rev <= dataset'.rev
  BY <1>1 DEF PublishedInOrder
<1>5. job'.step \in {"manifest", "upload"} => released' <= job'.rev
  BY DEF PublishedInOrder, JobAt
<1>. QED  BY <1>3, <1>4, <1>5 DEF PublishedInOrder

\* Every step keeps the order: the lane is exclusive, so nothing is published
\* between a publisher's freshness check and its upload.
LEMMA PublishedInOrderStep ==
  ASSUME TypeOK, PublishedInOrder, [Next]_vars
  PROVE  PublishedInOrder' /\ dataset.rev <= dataset'.rev
<1>1. CASE UNCHANGED vars
  BY <1>1, OrderUndisturbed DEF vars, JobAt
<1>2. CASE RefreshStep \/ \E w \in Workflows : StartRefresh(w)
  <2>1. UNCHANGED <<dataset, released, job>>
    BY <1>2 DEF RefreshStep, StartRefresh, PassGate, Push, Decide, Dispatch, ClearBeacon, RaiseBeacon
  <2>2. CASE Push
    <3>1. refresh \in Refreshes /\ refresh.by \in Workflows
      BY <2>2, ActiveRefresh DEF Push, RefreshAt
    <3>. DEFINE commit == [content |-> refresh.content, by |-> refresh.by, data |-> refresh.data]
    <3>2. commit \in Commits /\ (UNCHANGED log \/ log' = Append(log, commit))
      BY <2>2, <3>1 DEF Push, RefreshAt, Commits, Refreshes, TypeOK
    <3>. QED  BY <2>1, <3>2, OrderUndisturbed DEF JobAt
  <2>3. CASE ~Push
    <3>1. UNCHANGED log
      BY <1>2, <2>3 DEF RefreshStep, StartRefresh, PassGate, Decide, Dispatch, ClearBeacon, RaiseBeacon
    <3>. QED  BY <2>1, <3>1, OrderUndisturbed DEF JobAt
  <2>. QED  BY <2>2, <2>3
<1>3. CASE GiveUp
  <2>1. UNCHANGED <<log, dataset, released>> /\ job' = [job EXCEPT !.watched = FALSE]
    BY <1>3 DEF GiveUp, Orphan
  <2>2. job'.rev = job.rev /\ job'.step = job.step
    BY <2>1 DEF TypeOK, Jobs, NoJob
  <2>. QED  BY <2>1, <2>2, OrderUndisturbed DEF JobAt
<1>4. CASE PublishByHand
  BY <1>4, OrderUndisturbed DEF PublishByHand, JobAt
<1>5. CASE \E content \in Contents, listed \in BOOLEAN : PushByPeople(content, listed)
  <2>1. PICK content \in Contents, listed \in BOOLEAN : PushByPeople(content, listed)
    BY <1>5
  <2>2. [content |-> content, by |-> People, data |-> listed] \in Commits
    BY DEF Commits
  <2>. QED  BY <2>1, <2>2, OrderUndisturbed DEF PushByPeople, JobAt
<1>6. CASE StartChild \/ (\E i \in DOMAIN queue : StartJob(i)) \/ FailJob
  BY <1>6, OrderUndisturbed DEF StartChild, StartJob, FailJob, EndJob, NoJob, JobAt
<1>7. CASE Test
  <2>1. job'.step = "check"
    BY <1>7, JobToTyped DEF Test, JobAt
  <2>. QED  BY <1>7, <2>1, OrderUndisturbed DEF Test, JobAt
<1>8. CASE CheckHead
  <2>1. CASE EndJob(FALSE)
    BY <1>8, <2>1, OrderUndisturbed DEF CheckHead, EndJob, NoJob, JobAt
  <2>2. CASE IsCurrent(job.rev) /\ JobTo("manifest")
    <3>1. job'.rev = job.rev
      BY <1>8, <2>2, JobToTyped DEF CheckHead, JobAt
    <3>2. released <= job'.rev /\ dataset.rev <= dataset'.rev
      BY <1>8, <2>2, <3>1, LogKept DEF CheckHead, IsCurrent, TypeOK
    <3>. QED  BY <1>8, <3>2 DEF CheckHead, PublishedInOrder
  <2>. QED  BY <1>8, <2>1, <2>2 DEF CheckHead
<1>9. CASE ReadManifest
  <2>1. job.rev \in 1 .. Main /\ released <= job.rev
    BY <1>9, ActiveJob DEF ReadManifest, JobAt, PublishedInOrder
  <2>2. CASE NoOp /\ Vouch(job.rev) /\ EndJob(TRUE)
    <3>1. released' = job.rev /\ UNCHANGED <<dataset, log>> /\ job' = NoJob
      BY <1>9, <2>1, <2>2, LogKept DEF ReadManifest, Vouch, EndJob, TypeOK
    <3>2. dataset.content = log[job.rev].content
      BY <2>2 DEF NoOp, PublishedInOrder
    <3>3. dataset.rev \in Nat /\ released \in Nat /\ job.rev \in Nat
      BY <2>1, LogKept DEF TypeOK
    <3>4. dataset'.content = log'[dataset'.rev].content /\ dataset'.content = log'[released'].content
      BY <3>1, <3>2 DEF PublishedInOrder
    <3>5. dataset'.rev <= released' /\ dataset.rev <= dataset'.rev
      BY <2>1, <3>1, <3>3 DEF PublishedInOrder
    <3>6. job'.step \notin {"manifest", "upload"}
      BY <3>1 DEF NoJob
    <3>. QED  BY <3>4, <3>5, <3>6 DEF PublishedInOrder
  <2>3. CASE JobTo("upload") /\ UNCHANGED <<released, refresh>>
    <3>1. job'.rev = job.rev
      BY <1>9, <2>3, JobToTyped DEF ReadManifest, JobAt
    <3>. QED  BY <1>9, <2>3, <3>1, OrderUndisturbed DEF ReadManifest, JobAt
  <2>. QED  BY <1>9, <2>2, <2>3 DEF ReadManifest
<1>10. CASE Upload
  <2>1. job.rev \in 1 .. Main /\ released <= job.rev
    BY <1>10, ActiveJob DEF Upload, JobAt, PublishedInOrder
  <2>2. dataset' = [rev |-> job.rev, content |-> log[job.rev].content] /\ released' = job.rev /\ log' = log
    BY <1>10, <2>1, LogKept DEF Upload, Vouch, TypeOK
  <2>3. job'.step \in {"manifest", "upload"} => job' = job
    BY <1>10 DEF Upload, EndJob, NoJob
  <2>. QED  BY <2>1, <2>2, <2>3, LogKept DEF PublishedInOrder, TypeOK
<1>. QED  BY <1>1, <1>2, <1>3, <1>4, <1>5, <1>6, <1>7, <1>8, <1>9, <1>10 DEF Next, JobStep

-----------------------------------------------------------------------------
(* A refresh waits for a publisher that covers everything it committed.    *)

\* Someone else's push leaves what a workflow has to cover.
LEMMA CoversAfterPush ==
  ASSUME TypeOK, NEW w \in Workflows, NEW rev \in Nat, Covers(w, rev),
         NEW commit \in Commits, commit.by # w, log' = Append(log, commit)
  PROVE  Covers(w, rev)'
<1>1. /\ Main \in Nat /\ Main' = Main + 1
      /\ \A c \in 1 .. Main : log'[c] = log[c]
      /\ log'[Main + 1] = commit
  BY Pushed DEF TypeOK
<1>2. SUFFICES ASSUME NEW c \in 1 .. Main', log'[c].by = w PROVE c <= rev
  BY DEF Covers
<1>3. c # Main + 1
  BY <1>1, <1>2
<1>4. c \in 1 .. Main
  BY <1>1, <1>3
<1>. QED  BY <1>1, <1>2, <1>4 DEF Covers

\* A newer publisher covers no less.
LEMMA CoversMore ==
  ASSUME TypeOK, NEW w, NEW rev \in Nat, NEW newer \in Nat, rev <= newer, Covers(w, rev)
  PROVE  Covers(w, newer)
<1>1. Main \in Nat
  BY LenProperties DEF TypeOK, Main
<1>. QED  BY <1>1 DEF Covers

\* The end of a publisher keeps what the refreshes wait for: one that ends well
\* has vouched for its commit.
LEMMA WatchedCoversEndJob ==
  ASSUME TypeOK, WatchedCovers, NEW success \in BOOLEAN, EndJob(success), UNCHANGED log,
         released' \in 1 .. Main, released <= released',
         ~JobAt("idle"), success => job.rev <= released'
  PROVE  WatchedCovers'
<1>1. /\ Main \in Nat /\ released \in Nat /\ released' \in Nat
      /\ job.rev \in Nat /\ job.watched \in BOOLEAN
  BY LogKept, ActiveJob DEF TypeOK
<1>2. \A w, rev : Covers(w, rev) => Covers(w, rev)'
  BY DEF Covers, Main
<1>3. CASE job.watched
  <2>1. RefreshAt("wait") /\ ~RefreshAt("idle") /\ Covers(refresh.by, job.rev)
    BY <1>3 DEF WatchedCovers, RefreshAt
  <2>2. /\ refresh'.by = refresh.by
        /\ refresh'.step = IF success THEN "clear" ELSE "failed"
    BY <1>3, <2>1, RefreshToTyped DEF EndJob
  <2>3. success => Covers(refresh.by, released')
    BY <1>1, <2>1, CoversMore
  <2>. QED  BY <1>2, <2>2, <2>3 DEF EndJob, NoJob, WatchedCovers, RefreshAt, Covers, Main
<1>4. CASE ~job.watched
  <2>1. refresh' = refresh /\ ~RefreshAt("wait") /\ job'.watched = FALSE
    BY <1>4 DEF EndJob, WatchedCovers, NoJob
  <2>2. RefreshAt("clear") => Covers(refresh.by, released')
    BY <1>1, CoversMore DEF WatchedCovers
  <2>. QED  BY <2>1, <2>2 DEF WatchedCovers, RefreshAt, Covers, Main
<1>. QED  BY <1>1, <1>3, <1>4

\* A refresh that waits for nothing.
LEMMA WatchesNothing ==
  ASSUME job'.watched = FALSE,
         refresh'.step \in {"idle", "gate", "push", "failed"} \/ (RefreshAt("decide")' /\ refresh'.expected = 0)
  PROVE  WatchedCovers'
BY DEF WatchedCovers, RefreshAt

\* Every step keeps what the refreshes wait for.
LEMMA WatchedCoversStep ==
  ASSUME TypeOK, WatchedCovers, [Next]_vars
  PROVE  WatchedCovers'
<1>1. /\ Main \in Nat \ {0} /\ job \in Jobs \cup {NoJob} /\ refresh \in Refreshes \cup {NoRefresh}
      /\ job.watched \in BOOLEAN /\ released \in 1 .. Main
  <2>1. job \in Jobs \cup {NoJob}
    BY DEF TypeOK
  <2>2. job.watched \in BOOLEAN
    <3>1. CASE job = NoJob
      BY <3>1 DEF NoJob
    <3>2. CASE job \in Jobs
      BY <3>2 DEF Jobs
    <3>. QED  BY <2>1, <3>1, <3>2
  <2>. QED  BY <2>1, <2>2, LenProperties DEF TypeOK, Main
<1>2. ~RefreshAt("wait") => job.watched = FALSE
  BY <1>1 DEF WatchedCovers
<1>3. CASE UNCHANGED vars
  BY <1>3 DEF vars, WatchedCovers, RefreshAt, Covers, Main
<1>4. CASE \E w \in Workflows : StartRefresh(w)
  <2>1. refresh'.step = "gate" /\ job' = job /\ refresh.step = "idle"
    BY <1>4 DEF StartRefresh, NoRefresh, Refresh
  <2>. QED  BY <1>2, <2>1, WatchesNothing DEF RefreshAt
<1>5. CASE PassGate
  <2>1. refresh'.step = "push" \/ (refresh'.step = "decide" /\ refresh'.expected = 0)
    BY <1>5 DEF PassGate, RefreshTo, Refresh
  <2>. QED  BY <1>2, <1>5, <2>1, WatchesNothing DEF PassGate, RefreshAt
<1>6. CASE Push
  <2>1. refresh \in Refreshes /\ refresh.by \in Workflows
    BY <1>6, ActiveRefresh DEF Push, RefreshAt
  <2>2. CASE RefreshTo("failed")
    BY <1>2, <1>6, <2>2, WatchesNothing DEF Push, RefreshTo, Refresh, RefreshAt
  <2>3. CASE ~RefreshTo("failed")
    <3>. DEFINE commit == [content |-> refresh.content, by |-> refresh.by, data |-> refresh.data]
    <3>1. /\ log' = Append(log, commit) /\ job' = job
          /\ refresh' = Refresh(refresh.by, "decide", 0, None, Main + 1, refresh.data)
      BY <1>6, <2>3 DEF Push
    <3>2. commit \in Commits
      BY <1>6, <2>1 DEF Push, RefreshAt, Commits, Refreshes, TypeOK
    <3>3. Main' = Main + 1
      BY <3>1, <3>2, Pushed DEF TypeOK
    <3>4. Covers(refresh.by, Main + 1)'
      BY <1>1, <3>3 DEF Covers
    <3>5. refresh'.by = refresh.by /\ refresh'.step = "decide" /\ refresh'.expected = Main + 1
      BY <3>1 DEF Refresh
    <3>6. Covers(refresh.by, refresh.expected)'
      BY <1>1, <3>3, <3>5 DEF Covers
    <3>. QED  BY <1>2, <1>6, <3>1, <3>5, <3>6 DEF Push, WatchedCovers, RefreshAt
  <2>. QED  BY <2>2, <2>3
<1>7. CASE Decide
  <2>1. refresh' = NoRefresh \/ refresh' = Refresh(refresh.by, "dispatch", 0, None, refresh.expected, FALSE)
    BY <1>7 DEF Decide
  <2>2. job' = job /\ job.watched = FALSE /\ log' = log
    BY <1>2, <1>7 DEF Decide, RefreshAt
  <2>3. CASE refresh' = NoRefresh
    BY <2>2, <2>3, WatchesNothing DEF NoRefresh, Refresh
  <2>4. CASE refresh' = Refresh(refresh.by, "dispatch", 0, None, refresh.expected, FALSE)
    <3>1. refresh'.by = refresh.by /\ refresh'.step = "dispatch" /\ refresh'.expected = refresh.expected
      BY <2>4 DEF Refresh
    <3>2. refresh.expected # 0 => Covers(refresh.by, refresh.expected)
      BY <1>7 DEF Decide, WatchedCovers, RefreshAt
    <3>. QED  BY <2>2, <3>1, <3>2 DEF WatchedCovers, RefreshAt, Covers, Main
  <2>. QED  BY <2>1, <2>3, <2>4
<1>8. CASE Dispatch
  <2>1. /\ refresh'.by = refresh.by /\ refresh'.step = "queued" /\ refresh'.expected = Expected
        /\ job' = job /\ job.watched = FALSE /\ log' = log
    BY <1>2, <1>8 DEF Dispatch, RefreshAt, Refresh
  <2>2. Expected # 0 /\ Covers(refresh.by, Expected)
    BY <1>1, <1>8 DEF Dispatch, WatchedCovers, RefreshAt, Expected, Covers
  <2>. QED  BY <2>1, <2>2 DEF WatchedCovers, RefreshAt, Covers, Main
<1>9. CASE GiveUp
  <2>1. refresh'.step = "failed"
    BY <1>9 DEF GiveUp, RefreshTo, Refresh
  <2>2. job'.watched = FALSE
    BY <1>1, <1>9 DEF GiveUp, Orphan, Jobs, NoJob
  <2>. QED  BY <2>1, <2>2, WatchesNothing
<1>10. CASE ClearBeacon \/ RaiseBeacon
  <2>1. refresh'.step = "idle" /\ job' = job /\ refresh.step \in {"clear", "failed"}
    BY <1>10 DEF ClearBeacon, RaiseBeacon, RefreshAt, NoRefresh, Refresh
  <2>. QED  BY <1>2, <2>1, WatchesNothing DEF RefreshAt
<1>11. CASE PublishByHand
  BY <1>11 DEF PublishByHand, WatchedCovers, RefreshAt, Covers, Main
<1>12. CASE \E content \in Contents, listed \in BOOLEAN : PushByPeople(content, listed)
  <2>1. PICK content \in Contents, listed \in BOOLEAN : PushByPeople(content, listed)
    BY <1>12
  <2>. DEFINE commit == [content |-> content, by |-> People, data |-> listed]
  <2>2. /\ commit \in Commits /\ log' = Append(log, commit)
        /\ UNCHANGED <<job, refresh, released>>
    BY <2>1 DEF PushByPeople, Commits
  <2>3. CASE refresh = NoRefresh
    BY <1>2, <2>2, <2>3, WatchesNothing DEF NoRefresh, Refresh, RefreshAt
  <2>4. CASE refresh \in Refreshes
    <3>1. refresh.by \in Workflows /\ refresh.expected \in Nat /\ refresh.by # People
      BY <1>1, <2>4, PipelineAssumption DEF Refreshes
    <3>2. job.rev \in Nat /\ released \in Nat
      BY <1>1 DEF Jobs, NoJob, TypeOK
    <3>3. ASSUME NEW rev \in Nat, Covers(refresh.by, rev)
          PROVE  \A c \in 1 .. Main' : log'[c].by = refresh.by => c <= rev
      <4>1. PICK w \in Workflows : w = refresh.by
        BY <3>1
      <4>. QED  BY <2>2, <3>1, <3>3, <4>1, CoversAfterPush DEF Covers
    <3>. QED  BY <2>2, <3>1, <3>2, <3>3 DEF WatchedCovers, RefreshAt, Covers
  <2>. QED  BY <1>1, <2>3, <2>4
<1>13. CASE StartChild
  <2>1. refresh'.step = "wait" /\ refresh'.by = refresh.by
    BY <1>13 DEF StartChild, RefreshTo, Refresh
  <2>2. job'.watched = TRUE /\ job'.rev = refresh.expected /\ Covers(refresh.by, refresh.expected)
    BY <1>13 DEF StartChild, WatchedCovers
  <2>. QED  BY <1>13, <2>1, <2>2 DEF StartChild, WatchedCovers, RefreshAt, Covers, Main
<1>14. CASE \E i \in DOMAIN queue : StartJob(i)
  <2>1. job'.watched = FALSE /\ job = NoJob /\ UNCHANGED <<log, refresh, released>>
    BY <1>14 DEF StartJob
  <2>. QED  BY <2>1 DEF NoJob, WatchedCovers, RefreshAt, Covers, Main
<1>15. ASSUME NEW step \in {"check", "manifest", "upload"}, JobTo(step), ~JobAt("idle"),
              UNCHANGED <<log, refresh, released>>
       PROVE  WatchedCovers'
  BY <1>15, JobToTyped DEF WatchedCovers, RefreshAt, Covers, Main
<1>16. CASE Test
  BY <1>15, <1>16 DEF Test, JobAt
<1>17. CASE CheckHead
  <2>1. CASE EndJob(FALSE)
    <3>1. ~JobAt("idle") /\ UNCHANGED <<log, released>> /\ released <= released'
      BY <1>1, <1>17 DEF CheckHead, JobAt
    <3>. QED  BY <1>1, <2>1, <3>1, WatchedCoversEndJob
  <2>. QED  BY <1>15, <1>17, <2>1 DEF CheckHead, JobAt
<1>18. CASE ReadManifest
  <2>1. CASE Vouch(job.rev) /\ EndJob(TRUE)
    <3>1. ~JobAt("idle") /\ job.rev \in 1 .. Main
      BY <1>18, ActiveJob DEF ReadManifest, JobAt
    <3>. QED  BY <1>18, <2>1, <3>1, VouchTyped, WatchedCoversEndJob DEF ReadManifest
  <2>. QED  BY <1>15, <1>18, <2>1 DEF ReadManifest, JobAt
<1>19. CASE Upload
  <2>1. ~JobAt("idle") /\ job.rev \in 1 .. Main
    BY <1>19, ActiveJob DEF Upload, JobAt
  <2>2. released' \in 1 .. Main /\ released <= released' /\ job.rev <= released' /\ log' = log
    BY <1>19, <2>1, VouchTyped DEF Upload
  <2>3. CASE EndJob(TRUE)
    BY <2>1, <2>2, <2>3, WatchedCoversEndJob
  <2>4. CASE UNCHANGED <<job, refresh>>
    <3>1. released \in Nat /\ released' \in Nat
      BY <1>1, <2>2 DEF TypeOK
    <3>2. Covers(refresh.by, released) => Covers(refresh.by, released')
      BY <2>2, <3>1, CoversMore
    <3>. QED  BY <2>2, <2>4, <3>2 DEF WatchedCovers, RefreshAt, Covers, Main
  <2>. QED  BY <1>19, <2>3, <2>4 DEF Upload
<1>20. CASE FailJob
  <2>1. ~JobAt("idle")
    BY <1>1, <1>20 DEF FailJob, Jobs, JobAt
  <2>2. EndJob(FALSE) /\ UNCHANGED <<log, released>>
    BY <1>20 DEF FailJob
  <2>3. released <= released'
    BY <1>1, <2>2
  <2>. QED  BY <1>1, <2>1, <2>2, <2>3, WatchedCoversEndJob
<1>. QED  BY <1>3, <1>4, <1>5, <1>6, <1>7, <1>8, <1>9, <1>10, <1>11, <1>12, <1>13, <1>14, <1>16,
             <1>17, <1>18, <1>19, <1>20 DEF Next, RefreshStep, JobStep

-----------------------------------------------------------------------------
(* An unpublished data commit is flagged, or its refresh goes on to flag it. *)

\* Every step keeps a data commit of a workflow flagged or owed until a
\* publisher has vouched for it; and no stall issue is closed before.
LEMMA FlaggedOrOwingStep ==
  ASSUME TypeOK, WatchedCovers, FlaggedOrOwing, [Next]_vars
  PROVE  FlaggedOrOwing' /\ \A w \in stalled \ stalled' : Unreleased(w) = {}
<1>1. /\ Main \in Nat \ {0} /\ released \in 1 .. Main /\ stalled \subseteq Workflows
      /\ None \notin Workflows /\ People \notin Workflows
      /\ refresh \in Refreshes \cup {NoRefresh}
  BY LenProperties, PipelineAssumption DEF TypeOK, Main
<1>2. ASSUME UNCHANGED <<log, released, stalled, lost>>,
             \A w \in Workflows : Owing(w) => Owing(w)'
      PROVE  FlaggedOrOwing' /\ \A w \in stalled \ stalled' : Unreleased(w) = {}
  BY <1>2 DEF FlaggedOrOwing, Unreleased, Main
<1>3. CASE UNCHANGED vars
  BY <1>2, <1>3 DEF vars, Owing, RefreshAt
<1>4. CASE \E w \in Workflows : StartRefresh(w)
  <2>1. \A w \in Workflows : ~Owing(w)
    BY <1>4 DEF StartRefresh, NoRefresh, Refresh, Owing, RefreshAt
  <2>. QED  BY <1>2, <1>4, <2>1 DEF StartRefresh
<1>5. CASE PassGate
  <2>1. \A w \in Workflows : ~Owing(w)
    BY <1>5 DEF PassGate, Owing, RefreshAt
  <2>. QED  BY <1>2, <1>5, <2>1 DEF PassGate
<1>6. CASE Dispatch \/ GiveUp
  <2>1. refresh'.by = refresh.by /\ refresh'.step \in {"queued", "failed"}
    BY <1>6 DEF Dispatch, GiveUp, RefreshTo, Refresh
  <2>2. UNCHANGED <<log, released, stalled, lost>>
    BY <1>6 DEF Dispatch, GiveUp
  <2>3. \A w \in Workflows : Owing(w) => Owing(w)'
    BY <2>1 DEF Owing
  <2>. QED  BY <1>2, <2>2, <2>3
<1>7. CASE Decide
  <2>1. \A w \in Workflows : Owing(w) => Owing(w)'
    <3>1. SUFFICES ASSUME NEW w \in Workflows, Owing(w) PROVE Owing(w)'
      OBVIOUS
    <3>2. refresh.by = w /\ refresh.data
      BY <1>7, <3>1 DEF Decide, Owing, RefreshAt
    <3>3. refresh'.by = w /\ refresh'.step = "dispatch"
      BY <1>7, <3>2 DEF Decide, Needed, Refresh
    <3>. QED  BY <3>3 DEF Owing
  <2>. QED  BY <1>2, <1>7, <2>1 DEF Decide
<1>8. CASE ClearBeacon
  <2>1. \A w \in Workflows : ~Owing(w)
    BY <1>8 DEF ClearBeacon, Owing, RefreshAt
  <2>2. Unreleased(refresh.by) = {}
    BY <1>1, <1>8 DEF ClearBeacon, WatchedCovers, RefreshAt, Covers, Unreleased
  <2>3. \A w \in Workflows : Unreleased(w)' = Unreleased(w)
    BY <1>8 DEF ClearBeacon, Unreleased, Main
  <2>. QED  BY <1>1, <1>8, <2>1, <2>2, <2>3 DEF ClearBeacon, FlaggedOrOwing
<1>9. CASE RaiseBeacon
  <2>1. \A w \in Workflows : Owing(w) => w = refresh.by
    BY DEF Owing
  <2>2. refresh.by \in stalled' \cup lost' /\ stalled \cup lost \subseteq stalled' \cup lost'
        /\ stalled \subseteq stalled'
    BY <1>9 DEF RaiseBeacon
  <2>3. \A w \in Workflows : Unreleased(w)' = Unreleased(w)
    BY <1>9 DEF RaiseBeacon, Unreleased, Main
  <2>. QED  BY <2>1, <2>2, <2>3 DEF FlaggedOrOwing
<1>10. CASE PublishByHand
  BY <1>2, <1>10 DEF PublishByHand, Owing, RefreshAt
<1>11. CASE \E content \in Contents, listed \in BOOLEAN : PushByPeople(content, listed)
  <2>1. PICK content \in Contents, listed \in BOOLEAN : PushByPeople(content, listed)
    BY <1>11
  <2>. DEFINE commit == [content |-> content, by |-> People, data |-> listed]
  <2>2. /\ commit \in Commits /\ log' = Append(log, commit)
        /\ UNCHANGED <<refresh, released, stalled, lost>>
    BY <2>1 DEF PushByPeople, Commits
  <2>3. /\ Main' = Main + 1 /\ log'[Main + 1].by = People
        /\ \A c \in 1 .. Main : log'[c] = log[c]
    <3>1. /\ Main' = Main + 1 /\ log'[Main + 1] = commit
          /\ \A c \in 1 .. Main : log'[c] = log[c]
      BY <2>2, Pushed DEF TypeOK
    <3>. QED  BY <3>1
  <2>4. ASSUME NEW w \in Workflows, NEW c \in Unreleased(w)' PROVE c \in Unreleased(w)
    <3>1. c \in 1 .. Main' /\ log'[c].by = w /\ log'[c].data /\ c > released
      BY <2>2, <2>4 DEF Unreleased
    <3>2. c # Main + 1
      BY <1>1, <2>3, <2>4, <3>1
    <3>3. c \in 1 .. Main
      BY <1>1, <2>3, <3>1, <3>2
    <3>. QED  BY <2>3, <3>1, <3>3 DEF Unreleased
  <2>5. \A w \in Workflows : Owing(w)' = Owing(w)
    BY <2>2 DEF Owing, RefreshAt
  <2>. QED  BY <2>2, <2>4, <2>5 DEF FlaggedOrOwing
<1>12. CASE Push
  <2>1. refresh \in Refreshes /\ refresh.by \in Workflows
    BY <1>12, ActiveRefresh DEF Push, RefreshAt
  <2>2. UNCHANGED <<released, stalled, lost>> /\ \A w \in Workflows : ~Owing(w)
    BY <1>12 DEF Push, Owing, RefreshAt
  <2>3. CASE UNCHANGED log
    BY <1>2, <2>2, <2>3
  <2>4. CASE ~UNCHANGED log
    <3>. DEFINE commit == [content |-> refresh.content, by |-> refresh.by, data |-> refresh.data]
    <3>1. /\ log' = Append(log, commit)
          /\ refresh' = Refresh(refresh.by, "decide", 0, None, Main + 1, refresh.data)
      BY <1>12, <2>4 DEF Push
    <3>2. commit \in Commits
      BY <1>12, <2>1 DEF Push, RefreshAt, Commits, Refreshes, TypeOK
    <3>3. /\ Main' = Main + 1 /\ log'[Main + 1] = commit
          /\ \A c \in 1 .. Main : log'[c] = log[c]
      BY <3>1, <3>2, Pushed DEF TypeOK
    <3>4. ASSUME NEW w \in Workflows, ~Owing(w)', NEW c \in Unreleased(w)' PROVE c \in Unreleased(w)
      <4>1. c \in 1 .. Main' /\ log'[c].by = w /\ log'[c].data /\ c > released
        BY <2>2, <3>4 DEF Unreleased
      <4>2. ~(refresh.by = w /\ refresh.data)
        BY <3>1, <3>4 DEF Owing, RefreshAt, Refresh
      <4>3. c # Main + 1
        BY <3>3, <4>1, <4>2
      <4>4. c \in 1 .. Main
        BY <1>1, <3>3, <4>1, <4>3
      <4>. QED  BY <3>3, <4>1, <4>4 DEF Unreleased
    <3>. QED  BY <2>2, <3>4 DEF FlaggedOrOwing
  <2>. QED  BY <2>3, <2>4
<1>13. CASE StartChild
  <2>1. refresh'.by = refresh.by /\ refresh'.step = "wait"
    BY <1>13 DEF StartChild, RefreshTo, Refresh
  <2>2. \A w \in Workflows : Owing(w) => Owing(w)'
    BY <2>1 DEF Owing
  <2>. QED  BY <1>2, <1>13, <2>2 DEF StartChild
<1>14. CASE (\E i \in DOMAIN queue : StartJob(i)) \/ Test
  <2>1. UNCHANGED <<log, released, stalled, lost, refresh>>
    BY <1>14 DEF StartJob, Test
  <2>2. \A w \in Workflows : Owing(w) => Owing(w)'
    BY <2>1 DEF Owing, RefreshAt
  <2>. QED  BY <1>2, <2>1, <2>2
<1>15. CASE CheckHead \/ ReadManifest \/ Upload \/ FailJob
  <2>1. UNCHANGED <<log, stalled, lost>> /\ WatchedCovers' /\ released' \in 1 .. Main /\ released <= released'
    <3>1. UNCHANGED <<log, stalled, lost>>
      BY <1>15 DEF CheckHead, ReadManifest, Upload, FailJob
    <3>2. CASE UNCHANGED released
      BY <1>1, <3>1, <3>2, WatchedCoversStep
    <3>3. CASE (ReadManifest /\ Vouch(job.rev)) \/ Upload
      <4>1. job.rev \in 1 .. Main /\ Vouch(job.rev)
        BY <3>3, ActiveJob DEF ReadManifest, Upload, JobAt
      <4>. QED  BY <3>1, <4>1, VouchTyped, WatchedCoversStep
    <3>. QED  BY <1>15, <3>2, <3>3 DEF CheckHead, ReadManifest, FailJob
  <2>2. \A w \in Workflows : Unreleased(w)' \subseteq Unreleased(w)
    BY <1>1, <2>1 DEF Unreleased, Main
  <2>3. /\ UNCHANGED refresh
        \/ /\ refresh'.by = refresh.by /\ refresh'.step \in {"clear", "failed"}
    BY <1>15 DEF CheckHead, ReadManifest, Upload, FailJob, EndJob, RefreshTo, Refresh
  <2>4. ASSUME NEW w \in Workflows, Unreleased(w)' # {}, Owing(w) PROVE Owing(w)'
    <3>1. CASE UNCHANGED refresh
      BY <2>4, <3>1 DEF Owing, RefreshAt
    <3>2. CASE refresh'.by = refresh.by /\ refresh'.step = "failed"
      BY <2>4, <3>2 DEF Owing
    <3>3. CASE refresh'.by = refresh.by /\ refresh'.step = "clear"
      <4>1. \A c \in 1 .. Main' : log'[c].by = w => c <= released'
        BY <2>1, <2>4, <3>3 DEF WatchedCovers, RefreshAt, Covers, Owing
      <4>2. Unreleased(w)' = {}
        BY <1>1, <2>1, <4>1 DEF Unreleased, Main
      <4>. QED  BY <2>4, <4>2
    <3>. QED  BY <2>3, <3>1, <3>2, <3>3
  <2>. QED  BY <2>1, <2>2, <2>4 DEF FlaggedOrOwing
<1>. QED  BY <1>3, <1>4, <1>5, <1>6, <1>7, <1>8, <1>9, <1>10, <1>11, <1>12, <1>13, <1>14, <1>15
          DEF Next, RefreshStep, JobStep

-----------------------------------------------------------------------------
(* The theorems.                                                           *)

\* The inductive invariant: types, the order of what is published, what the
\* refreshes wait for, and who still owes a publish or an issue.
IInv == TypeOK /\ PublishedInOrder /\ WatchedCovers /\ FlaggedOrOwing

\* The inductive invariant holds in the first state.
LEMMA InitIInv == Init => IInv
<1> SUFFICES ASSUME Init PROVE IInv
  OBVIOUS
<1>1. /\ Main = 1 /\ log[1] = [content |-> Initial, by |-> People, data |-> TRUE]
      /\ dataset = [rev |-> 1, content |-> Initial] /\ released = 1
      /\ refresh = NoRefresh /\ job = NoJob
  BY DEF Init, Main
<1>2. PublishedInOrder
  BY <1>1 DEF PublishedInOrder, NoJob
<1>3. WatchedCovers
  BY <1>1 DEF WatchedCovers, RefreshAt, NoRefresh, Refresh, NoJob
<1>4. FlaggedOrOwing
  BY <1>1 DEF FlaggedOrOwing, Unreleased
<1>. QED  BY <1>2, <1>3, <1>4, InitTyped DEF IInv

\* Every step keeps the inductive invariant.
LEMMA StepIInv == IInv /\ [Next]_vars => IInv'
BY StepTyped, PublishedInOrderStep, WatchedCoversStep, FlaggedOrOwingStep DEF IInv

\* The inductive invariant holds in every reachable state: of the commits,
\* publishers and refreshes, for any number of them and of failures.
THEOREM Invariance == Spec => []IInv
BY InitIInv, StepIInv, PTL DEF Spec

\* Every reachable state is well typed; in particular a dispatched publish
\* always names a commit that main has.
THEOREM TypeCorrect == Spec => []TypeOK
BY Invariance, PTL DEF IInv

\* No delayed, retried or duplicated publish puts an older commit over a newer.
THEOREM NeverRollsBackHolds == Spec => NeverRollsBack
<1>1. IInv /\ [Next]_vars => [dataset.rev <= dataset'.rev]_vars
  BY PublishedInOrderStep DEF IInv
<1>. QED  BY <1>1, Invariance, PTL DEF Spec, NeverRollsBack

\* Whatever a publisher vouched for, uploaded or skipped, is what consumers read.
THEOREM DatasetIsReleasedHolds == Spec => []DatasetIsReleased
<1>1. IInv => DatasetIsReleased
  BY DEF IInv, PublishedInOrder, DatasetIsReleased
<1>. QED  BY <1>1, Invariance, PTL

\* A data commit that consumers cannot see has an open stall issue, a refresh
\* that goes on to open one, or an issue that could not be opened.
THEOREM StallIsFlaggedHolds == Spec => []StallIsFlagged
<1>1. IInv => StallIsFlagged
  BY DEF IInv, FlaggedOrOwing, Owing, StallIsFlagged
<1>. QED  BY <1>1, Invariance, PTL

\* No stall issue is closed before everything its workflow committed is
\* published.
THEOREM ClearedMeansReleasedHolds == Spec => ClearedMeansReleased
<1>1. IInv /\ [Next]_vars => [\A w \in stalled \ stalled' : Unreleased(w) = {}]_vars
  BY FlaggedOrOwingStep DEF IInv
<1>. QED  BY <1>1, Invariance, PTL DEF Spec, ClearedMeansReleased

-----------------------------------------------------------------------------
(* The tables: types, the index that never goes back, and that what is on   *)
(* the Hub or served is closed and keeps what was recorded.                 *)
(* The tables commands upload.                                              *)
Data == {"canonical_models", "aliases", "eval_results"}

(* What may be left of a load by a command, by the Space, and of a push.    *)
LoadLeft == {TABLE_NAMES, <<"aliases", "eval_results", "hub_stats_index">>,
             <<"eval_results", "hub_stats_index">>, <<"hub_stats_index">>}
SpaceLeft == {QUERY_TABLE_NAMES, <<"aliases", "hub_stats_index">>, <<"hub_stats_index">>}
PushLeft == {PUSHED_NAMES, <<"aliases", "eval_results">>, <<"eval_results">>}
LeftOK ==
  /\ \A p \in Writers : /\ pc[p] = "load" => left[p] \in LoadLeft
                        /\ pc[p] = "push" => left[p] \in PushLeft
  /\ pc[Space] = "load" => left[Space] \in SpaceLeft

IndexOne == \E v \in Indexes : hub["hub_stats_index"] = {v}

(* Commands that do not overlap: one is under way at most.                  *)
Alone ==
  ~overlapped => \A p, q \in Writers : pc[p] # "idle" /\ pc[q] # "idle" => p = q

AddedLate == \A p \in Writers : pc[p] \in {"idle", "load", "work"} => added[p] = {}

Closed(tables) == /\ tables["aliases"] \subseteq tables["canonical_models"]
                  /\ tables["eval_results"] \subseteq tables["canonical_models"]
HubWhole == Closed(hub) /\ \A t \in Data : acked \subseteq hub[t]

(* What a load has read is still what the Hub holds.                        *)
ReadSoFar(p, n) ==
  /\ Len(left[p]) < n => mem[p]["canonical_models"] = hub["canonical_models"]
  /\ Len(left[p]) < n - 1 => mem[p]["aliases"] = hub["aliases"]
  /\ Len(left[p]) < n - 2 => mem[p]["eval_results"] = hub["eval_results"]

(* What a push has not uploaded yet extends what the Hub holds.             *)
PushedSoFar(p) ==
  /\ Closed(mem[p])
  /\ \A t \in Data : hub[t] \subseteq mem[p][t] /\ added[p] \subseteq mem[p][t]
  /\ Len(left[p]) < 3 => hub["canonical_models"] = mem[p]["canonical_models"]
  /\ Len(left[p]) < 2 => hub["aliases"] = mem[p]["aliases"]

CommandOK(p) ==
  /\ pc[p] = "load" => ReadSoFar(p, 4)
  /\ pc[p] = "work" => \A t \in Data : mem[p][t] = hub[t]
  /\ pc[p] = "push" => PushedSoFar(p)

SpaceOK ==
  ~torn /\ Space \notin hiccup =>
    /\ pc[Space] = "load" =>
         /\ Len(left[Space]) < 3 => mem[Space]["canonical_models"] = hub["canonical_models"]
         /\ Len(left[Space]) < 2 => mem[Space]["aliases"] = hub["aliases"]
    /\ pc[Space] = "serve" => mem[Space]["aliases"] \subseteq mem[Space]["canonical_models"]

WholeInv ==
  Undisturbed => HubWhole /\ SpaceOK /\ \A p \in Writers \ hiccup : CommandOK(p)

TablesInv == TablesTypeOK /\ LeftOK /\ IndexOne /\ Alone /\ AddedLate /\ WholeInv

-----------------------------------------------------------------------------
(* The tables by name.                                                      *)
LEMMA TableNames ==
  /\ Tables = {"canonical_models", "aliases", "eval_results", "hub_stats_index"}
  /\ Data \subseteq Tables /\ Tables \ Data = {"hub_stats_index"}
BY DEF Tables, TABLE_NAMES, Data

(* The short sequences loads and pushes consist of.                         *)
LEMMA Tuples ==
  ASSUME NEW S, NEW a \in S, NEW b \in S, NEW c \in S, NEW d \in S
  PROVE  /\ <<a>> \in Seq(S) /\ Len(<<a>>) = 1 /\ Head(<<a>>) = a /\ Tail(<<a>>) = <<>>
         /\ <<a, b>> \in Seq(S) /\ Len(<<a, b>>) = 2 /\ Head(<<a, b>>) = a /\ Tail(<<a, b>>) = <<b>>
         /\ <<a, b, c>> \in Seq(S) /\ Len(<<a, b, c>>) = 3
         /\ Head(<<a, b, c>>) = a /\ Tail(<<a, b, c>>) = <<b, c>>
         /\ <<a, b, c, d>> \in Seq(S) /\ Len(<<a, b, c, d>>) = 4
         /\ Head(<<a, b, c, d>>) = a /\ Tail(<<a, b, c, d>>) = <<b, c, d>>
         /\ Len(<<>>) = 0
OBVIOUS

(* Loads and pushes take the tables one by one, and no push the index.      *)
LEMMA LoadSteps ==
  ASSUME NEW s \in LoadLeft
  PROVE  /\ s \in Seq(Tables) /\ s # <<>> /\ Len(s) \in 1 .. 4 /\ Len(Tail(s)) = Len(s) - 1
         /\ Len(s) > 1 => Tail(s) \in LoadLeft
         /\ Head(s) = IF Len(s) = 4 THEN "canonical_models" ELSE IF Len(s) = 3 THEN "aliases"
                      ELSE IF Len(s) = 2 THEN "eval_results" ELSE "hub_stats_index"
<1> DEFINE m == "canonical_models"
           a == "aliases"
           e == "eval_results"
           i == "hub_stats_index"
<1>1. m \in Tables /\ a \in Tables /\ e \in Tables /\ i \in Tables
  BY TableNames
<1>2. CASE s = <<m, a, e, i>>
  BY <1>1, <1>2, Tuples DEF LoadLeft, TABLE_NAMES
<1>3. CASE s = <<a, e, i>>
  BY <1>1, <1>3, Tuples DEF LoadLeft, TABLE_NAMES
<1>4. CASE s = <<e, i>>
  BY <1>1, <1>4, Tuples DEF LoadLeft, TABLE_NAMES
<1>5. CASE s = <<i>>
  BY <1>1, <1>5, Tuples DEF LoadLeft, TABLE_NAMES
<1> QED BY <1>2, <1>3, <1>4, <1>5 DEF LoadLeft, TABLE_NAMES

(* The Space's load, likewise.                                              *)
LEMMA SpaceSteps ==
  ASSUME NEW s \in SpaceLeft
  PROVE  /\ s \in Seq(Tables) /\ s # <<>> /\ Len(s) \in 1 .. 3 /\ Len(Tail(s)) = Len(s) - 1
         /\ Len(s) > 1 => Tail(s) \in SpaceLeft
         /\ Head(s) = IF Len(s) = 3 THEN "canonical_models" ELSE IF Len(s) = 2 THEN "aliases"
                      ELSE "hub_stats_index"
<1> DEFINE m == "canonical_models"
           a == "aliases"
           e == "eval_results"
           i == "hub_stats_index"
<1>1. m \in Tables /\ a \in Tables /\ e \in Tables /\ i \in Tables
  BY TableNames
<1>2. CASE s = <<m, a, i>>
  BY <1>1, <1>2, Tuples DEF SpaceLeft, QUERY_TABLE_NAMES
<1>3. CASE s = <<a, i>>
  BY <1>1, <1>3, Tuples DEF SpaceLeft, QUERY_TABLE_NAMES
<1>4. CASE s = <<i>>
  BY <1>1, <1>4, Tuples DEF SpaceLeft, QUERY_TABLE_NAMES
<1> QED BY <1>2, <1>3, <1>4 DEF SpaceLeft, QUERY_TABLE_NAMES

(* A push, likewise.                                                        *)
LEMMA PushSteps ==
  ASSUME NEW s \in PushLeft
  PROVE  /\ s \in Seq(Tables) /\ s # <<>> /\ Len(s) \in 1 .. 3 /\ Len(Tail(s)) = Len(s) - 1
         /\ Len(s) # 1 => Tail(s) \in PushLeft
         /\ Head(s) \in Data
         /\ Head(s) = IF Len(s) = 3 THEN "canonical_models" ELSE IF Len(s) = 2 THEN "aliases"
                      ELSE "eval_results"
<1> DEFINE m == "canonical_models"
           a == "aliases"
           e == "eval_results"
           i == "hub_stats_index"
<1>1. m \in Tables /\ a \in Tables /\ e \in Tables /\ i \in Tables
  BY TableNames
<1>2. CASE s = <<m, a, e>>
  BY <1>1, <1>2, Tuples DEF PushLeft, PUSHED_NAMES, Data
<1>3. CASE s = <<a, e>>
  BY <1>1, <1>3, Tuples DEF PushLeft, PUSHED_NAMES, Data
<1>4. CASE s = <<e>>
  BY <1>1, <1>4, Tuples DEF PushLeft, PUSHED_NAMES, Data
<1> QED BY <1>2, <1>3, <1>4 DEF PushLeft, PUSHED_NAMES, Data

(* The invariant holds of the dataset a first seed left behind.             *)
LEMMA InitHolds == TablesInit => TablesInv
<1> SUFFICES ASSUME TablesInit PROVE TablesInv
  OBVIOUS
<1> USE HubAssumption, TableNames DEF TablesInit
<1>1. TablesTypeOK
  <2>1. <<>> \in Seq(Tables) /\ 1 \in Indexes /\ Empty \in [Tables -> SUBSET (Rows \cup Indexes)]
    BY DEF Indexes, Empty
  <2>2. hub \in [Tables -> SUBSET (Rows \cup Indexes)]
    BY <2>1
  <2>3. left \in [Processes -> Seq(Tables)]
    BY <2>1
  <2>4. mem \in [Processes -> [Tables -> SUBSET (Rows \cup Indexes)]]
    BY <2>1
  <2>5. /\ pc \in [Processes -> {"idle", "load", "work", "push", "serve"}]
        /\ pc[Space] \in {"idle", "load", "serve"} /\ \A p \in Writers : pc[p] # "serve"
        /\ command \in [Processes -> {"sync", "seed", "serve"}]
        /\ added \in [Processes -> SUBSET Rows]
    BY DEF Processes
  <2>6. commands \in 0 .. MaxCommands /\ errors \in 0 .. MaxErrors
    OBVIOUS
  <2> QED BY <2>2, <2>3, <2>4, <2>5, <2>6 DEF TablesTypeOK
<1>2. LeftOK /\ Alone /\ AddedLate
  BY DEF LeftOK, Alone, AddedLate, Processes
<1>3. IndexOne
  BY DEF IndexOne, CRON_OWNED_TABLES, Indexes
<1>4. WholeInv
  BY DEF WholeInv, HubWhole, Closed, SpaceOK, CommandOK, Data, CRON_OWNED_TABLES, Processes
<1> QED BY <1>1, <1>2, <1>3, <1>4 DEF TablesInv

(* The sets a sync or a seed makes of the tables are rows.                  *)
LEMMA WorkType ==
  ASSUME TablesTypeOK, NEW p \in Writers, NEW rows \in SUBSET Rows
  PROVE  /\ Synced(mem[p], rows) \in [Tables -> SUBSET (Rows \cup Indexes)]
         /\ Seeded(mem[p]) \in [Tables -> SUBSET (Rows \cup Indexes)]
<1>1. mem[p] \in [Tables -> SUBSET (Rows \cup Indexes)]
  BY DEF TablesTypeOK, Processes
<1> QED BY <1>1, HubAssumption, TableNames DEF Synced, Seeded

(* Every action keeps the types.                                            *)
LEMMA TypeStep == TablesTypeOK /\ LeftOK /\ [TablesNext]_tableVars => TablesTypeOK'
<1> SUFFICES ASSUME TablesTypeOK, LeftOK, [TablesNext]_tableVars PROVE TablesTypeOK'
  OBVIOUS
<1> DEFINE Content == [Tables -> SUBSET (Rows \cup Indexes)]
<1>1. /\ <<>> \in Seq(Tables) /\ Empty \in Content
      /\ TABLE_NAMES \in Seq(Tables) /\ QUERY_TABLE_NAMES \in Seq(Tables)
      /\ PUSHED_NAMES \in Seq(Tables)
  BY TableNames DEF Empty, TABLE_NAMES, QUERY_TABLE_NAMES, PUSHED_NAMES
<1>2. Space \in Processes /\ Writers \subseteq Processes /\ Space \notin Writers
  BY HubAssumption DEF Processes
<1>3. ASSUME NEW p \in Writers, NEW c \in {"sync", "seed"}, StartCommand(p, c) PROVE TablesTypeOK'
  BY <1>1, <1>2, <1>3, HubAssumption DEF StartCommand, TablesTypeOK
<1>4. ASSUME NEW p \in Processes, LoadTable(p) PROVE TablesTypeOK'
  <2>1. Head(left[p]) \in Tables /\ Tail(left[p]) \in Seq(Tables)
    BY <1>4, HeadTailProperties DEF LoadTable, TablesTypeOK
  <2>2. PICK failed \in BOOLEAN :
          /\ errors' = errors + (IF failed THEN 1 ELSE 0)
          /\ errors' <= MaxErrors
          /\ mem' = [mem EXCEPT ![p][Head(left[p])] = IF failed THEN {} ELSE hub[Head(left[p])]]
          /\ hiccup' = IF failed THEN hiccup \cup {p} ELSE hiccup
    BY <1>4 DEF LoadTable
  <2>3. errors' \in 0 .. MaxErrors
    BY <2>2, HubAssumption DEF TablesTypeOK
  <2>4. mem' \in [Processes -> Content]
    BY <2>1, <2>2 DEF TablesTypeOK
  <2>5. left' \in [Processes -> Seq(Tables)]
    BY <1>4, <2>1 DEF LoadTable, TablesTypeOK
  <2>6. /\ pc' \in [Processes -> {"idle", "load", "work", "push", "serve"}]
        /\ pc'[Space] \in {"idle", "load", "serve"} /\ \A q \in Writers : pc'[q] # "serve"
    BY <1>2, <1>4 DEF LoadTable, Loaded, TablesTypeOK
  <2> QED BY <1>4, <2>2, <2>3, <2>4, <2>5, <2>6 DEF LoadTable, TablesTypeOK
<1>5. ASSUME NEW p \in Writers, RunSync(p) PROVE TablesTypeOK'
  <2>1. PICK rows \in SUBSET Rows : /\ mem' = [mem EXCEPT ![p] = Synced(@, rows)]
                                   /\ added' = [added EXCEPT ![p] = rows]
    BY <1>5 DEF RunSync
  <2>2. mem' \in [Processes -> Content] /\ added' \in [Processes -> SUBSET Rows]
    BY <1>2, <2>1, WorkType DEF TablesTypeOK
  <2> QED BY <1>1, <1>2, <1>5, <2>2 DEF RunSync, StartPush, TablesTypeOK, history
<1>6. ASSUME NEW p \in Writers, RunSeed(p) PROVE TablesTypeOK'
  <2>1. mem' \in [Processes -> Content]
    BY <1>2, <1>6, WorkType DEF RunSeed, TablesTypeOK
  <2> QED BY <1>1, <1>2, <1>6, <2>1 DEF RunSeed, StartPush, TablesTypeOK, history
<1>7. ASSUME NEW p \in Writers, PushTable(p) PROVE TablesTypeOK'
  <2>1. Head(left[p]) \in Tables /\ Tail(left[p]) \in Seq(Tables)
    BY <1>2, <1>7, HeadTailProperties DEF PushTable, TablesTypeOK
  <2>2. hub' \in Content
    BY <1>2, <1>7, <2>1 DEF PushTable, TablesTypeOK
  <2>3. left' \in [Processes -> Seq(Tables)]
    BY <1>2, <1>7, <2>1 DEF PushTable, EndOfUpload, TablesTypeOK
  <2>4. /\ pc' \in [Processes -> {"idle", "load", "work", "push", "serve"}]
        /\ pc'[Space] \in {"idle", "load", "serve"} /\ \A q \in Writers : pc'[q] # "serve"
    <3>1. pc' = pc \/ pc' = [pc EXCEPT ![p] = "idle"]
      BY <1>7 DEF PushTable, EndOfUpload
    <3> QED BY <1>2, <3>1 DEF TablesTypeOK
  <2>5. mem' \in [Processes -> Content] /\ added' \in [Processes -> SUBSET Rows] /\ acked' \subseteq Rows
    <3>1. CASE Len(left[p]) = 1
      <4>1. mem' = [mem EXCEPT ![p] = Empty] /\ added' = [added EXCEPT ![p] = {}]
            /\ acked' = acked \cup added[p]
        BY <1>7, <3>1 DEF PushTable, EndOfUpload
      <4>2. mem' \in [Processes -> Content]
        BY <1>1, <4>1 DEF TablesTypeOK
      <4> QED BY <1>2, <4>1, <4>2 DEF TablesTypeOK
    <3>2. CASE Len(left[p]) # 1
      BY <1>7, <3>2 DEF PushTable, EndOfUpload, TablesTypeOK
    <3> QED BY <3>1, <3>2
  <2>6. emptied' \in BOOLEAN /\ torn' \in BOOLEAN
    BY <1>7 DEF PushTable, EndOfUpload, TablesTypeOK
  <2> QED BY <1>7, <2>2, <2>3, <2>4, <2>5, <2>6 DEF PushTable, EndOfUpload, TablesTypeOK
<1>8. ASSUME NEW p \in Processes, Crash(p) PROVE TablesTypeOK'
  BY <1>1, <1>2, <1>8 DEF Crash, TablesTypeOK, history
<1>9. CASE StartSpace
  BY <1>1, <1>2, <1>9 DEF StartSpace, TablesTypeOK
<1>10. CASE PublishIndex
  BY <1>10, TableNames DEF PublishIndex, TablesTypeOK, procs, history
<1>11. CASE UNCHANGED tableVars
  BY <1>11 DEF tableVars, procs, history, TablesTypeOK
<1> QED BY <1>2, <1>3, <1>4, <1>5, <1>6, <1>7, <1>8, <1>9, <1>10, <1>11 DEF TablesNext

(* Loads and pushes go on in their order, and nobody but the cron touches   *)
(* the index.                                                               *)
LEMMA LeftStep ==
  TablesTypeOK /\ LeftOK /\ IndexOne /\ [TablesNext]_tableVars => LeftOK' /\ IndexOne'
<1> SUFFICES ASSUME TablesTypeOK, LeftOK, IndexOne, [TablesNext]_tableVars PROVE LeftOK' /\ IndexOne'
  OBVIOUS
<1>1. Space \in Processes /\ Writers \subseteq Processes /\ Space \notin Writers
  BY HubAssumption DEF Processes
<1>2. TABLE_NAMES \in LoadLeft /\ QUERY_TABLE_NAMES \in SpaceLeft /\ PUSHED_NAMES \in PushLeft
  BY DEF LoadLeft, SpaceLeft, PushLeft
<1>i. hub' = hub => IndexOne'
  BY DEF IndexOne
<1>3. ASSUME NEW p \in Writers, NEW c \in {"sync", "seed"}, StartCommand(p, c)
      PROVE  LeftOK' /\ IndexOne'
  BY <1>1, <1>2, <1>i, <1>3 DEF StartCommand, TablesTypeOK, LeftOK
<1>4. ASSUME NEW p \in Processes, LoadTable(p) PROVE LeftOK' /\ IndexOne'
  <2>1. /\ pc[p] = "load" /\ left'[p] = Tail(left[p]) /\ hub' = hub
        /\ pc'[p] = IF Len(left[p]) > 1 THEN "load" ELSE IF p = Space THEN "serve" ELSE "work"
        /\ \A q \in Processes \ {p} : left'[q] = left[q] /\ pc'[q] = pc[q]
    BY <1>4 DEF LoadTable, Loaded, TablesTypeOK
  <2>2. CASE p = Space
    <3>1. Len(left[p]) > 1 => Tail(left[p]) \in SpaceLeft
      BY <2>1, <2>2, SpaceSteps DEF LeftOK
    <3> QED BY <1>1, <1>i, <2>1, <2>2, <3>1 DEF LeftOK
  <2>3. CASE p \in Writers
    <3>1. Len(left[p]) > 1 => Tail(left[p]) \in LoadLeft
      BY <2>1, <2>3, LoadSteps DEF LeftOK
    <3> QED BY <1>1, <1>i, <2>1, <2>3, <3>1 DEF LeftOK
  <2> QED BY <2>2, <2>3 DEF Processes
<1>5. ASSUME NEW p \in Writers, RunSync(p) \/ RunSeed(p) PROVE LeftOK' /\ IndexOne'
  <2>1. /\ pc'[p] = "push" /\ left'[p] = PUSHED_NAMES /\ hub' = hub
        /\ \A q \in Processes \ {p} : left'[q] = left[q] /\ pc'[q] = pc[q]
    BY <1>1, <1>5 DEF RunSync, RunSeed, StartPush, TablesTypeOK
  <2> QED BY <1>1, <1>2, <1>i, <2>1 DEF LeftOK
<1>6. ASSUME NEW p \in Writers, PushTable(p) PROVE LeftOK' /\ IndexOne'
  <2>1. /\ pc[p] = "push" /\ left'[p] = Tail(left[p]) /\ left[p] \in PushLeft
        /\ pc'[p] = IF Len(left[p]) = 1 THEN "idle" ELSE "push"
        /\ \A q \in Processes \ {p} : left'[q] = left[q] /\ pc'[q] = pc[q]
    BY <1>1, <1>6 DEF PushTable, EndOfUpload, TablesTypeOK, LeftOK
  <2>2. LeftOK'
    <3>1. Len(left[p]) # 1 => Tail(left[p]) \in PushLeft
      BY <2>1, PushSteps
    <3> QED BY <1>1, <2>1, <3>1 DEF LeftOK
  <2>3. hub'["hub_stats_index"] = hub["hub_stats_index"]
    <3>1. Head(left[p]) # "hub_stats_index"
      BY <2>1, PushSteps DEF Data
    <3> QED BY <1>6, <3>1, TableNames DEF PushTable, TablesTypeOK
  <2> QED BY <2>2, <2>3 DEF IndexOne
<1>7. ASSUME NEW p \in Processes, Crash(p) PROVE LeftOK' /\ IndexOne'
  <2>1. /\ pc'[p] = "idle" /\ hub' = hub
        /\ \A q \in Processes \ {p} : left'[q] = left[q] /\ pc'[q] = pc[q]
    BY <1>7 DEF Crash, TablesTypeOK
  <2> QED BY <1>1, <1>i, <2>1 DEF LeftOK
<1>8. CASE StartSpace
  BY <1>1, <1>2, <1>i, <1>8 DEF StartSpace, TablesTypeOK, LeftOK
<1>9. CASE PublishIndex
  <2>1. IndexOne'
    BY <1>9, TableNames DEF PublishIndex, TablesTypeOK, IndexOne
  <2>2. pc' = pc /\ left' = left
    BY <1>9 DEF PublishIndex, procs
  <2> QED BY <2>1, <2>2 DEF LeftOK
<1>10. CASE UNCHANGED tableVars
  BY <1>i, <1>10 DEF tableVars, procs, LeftOK
<1> QED BY <1>1, <1>3, <1>4, <1>5, <1>6, <1>7, <1>8, <1>9, <1>10 DEF TablesNext

(* A command that starts beside another is noted; only a sync's work gives  *)
(* a command rows to record.                                                *)
LEMMA AloneStep ==
  TablesTypeOK /\ Alone /\ AddedLate /\ [TablesNext]_tableVars => Alone' /\ AddedLate'
<1> SUFFICES ASSUME TablesTypeOK, Alone, AddedLate, [TablesNext]_tableVars PROVE Alone' /\ AddedLate'
  OBVIOUS
<1>1. Space \in Processes /\ Writers \subseteq Processes /\ Space \notin Writers
  BY HubAssumption DEF Processes
<1>2. ASSUME overlapped' = overlapped, \A q \in Writers : pc'[q] # "idle" => pc[q] # "idle"
      PROVE  Alone'
  BY <1>2 DEF Alone
<1>3. ASSUME NEW p \in Writers, NEW c \in {"sync", "seed"}, StartCommand(p, c)
      PROVE  Alone' /\ AddedLate'
  <2>1. /\ overlapped' = (overlapped \/ \E q \in Writers \ {p} : pc[q] # "idle")
        /\ added'[p] = {}
        /\ \A q \in Writers \ {p} : pc'[q] = pc[q] /\ added'[q] = added[q]
    BY <1>1, <1>3 DEF StartCommand, TablesTypeOK
  <2>2. Alone'
    <3>1. SUFFICES ASSUME ~overlapped', NEW q \in Writers, pc'[q] # "idle" PROVE q = p
      BY DEF Alone
    <3> QED BY <2>1, <3>1
  <2> QED BY <2>1, <2>2 DEF AddedLate
<1>4. ASSUME NEW p \in Processes, LoadTable(p) PROVE Alone' /\ AddedLate'
  <2>1. /\ pc[p] = "load" /\ added' = added /\ overlapped' = overlapped
        /\ \A q \in Processes \ {p} : pc'[q] = pc[q]
    BY <1>4 DEF LoadTable, TablesTypeOK
  <2> QED BY <1>1, <1>2, <2>1 DEF AddedLate
<1>5. ASSUME NEW p \in Writers, RunSync(p) \/ RunSeed(p) PROVE Alone' /\ AddedLate'
  <2>1. /\ pc[p] = "work" /\ pc'[p] = "push" /\ overlapped' = overlapped
        /\ \A q \in Processes \ {p} : pc'[q] = pc[q] /\ added'[q] = added[q]
    BY <1>1, <1>5 DEF RunSync, RunSeed, StartPush, TablesTypeOK, history
  <2> QED BY <1>1, <1>2, <2>1 DEF AddedLate
<1>6. ASSUME NEW p \in Writers, PushTable(p) PROVE Alone' /\ AddedLate'
  <2>1. pc[p] = "push" /\ overlapped' = overlapped
    BY <1>6 DEF PushTable, EndOfUpload
  <2>2. \A q \in Processes \ {p} : pc'[q] = pc[q] /\ added'[q] = added[q]
    BY <1>6 DEF PushTable, EndOfUpload, TablesTypeOK
  <2>3. pc'[p] = "push" \/ (pc'[p] = "idle" /\ added'[p] = {})
    BY <1>1, <1>6 DEF PushTable, EndOfUpload, TablesTypeOK
  <2> QED BY <1>1, <1>2, <2>1, <2>2, <2>3 DEF AddedLate
<1>7. ASSUME NEW p \in Processes, Crash(p) PROVE Alone' /\ AddedLate'
  <2>1. /\ pc'[p] = "idle" /\ added'[p] = {} /\ overlapped' = overlapped
        /\ \A q \in Processes \ {p} : pc'[q] = pc[q] /\ added'[q] = added[q]
    BY <1>7 DEF Crash, TablesTypeOK, history
  <2> QED BY <1>1, <1>2, <2>1 DEF AddedLate
<1>8. CASE StartSpace
  <2>1. /\ added' = added /\ overlapped' = overlapped
        /\ \A q \in Writers : pc'[q] = pc[q]
    BY <1>1, <1>8 DEF StartSpace, TablesTypeOK
  <2> QED BY <1>2, <2>1 DEF AddedLate
<1>9. CASE PublishIndex \/ UNCHANGED tableVars
  <2>1. pc' = pc /\ added' = added /\ overlapped' = overlapped
    BY <1>9 DEF PublishIndex, procs, history, tableVars
  <2> QED BY <1>2, <2>1 DEF AddedLate
<1> QED BY <1>1, <1>3, <1>4, <1>5, <1>6, <1>7, <1>8, <1>9 DEF TablesNext

(* Once disturbed, the dataset stays so.                                    *)
LEMMA UndisturbedBefore == [TablesNext]_tableVars /\ Undisturbed' => Undisturbed
<1> SUFFICES ASSUME [TablesNext]_tableVars PROVE (overlapped => overlapped') /\ (emptied => emptied')
  BY DEF Undisturbed
<1>1. ASSUME NEW p \in Writers, NEW c \in {"sync", "seed"}, StartCommand(p, c)
      PROVE  (overlapped => overlapped') /\ (emptied => emptied')
  BY <1>1 DEF StartCommand
<1>2. ASSUME NEW p \in Writers, PushTable(p)
      PROVE  (overlapped => overlapped') /\ (emptied => emptied')
  BY <1>2 DEF PushTable, EndOfUpload
<1>3. ASSUME NEW p \in Processes, LoadTable(p) \/ Crash(p) \/ RunSync(p) \/ RunSeed(p)
      PROVE  overlapped' = overlapped /\ emptied' = emptied
  BY <1>3 DEF LoadTable, Crash, RunSync, RunSeed, history
<1>4. CASE StartSpace \/ PublishIndex \/ UNCHANGED tableVars
  BY <1>4 DEF StartSpace, PublishIndex, history, tableVars
<1> QED BY <1>1, <1>2, <1>3, <1>4 DEF TablesNext, Processes

(* What a command read stays what the Hub holds until it uploads, and what  *)
(* it uploads extends that, the tables referred to first.                   *)
LEMMA WholeStep ==
  TablesTypeOK /\ LeftOK /\ Alone /\ AddedLate /\ WholeInv /\ [TablesNext]_tableVars => WholeInv'
<1> DEFINE Good == HubWhole /\ SpaceOK /\ \A p \in Writers \ hiccup : CommandOK(p)
           DataKept == \A t \in Data : hub'[t] = hub[t]
           Kept(p) == /\ pc'[p] = pc[p] /\ left'[p] = left[p]
                      /\ mem'[p] = mem[p] /\ added'[p] = added[p]
<1> SUFFICES ASSUME TablesTypeOK, LeftOK, Alone, AddedLate, WholeInv, [TablesNext]_tableVars, Undisturbed'
             PROVE  Good'
  BY DEF WholeInv
<1>1. /\ Space \in Processes /\ Writers \subseteq Processes /\ Space \notin Writers
      /\ "canonical_models" \in Data /\ "aliases" \in Data /\ "eval_results" \in Data
      /\ Data \subseteq Tables
  BY HubAssumption, TableNames DEF Processes, Data
<1>2. Undisturbed
  BY UndisturbedBefore
<1>3. HubWhole /\ SpaceOK /\ \A p \in Writers \ hiccup : CommandOK(p)
  BY <1>2 DEF WholeInv
<1>4. ASSUME NEW p \in Writers, CommandOK(p), Kept(p), DataKept PROVE CommandOK(p)'
  <2>1. /\ hub'["canonical_models"] = hub["canonical_models"]
        /\ hub'["aliases"] = hub["aliases"] /\ hub'["eval_results"] = hub["eval_results"]
    BY <1>1, <1>4
  <2> QED BY <1>4, <2>1 DEF CommandOK, ReadSoFar, PushedSoFar, Closed, Data
<1>5. ASSUME Kept(Space), DataKept, torn' = torn, Space \in hiccup' <=> Space \in hiccup
      PROVE  SpaceOK'
  BY <1>1, <1>3, <1>5 DEF SpaceOK
<1>6. ASSUME DataKept, acked' = acked PROVE HubWhole'
  BY <1>1, <1>3, <1>6 DEF HubWhole, Closed
<1>7. ASSUME NEW p \in Writers, NEW c \in {"sync", "seed"}, StartCommand(p, c) PROVE Good'
  <2>1. /\ pc'[p] = "load" /\ left'[p] = TABLE_NAMES /\ hub' = hub /\ acked' = acked
        /\ torn' = torn /\ hiccup' = hiccup \ {p}
        /\ \A q \in Processes \ {p} : Kept(q)
    BY <1>1, <1>7 DEF StartCommand, TablesTypeOK
  <2>2. CommandOK(p)'
    <3>1. Len(left'[p]) = 4
      BY <2>1 DEF TABLE_NAMES
    <3> QED BY <2>1, <3>1 DEF CommandOK, ReadSoFar
  <2> HIDE DEF Kept
  <2>3. \A q \in Writers \ hiccup' : CommandOK(q)'
    BY <1>1, <1>3, <1>4, <2>1, <2>2
  <2> QED BY <1>1, <1>5, <1>6, <2>1, <2>3
<1>8. ASSUME NEW p \in Writers, LoadTable(p) PROVE Good'
  <2> DEFINE n == Len(left[p])
             table == Head(left[p])
  <2>1. /\ pc[p] = "load" /\ left[p] \in LoadLeft /\ left'[p] = Tail(left[p])
        /\ hub' = hub /\ acked' = acked /\ torn' = torn
        /\ \A q \in Processes \ {p} : Kept(q)
        /\ pc'[p] = IF n > 1 THEN "load" ELSE "work"
    BY <1>1, <1>8 DEF LoadTable, Loaded, LeftOK, TablesTypeOK
  <2>2. /\ n \in 1 .. 4 /\ Len(left'[p]) = n - 1
        /\ table = IF n = 4 THEN "canonical_models" ELSE IF n = 3 THEN "aliases"
                   ELSE IF n = 2 THEN "eval_results" ELSE "hub_stats_index"
    BY <2>1, LoadSteps
  <2>3. PICK failed \in BOOLEAN :
          /\ mem' = [mem EXCEPT ![p][table] = IF failed THEN {} ELSE hub[table]]
          /\ hiccup' = IF failed THEN hiccup \cup {p} ELSE hiccup
    BY <1>8 DEF LoadTable
  <2>4. ASSUME p \notin hiccup' PROVE CommandOK(p)'
    <3>1. mem' = [mem EXCEPT ![p][table] = hub[table]] /\ CommandOK(p)
      BY <1>3, <2>3, <2>4
    <3>2. \A t \in Data : mem'[p][t] = IF t = table THEN hub[t] ELSE mem[p][t]
      BY <1>1, <3>1 DEF TablesTypeOK
    <3> HIDE DEF n, table
    <3>3. /\ n < 4 => mem[p]["canonical_models"] = hub["canonical_models"]
          /\ n < 3 => mem[p]["aliases"] = hub["aliases"]
          /\ n < 2 => mem[p]["eval_results"] = hub["eval_results"]
      BY <2>1, <2>2, <3>1 DEF CommandOK, ReadSoFar, n
    <3>4. /\ n < 5 => mem'[p]["canonical_models"] = hub["canonical_models"]
          /\ n < 4 => mem'[p]["aliases"] = hub["aliases"]
          /\ n < 3 => mem'[p]["eval_results"] = hub["eval_results"]
      <4>1. CASE n = 4
        BY <1>1, <2>2, <3>2, <4>1
      <4>2. CASE n = 3
        BY <1>1, <2>2, <3>2, <3>3, <4>2
      <4>3. CASE n = 2
        BY <1>1, <2>2, <3>2, <3>3, <4>3
      <4>4. CASE n = 1
        BY <1>1, <2>2, <3>2, <3>3, <4>4
      <4> QED BY <2>2, <4>1, <4>2, <4>3, <4>4
    <3> QED BY <2>1, <2>2, <3>4 DEF CommandOK, ReadSoFar, Data
  <2> HIDE DEF Kept
  <2>5. \A q \in Writers \ hiccup' : CommandOK(q)'
    BY <1>1, <1>3, <1>4, <2>1, <2>3, <2>4
  <2> QED BY <1>1, <1>5, <1>6, <2>1, <2>3, <2>5
<1>9. CASE LoadTable(Space)
  <2> DEFINE n == Len(left[Space])
             table == Head(left[Space])
  <2>1. /\ pc[Space] = "load" /\ left[Space] \in SpaceLeft /\ left'[Space] = Tail(left[Space])
        /\ hub' = hub /\ acked' = acked /\ torn' = torn
        /\ \A q \in Processes \ {Space} : Kept(q)
        /\ pc'[Space] = IF n > 1 THEN "load" ELSE "serve"
    BY <1>1, <1>9 DEF LoadTable, Loaded, LeftOK, TablesTypeOK
  <2>2. /\ n \in 1 .. 3 /\ Len(left'[Space]) = n - 1
        /\ table = IF n = 3 THEN "canonical_models" ELSE IF n = 2 THEN "aliases"
                   ELSE "hub_stats_index"
    BY <2>1, SpaceSteps
  <2>3. PICK failed \in BOOLEAN :
          /\ mem' = [mem EXCEPT ![Space][table] = IF failed THEN {} ELSE hub[table]]
          /\ hiccup' = IF failed THEN hiccup \cup {Space} ELSE hiccup
    BY <1>9 DEF LoadTable
  <2>4. SpaceOK'
    <3>1. SUFFICES ASSUME ~torn', Space \notin hiccup' PROVE SpaceOK'
      BY DEF SpaceOK
    <3>2. mem' = [mem EXCEPT ![Space][table] = hub[table]] /\ Space \notin hiccup /\ ~torn
      BY <2>1, <2>3, <3>1
    <3>3. \A t \in Data : mem'[Space][t] = IF t = table THEN hub[t] ELSE mem[Space][t]
      BY <1>1, <3>2 DEF TablesTypeOK
    <3> HIDE DEF n, table
    <3>4. /\ n < 4 => mem'[Space]["canonical_models"] = hub["canonical_models"]
          /\ n < 3 => mem'[Space]["aliases"] = hub["aliases"]
      <4>1. /\ n < 3 => mem[Space]["canonical_models"] = hub["canonical_models"]
            /\ n < 2 => mem[Space]["aliases"] = hub["aliases"]
        BY <1>3, <2>1, <3>2 DEF SpaceOK, n
      <4>2. CASE n = 3
        BY <1>1, <2>2, <3>3, <4>2
      <4>3. CASE n = 2
        BY <1>1, <2>2, <3>3, <4>1, <4>3
      <4>4. CASE n = 1
        BY <1>1, <2>2, <3>3, <4>1, <4>4
      <4> QED BY <2>2, <4>2, <4>3, <4>4
    <3> QED BY <1>3, <2>1, <2>2, <3>4 DEF SpaceOK, HubWhole, Closed
  <2> HIDE DEF Kept
  <2>5. \A q \in Writers \ hiccup' : CommandOK(q)'
    BY <1>1, <1>3, <1>4, <2>1, <2>3
  <2> QED BY <1>6, <2>1, <2>4, <2>5
<1>10. ASSUME NEW p \in Writers, RunSync(p) \/ RunSeed(p) PROVE Good'
  <2>1. /\ pc[p] = "work" /\ pc'[p] = "push" /\ left'[p] = PUSHED_NAMES
        /\ hub' = hub /\ acked' = acked /\ torn' = torn /\ hiccup' = hiccup
        /\ \A q \in Processes \ {p} : Kept(q)
    BY <1>1, <1>10 DEF RunSync, RunSeed, StartPush, history, TablesTypeOK
  <2>2. ASSUME p \notin hiccup PROVE CommandOK(p)'
    <3>1. /\ \A t \in Data : mem[p][t] = hub[t]
          /\ mem[p] \in [Tables -> SUBSET (Rows \cup Indexes)]
          /\ Closed(mem[p])
      BY <1>1, <1>3, <2>1, <2>2 DEF CommandOK, HubWhole, Closed, TablesTypeOK
    <3>2. /\ Closed(mem'[p])
          /\ \A t \in Data : mem[p][t] \subseteq mem'[p][t] /\ added'[p] \subseteq mem'[p][t]
      <4>1. CASE RunSync(p)
        <5>1. PICK rows \in SUBSET Rows : mem'[p] = Synced(mem[p], rows) /\ added'[p] = rows
          BY <1>1, <4>1 DEF RunSync, TablesTypeOK
        <5> QED BY <3>1, <5>1, TableNames DEF Synced, Closed, Data
      <4>2. CASE RunSeed(p)
        <5>1. mem'[p] = Seeded(mem[p]) /\ added'[p] = {}
          BY <1>1, <2>1, <4>2 DEF RunSeed, TablesTypeOK, AddedLate
        <5> QED BY <3>1, <5>1, TableNames DEF Seeded, Closed, Data
      <4> QED BY <1>10, <4>1, <4>2
    <3>3. Len(left'[p]) = 3
      BY <2>1 DEF PUSHED_NAMES
    <3> QED BY <2>1, <3>1, <3>2, <3>3 DEF CommandOK, PushedSoFar
  <2> HIDE DEF Kept
  <2>3. \A q \in Writers \ hiccup' : CommandOK(q)'
    BY <1>1, <1>3, <1>4, <2>1, <2>2
  <2> QED BY <1>1, <1>5, <1>6, <2>1, <2>3
<1>11. ASSUME NEW p \in Writers, PushTable(p) PROVE Good'
  <2> DEFINE n == Len(left[p])
             table == Head(left[p])
  <2>1. /\ pc[p] = "push" /\ left[p] \in PushLeft /\ left'[p] = Tail(left[p])
        /\ hub' = [hub EXCEPT ![table] = mem[p][table]] /\ hiccup' = hiccup
        /\ overlapped' = overlapped /\ p \notin hiccup /\ torn' = (torn \/ pc[Space] = "load")
        /\ \A q \in Processes \ {p} : Kept(q)
    BY <1>1, <1>11 DEF PushTable, EndOfUpload, LeftOK, TablesTypeOK, Undisturbed
  <2>2. /\ n # 1 => pc'[p] = "push" /\ mem'[p] = mem[p] /\ added'[p] = added[p] /\ acked' = acked
        /\ n = 1 => pc'[p] = "idle" /\ acked' = acked \cup added[p]
    BY <1>1, <1>11 DEF PushTable, EndOfUpload, TablesTypeOK
  <2>3. /\ n \in 1 .. 3 /\ Len(left'[p]) = n - 1
        /\ table = IF n = 3 THEN "canonical_models" ELSE IF n = 2 THEN "aliases"
                   ELSE "eval_results"
    BY <2>1, PushSteps
  <2>4. PushedSoFar(p) /\ Closed(hub) /\ \A t \in Data : acked \subseteq hub[t]
    BY <1>3, <2>1 DEF CommandOK, HubWhole
  <2>5. \A t \in Data : hub'[t] = IF t = table THEN mem[p][t] ELSE hub[t]
    BY <1>1, <2>1 DEF TablesTypeOK
  <2>6. SpaceOK'
    <3>1. mem'[Space] = mem[Space] /\ pc'[Space] = pc[Space]
      BY <1>1, <2>1
    <3> QED BY <1>3, <2>1, <3>1 DEF SpaceOK
  <2>7. ASSUME NEW q \in Writers \ {p} PROVE CommandOK(q)'
    <3>1. pc[q] = "idle"
      BY <1>2, <2>1, <2>7 DEF Alone, Undisturbed
    <3>2. pc'[q] = "idle"
      BY <1>1, <2>1, <2>7, <3>1
    <3> QED BY <3>2 DEF CommandOK
  <2> HIDE DEF n, table
  <2>8. /\ n < 3 => hub["canonical_models"] = mem[p]["canonical_models"]
        /\ n < 2 => hub["aliases"] = mem[p]["aliases"]
        /\ Closed(mem[p])
        /\ \A t \in Data : hub[t] \subseteq mem[p][t] /\ added[p] \subseteq mem[p][t]
    BY <2>4 DEF PushedSoFar, n
  <2>9. /\ n - 1 < 3 => hub'["canonical_models"] = mem[p]["canonical_models"]
        /\ n - 1 < 2 => hub'["aliases"] = mem[p]["aliases"]
        /\ n = 1 => hub'["eval_results"] = mem[p]["eval_results"]
    BY <1>1, <2>3, <2>5, <2>8
  <2>10. CommandOK(p)'
    <3>1. CASE n = 1
      BY <2>2, <3>1 DEF CommandOK
    <3>2. CASE n # 1
      <4>1. \A t \in Data : hub'[t] \subseteq mem[p][t]
        BY <2>5, <2>8
      <4> QED BY <2>2, <2>3, <2>8, <2>9, <3>2, <4>1 DEF CommandOK, PushedSoFar
    <3> QED BY <3>1, <3>2
  <2>11. Closed(hub')
    <3>1. /\ hub'["canonical_models"] = mem[p]["canonical_models"]
          /\ hub'["aliases"] \in {hub["aliases"], mem[p]["aliases"]}
          /\ hub'["eval_results"] \in {hub["eval_results"], mem[p]["eval_results"]}
      BY <1>1, <2>3, <2>5, <2>9
    <3> QED BY <1>1, <2>8, <3>1 DEF Closed
  <2>12. \A t \in Data : acked' \subseteq hub'[t]
    <3>1. CASE n # 1
      BY <2>2, <2>4, <2>5, <2>8, <3>1
    <3>2. CASE n = 1
      <4>1. \A t \in Data : hub'[t] = mem[p][t]
        BY <2>3, <2>9, <3>2 DEF Data
      <4> QED BY <2>2, <2>4, <2>8, <3>2, <4>1
    <3> QED BY <3>1, <3>2
  <2> QED BY <2>6, <2>7, <2>10, <2>11, <2>12 DEF HubWhole
<1>12. ASSUME NEW p \in Processes, Crash(p) PROVE Good'
  <2>1. /\ pc'[p] = "idle" /\ hub' = hub /\ acked' = acked /\ torn' = torn /\ hiccup' = hiccup
        /\ \A q \in Processes \ {p} : Kept(q)
    BY <1>12 DEF Crash, history, TablesTypeOK
  <2>2. p \in Writers => CommandOK(p)'
    BY <2>1 DEF CommandOK
  <2>3. p = Space => SpaceOK'
    BY <2>1 DEF SpaceOK
  <2> HIDE DEF Kept
  <2>4. \A q \in Writers \ hiccup' : CommandOK(q)'
    BY <1>1, <1>3, <1>4, <2>1, <2>2
  <2> QED BY <1>1, <1>5, <1>6, <2>1, <2>3, <2>4
<1>13. CASE StartSpace
  <2>1. /\ pc'[Space] = "load" /\ left'[Space] = QUERY_TABLE_NAMES /\ hub' = hub /\ acked' = acked
        /\ hiccup' = hiccup \ {Space}
        /\ \A q \in Processes \ {Space} : Kept(q)
    BY <1>1, <1>13 DEF StartSpace, TablesTypeOK
  <2>2. Len(left'[Space]) = 3
    BY <2>1 DEF QUERY_TABLE_NAMES
  <2>3. SpaceOK'
    BY <2>1, <2>2 DEF SpaceOK
  <2> HIDE DEF Kept
  <2>4. \A q \in Writers \ hiccup' : CommandOK(q)'
    BY <1>1, <1>3, <1>4, <2>1
  <2> QED BY <1>6, <2>1, <2>3, <2>4
<1>14. CASE PublishIndex \/ UNCHANGED tableVars
  <2>1. /\ DataKept /\ acked' = acked /\ torn' = torn /\ hiccup' = hiccup
        /\ \A q \in Processes : Kept(q)
    <3>1. CASE PublishIndex
      <4>1. DataKept
        BY <3>1, TableNames DEF PublishIndex, TablesTypeOK, Data
      <4> QED BY <3>1, <4>1 DEF PublishIndex, procs, history
    <3>2. CASE UNCHANGED tableVars
      BY <3>2 DEF tableVars, procs, history
    <3> QED BY <1>14, <3>1, <3>2
  <2> HIDE DEF Kept, DataKept
  <2>2. \A q \in Writers \ hiccup' : CommandOK(q)'
    BY <1>1, <1>3, <1>4, <2>1
  <2> QED BY <1>1, <1>5, <1>6, <2>1, <2>2
<1> QED BY <1>7, <1>8, <1>9, <1>10, <1>11, <1>12, <1>13, <1>14 DEF TablesNext, Processes

(* TablesInv is inductive.                                                       *)
LEMMA TablesInvariance == TablesSpec => []TablesInv
<1>1. TablesInit => TablesInv
  BY InitHolds
<1>2. TablesInv /\ [TablesNext]_tableVars => TablesInv'
  BY TypeStep, LeftStep, AloneStep, WholeStep DEF TablesInv
<1> QED BY <1>1, <1>2, PTL DEF TablesSpec

(* Every process goes through its states with tables of rows only: the      *)
(* loads, pushes and kills of hf_store.py and cli.py.                       *)
THEOREM TablesTypeCorrect == TablesSpec => []TablesTypeOK
<1>1. TablesInv => TablesTypeOK
  BY DEF TablesInv
<1> QED BY <1>1, TablesInvariance, PTL

(* push_to_hub keeps the dataset closed and what syncs recorded on it, and  *)
(* main.py's Space serves closed tables, however many commands are killed   *)
(* between two uploads, unless commands overlap or a load swallowed an      *)
(* error.                                                                   *)
THEOREM TablesKeptHolds == TablesSpec => []TablesKept
<1>1. TablesInv => TablesKept
  BY DEF TablesInv, WholeInv, HubWhole, SpaceOK, Closed, TablesKept, HubClosed, ServedClosed,
         SyncedRowsKept, Data
<1> QED BY <1>1, TablesInvariance, PTL

(* The index the cron publishes is never emptied nor set back: no command   *)
(* uploads a table of _CRON_OWNED_TABLES.                                   *)
THEOREM IndexHolds == TablesSpec => IndexNeverSetBack
<1> DEFINE Forward == \E v \in 0 .. MaxIndex : hub'["hub_stats_index"] = {v}
                        /\ \A u \in hub["hub_stats_index"] : u <= v
<1>1. TablesInv /\ [TablesNext]_tableVars => [Forward]_hub
  <2> SUFFICES ASSUME TablesInv, [TablesNext]_tableVars, hub' # hub PROVE Forward
    OBVIOUS
  <2>1. CASE PublishIndex
    <3>1. PICK v \in Indexes : /\ hub["hub_stats_index"] = {v - 1}
                              /\ hub' = [hub EXCEPT !["hub_stats_index"] = {v}]
      BY <2>1 DEF PublishIndex
    <3>2. v \in 0 .. MaxIndex /\ v - 1 <= v
      BY HubAssumption DEF Indexes
    <3> QED BY <3>1, <3>2, TableNames DEF TablesInv, TablesTypeOK
  <2>2. CASE \E p \in Writers : PushTable(p)
    <3>1. PICK p \in Writers : PushTable(p)
      BY <2>2
    <3>2. Head(left[p]) # "hub_stats_index"
      BY <3>1, PushSteps DEF PushTable, TablesInv, LeftOK, Data
    <3>3. hub'["hub_stats_index"] = hub["hub_stats_index"]
      BY <3>1, <3>2, TableNames DEF PushTable, TablesInv, TablesTypeOK
    <3>4. PICK v \in Indexes : hub["hub_stats_index"] = {v}
      BY DEF TablesInv, IndexOne
    <3>5. v \in 0 .. MaxIndex /\ v <= v
      BY HubAssumption DEF Indexes
    <3> QED BY <3>3, <3>4, <3>5
  <2> QED BY <2>1, <2>2 DEF TablesNext, StartCommand, LoadTable, RunSync, RunSeed, Crash, StartSpace, tableVars
<1> QED BY <1>1, TablesInvariance, PTL DEF TablesSpec, IndexNeverSetBack
=============================================================================
