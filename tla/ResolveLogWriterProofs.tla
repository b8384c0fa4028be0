------------------------ MODULE ResolveLogWriterProofs ------------------------
(***************************************************************************)
(* The resolve log for every size of the buffer, length of the interval and *)
(* number of entries: the buffer keeps its cap and its order, and the       *)
(* writer implements ResolveLog.                                            *)
(***************************************************************************)
EXTENDS ResolveLogWriter, FiniteSetTheorems, SequenceTheorems, TLAPS

Entries == 1 .. MaxEntries

(* Where the two flushes can be: until stop() there is only the periodic    *)
(* one, afterwards only the final one.  A batch is held from its taking to  *)
(* the end of the flush, and a flush that was not cancelled awaits exactly  *)
(* the upload of its batch.                                                 *)
OneFlush ==
  /\ ~stopping => /\ pc["periodic"] \in {"sleep", "take", "convert", "await", "requeue"}
                  /\ pc["final"] = "off"
  /\ stopping => /\ pc["periodic"] = "cancelled"
                 /\ pc["final"] \in {"off", "take", "convert", "await", "requeue", "done"}
BatchHeld ==
  \A f \in Flushes :
    /\ pc[f] \notin {"convert", "await", "requeue"} => batch[f] = <<>>
    /\ pc[f] # "cancelled" =>
         /\ pc[f] = "await" <=> upload[f].state # "none"
         /\ pc[f] = "await" => upload[f].entries = batch[f]

(* The entries of a batch are older than those of the buffer.               *)
Before(s, t) == \A x \in Range(s), y \in Range(t) : x < y
InOrder ==
  /\ Increasing(buffer) /\ Range(buffer) \subseteq 1 .. appended
  /\ \A f \in Flushes : /\ Increasing(batch[f]) /\ Before(batch[f], buffer)
                        /\ Range(batch[f]) \subseteq 1 .. appended

(* Until stop() no upload replaces a part: the flushes are at least a       *)
(* second apart.  What an upload acknowledges is stored.                    *)
PartsNew ==
  ~stopping =>
    /\ \A s \in Seconds : bucket[s] # <<>> =>
         /\ s <= second
         /\ pc["periodic"] = "sleep" => s < wake
         /\ pc["periodic"] \in {"take", "convert"} => s < second
         /\ upload["periodic"].state = "flying" => s < upload["periodic"].part
    /\ upload["periodic"].state = "flying" => upload["periodic"].part <= second
    /\ upload["periodic"].state = "ok" => Range(batch["periodic"]) \subseteq Stored

IInv == TypeOK /\ BufferCapped /\ OneFlush /\ BatchHeld /\ InOrder /\ PartsNew

-----------------------------------------------------------------------------
(* What the cap keeps: the newest entries, in their order.                  *)
LEMMA NewestKeeps ==
  ASSUME NEW s \in Seq(Entries)
  PROVE  /\ Newest(s) \in Seq(Entries)
         /\ Len(Newest(s)) <= MaxBuffer /\ Len(Newest(s)) <= Len(s)
         /\ Len(s) > MaxBuffer => Len(Newest(s)) = MaxBuffer
         /\ Len(s) <= MaxBuffer => Newest(s) = s
         /\ \A i \in 1 .. Len(Newest(s)) : Newest(s)[i] = s[i + (Len(s) - Len(Newest(s)))]
<1> DEFINE m == IF Len(s) > MaxBuffer THEN Len(s) - MaxBuffer + 1 ELSE 1
<1>1. Len(s) \in Nat /\ MaxBuffer \in Nat \ {0} /\ m \in Nat /\ m >= 1
  BY WriterAssumption, LenProperties
<1>2. \A i \in m .. Len(s) : s[i] \in Entries
  BY <1>1, ElementOfSeq
<1>3. /\ Newest(s) \in Seq(Entries)
      /\ Len(Newest(s)) = IF m <= Len(s) THEN Len(s) - m + 1 ELSE 0
      /\ \A i \in 1 .. Len(s) - m + 1 : Newest(s)[i] = s[m + i - 1]
  <2> HIDE DEF m
  <2>1. Newest(s) = SubSeq(s, m, Len(s))
    BY DEF Newest, m
  <2> QED BY <1>1, <1>2, <2>1, SubSeqProperties
<1>4. CASE Len(s) > MaxBuffer
  <2>1. m = Len(s) - MaxBuffer + 1 /\ Len(Newest(s)) = MaxBuffer
    BY <1>1, <1>3, <1>4
  <2> HIDE DEF m
  <2> QED BY <1>1, <1>3, <1>4, <2>1
<1>5. CASE Len(s) <= MaxBuffer
  <2>1. m = 1 /\ Len(Newest(s)) = Len(s)
    BY <1>1, <1>3, <1>5
  <2>2. Newest(s) = s
    BY <2>1, <1>1, <1>5, SubSeqFull DEF Newest
  <2>3. \A i \in 1 .. Len(Newest(s)) : Newest(s)[i] = s[i + (Len(s) - Len(Newest(s)))]
    <3> TAKE i \in 1 .. Len(Newest(s))
    <3>1. i + (Len(s) - Len(Newest(s))) = i
      BY <1>1, <2>1
    <3> QED BY <2>2, <3>1
  <2>4. Newest(s) \in Seq(Entries) /\ Len(s) <= MaxBuffer
    BY <1>3, <1>5
  <2> HIDE DEF m
  <2> QED BY <1>1, <1>5, <2>1, <2>2, <2>3, <2>4
<1> QED BY <1>1, <1>4, <1>5

(* The cap keeps the order.                                                 *)
LEMMA NewestInOrder ==
  ASSUME NEW s \in Seq(Entries), Increasing(s)
  PROVE  /\ Increasing(Newest(s))
         /\ Range(Newest(s)) \subseteq Range(s)
<1> DEFINE n == Newest(s)
           d == Len(s) - Len(n)
<1>1. /\ n \in Seq(Entries) /\ Len(n) \in Nat /\ Len(s) \in Nat /\ d \in Nat
      /\ DOMAIN n = 1 .. Len(n) /\ DOMAIN s = 1 .. Len(s)
      /\ \A i \in 1 .. Len(n) : n[i] = s[i + d]
  BY NewestKeeps, LenProperties
<1>2. \A i \in DOMAIN n : i \in Nat /\ i + d \in DOMAIN s /\ n[i] = s[i + d]
  BY <1>1
<1> HIDE DEF n, d
<1>3. Increasing(n)
  BY <1>1, <1>2 DEF Increasing
<1>4. Range(n) \subseteq Range(s)
  BY <1>2 DEF Range
<1> QED BY <1>3, <1>4 DEF n

(* An entry the cap drops makes room for MaxBuffer newer ones.              *)
LEMMA DroppedForNewer ==
  ASSUME NEW s \in Seq(Entries), Increasing(s), NEW e \in Range(s) \ Range(Newest(s)),
         NEW T, IsFiniteSet(T), Range(Newest(s)) \subseteq T
  PROVE  Cardinality({x \in T : x > e}) >= MaxBuffer
<1> DEFINE n == Newest(s)
           d == Len(s) - Len(n)
           U == {x \in T : x > e}
<1>1. /\ Len(n) \in Nat /\ Len(s) \in Nat /\ d \in Nat /\ Len(n) + d = Len(s)
      /\ DOMAIN n = 1 .. Len(n) /\ DOMAIN s = 1 .. Len(s)
      /\ \A i \in 1 .. Len(n) : n[i] = s[i + d]
  BY NewestKeeps, LenProperties
<1>n. /\ n \in Seq(Entries) /\ Increasing(n)
      /\ Len(s) <= MaxBuffer => Len(n) = Len(s)
      /\ Len(s) > MaxBuffer => Len(n) = MaxBuffer
  BY NewestKeeps, NewestInOrder
<1>r. e \in Range(s) /\ e \notin Range(n)
  OBVIOUS
<1>u. IsFiniteSet(U) /\ \A x \in Range(n) : x > e => x \in U
  BY FS_Subset
<1> HIDE DEF n, d, U
<1>2. PICK k \in 1 .. Len(s) : e = s[k]
  BY <1>1, <1>r DEF Range
<1>3. k <= d
  <2>1. SUFFICES ASSUME k > d PROVE FALSE
    BY <1>1
  <2>2. k - d \in 1 .. Len(n) /\ (k - d) + d = k
    BY <1>1, <2>1
  <2> QED BY <1>1, <1>r, <1>2, <2>2 DEF Range
<1>4. Len(n) = MaxBuffer /\ MaxBuffer \in Nat
  <2>1. MaxBuffer \in Nat
    BY WriterAssumption
  <2>2. k \in Nat /\ k >= 1
    BY <1>1
  <2>3. Len(n) \in Nat /\ Len(s) \in Nat /\ d \in Nat /\ Len(n) + d = Len(s)
    BY <1>1
  <2>4. Len(n) < Len(s)
    BY <1>3, <2>2, <2>3
  <2>5. ~(Len(s) <= MaxBuffer)
    <3>1. Len(s) <= MaxBuffer => Len(n) = Len(s)
      BY <1>n
    <3> QED BY <2>3, <2>4, <3>1
  <2>6. Len(s) > MaxBuffer
    BY <2>1, <2>3, <2>5
  <2> QED BY <1>n, <2>1, <2>6
<1>5. \A i \in 1 .. Len(n) : n[i] > e /\ n[i] \in Range(n)
  <2> TAKE i \in 1 .. Len(n)
  <2>1. k < i + d /\ i + d \in 1 .. Len(s)
    BY <1>1, <1>3
  <2>2. s[k] < s[i + d]
    BY <1>1, <2>1 DEF Increasing
  <2>3. s[k] \in Nat /\ s[i + d] \in Nat
    <3>1. s[k] \in Entries /\ s[i + d] \in Entries
      BY <2>1, ElementOfSeq
    <3> QED BY <3>1 DEF Entries
  <2> QED BY <1>1, <1>2, <2>2, <2>3 DEF Range
<1>6. [i \in 1 .. MaxBuffer |-> n[i]] \in Injection(1 .. MaxBuffer, U)
  <2>1. \A i \in 1 .. MaxBuffer : n[i] \in U
    BY <1>u, <1>4, <1>5
  <2>2. ASSUME NEW i \in 1 .. MaxBuffer, NEW j \in 1 .. MaxBuffer, n[i] = n[j] PROVE i = j
    <3>1. i \in DOMAIN n /\ j \in DOMAIN n /\ i \in Nat /\ j \in Nat
      BY <1>1, <1>4
    <3>2. n[i] \in Entries
      BY <1>1, <1>n, <3>1, ElementOfSeq
    <3>3. ~(n[i] < n[i])
      BY <3>2 DEF Entries
    <3> QED BY <1>n, <2>2, <3>1, <3>3 DEF Increasing
  <2> QED BY <2>1, <2>2 DEF Injection, IsInjective
<1>8. Cardinality(1 .. MaxBuffer) = MaxBuffer
  BY <1>4, FS_Interval
<1>9. Cardinality(1 .. MaxBuffer) <= Cardinality(U)
  BY <1>6, <1>8, <1>u, FS_Injection
<1>10. Cardinality(U) \in Nat
  BY <1>u, FS_CardinalityType
<1> QED BY <1>4, <1>8, <1>9, <1>10 DEF U

(* An entry younger than all of s goes to its end.                          *)
LEMMA AppendedInOrder ==
  ASSUME NEW s \in Seq(Entries), Increasing(s), NEW e \in Entries,
         \A x \in Range(s) : x < e
  PROVE  /\ Append(s, e) \in Seq(Entries) /\ Increasing(Append(s, e))
         /\ Range(Append(s, e)) = Range(s) \cup {e}
<1> DEFINE a == Append(s, e)
<1>1. /\ Len(s) \in Nat /\ DOMAIN s = 1 .. Len(s)
      /\ \A i \in 1 .. Len(s) : s[i] \in Range(s)
  BY LenProperties DEF Range
<1>2. a \in Seq(Entries) /\ Len(a) = Len(s) + 1
  OBVIOUS
<1>3. DOMAIN a = 1 .. Len(s) + 1
  BY <1>2, LenProperties
<1>4. \A i \in 1 .. Len(s) + 1 : a[i] = IF i <= Len(s) THEN s[i] ELSE e
  BY <1>1
<1> HIDE DEF a
<1>5. Increasing(a)
  <2> SUFFICES ASSUME NEW i \in DOMAIN a, NEW j \in DOMAIN a, i < j
               PROVE  a[i] < a[j]
    BY DEF Increasing
  <2>1. i \in 1 .. Len(s) /\ a[i] = s[i]
    BY <1>1, <1>3, <1>4
  <2>2. CASE j <= Len(s)
    <3>1. j \in 1 .. Len(s) /\ a[j] = s[j]
      BY <1>1, <1>3, <1>4, <2>2
    <3> QED BY <1>1, <2>1, <3>1 DEF Increasing
  <2>3. CASE ~(j <= Len(s))
    <3>1. a[j] = e
      BY <1>3, <1>4, <2>3
    <3> QED BY <1>1, <2>1, <3>1
  <2> QED BY <2>2, <2>3
<1>6. Range(a) = Range(s) \cup {e}
  <2>1. \A i \in DOMAIN a : a[i] \in Range(s) \cup {e}
    BY <1>1, <1>3, <1>4
  <2>2. \A i \in DOMAIN s : i \in DOMAIN a /\ a[i] = s[i]
    BY <1>1, <1>3, <1>4
  <2>3. Len(s) + 1 \in DOMAIN a /\ a[Len(s) + 1] = e
    BY <1>1, <1>3, <1>4
  <2> QED BY <2>1, <2>2, <2>3 DEF Range
<1> QED BY <1>2, <1>5, <1>6 DEF a

(* Older entries go in front of younger ones.                               *)
LEMMA RejoinedInOrder ==
  ASSUME NEW s \in Seq(Entries), NEW t \in Seq(Entries),
         Increasing(s), Increasing(t), Before(s, t)
  PROVE  /\ s \o t \in Seq(Entries) /\ Increasing(s \o t)
         /\ Range(s \o t) = Range(s) \cup Range(t)
<1> DEFINE c == s \o t
<1>1. /\ Len(s) \in Nat /\ DOMAIN s = 1 .. Len(s)
      /\ Len(t) \in Nat /\ DOMAIN t = 1 .. Len(t)
      /\ \A i \in 1 .. Len(s) : s[i] \in Range(s)
      /\ \A i \in 1 .. Len(t) : t[i] \in Range(t)
  BY LenProperties DEF Range
<1>2. c \in Seq(Entries) /\ Len(c) = Len(s) + Len(t)
  BY ConcatProperties
<1>3. DOMAIN c = 1 .. Len(s) + Len(t)
  BY <1>2, LenProperties
<1>4. \A i \in 1 .. Len(s) + Len(t) : c[i] = IF i <= Len(s) THEN s[i] ELSE t[i - Len(s)]
  BY ConcatProperties
<1> HIDE DEF c
<1>5. \A i \in DOMAIN c : \/ i \in 1 .. Len(s) /\ c[i] = s[i]
                          \/ /\ i > Len(s) /\ i - Len(s) \in 1 .. Len(t)
                             /\ c[i] = t[i - Len(s)]
  BY <1>1, <1>3, <1>4
<1>6. Increasing(c)
  <2> SUFFICES ASSUME NEW i \in DOMAIN c, NEW j \in DOMAIN c, i < j
               PROVE  c[i] < c[j]
    BY DEF Increasing
  <2>1. CASE j \in 1 .. Len(s)
    <3>1. i \in 1 .. Len(s) /\ c[i] = s[i] /\ c[j] = s[j]
      BY <1>1, <1>3, <1>4, <2>1
    <3> QED BY <1>1, <2>1, <3>1 DEF Increasing
  <2>2. CASE i > Len(s)
    <3>1. /\ i - Len(s) \in 1 .. Len(t) /\ c[i] = t[i - Len(s)]
          /\ j - Len(s) \in 1 .. Len(t) /\ c[j] = t[j - Len(s)]
          /\ i - Len(s) < j - Len(s)
      BY <1>1, <1>3, <1>4, <2>2
    <3> QED BY <1>1, <3>1 DEF Increasing
  <2>3. CASE i \in 1 .. Len(s) /\ j > Len(s)
    <3>1. c[i] = s[i] /\ j - Len(s) \in 1 .. Len(t) /\ c[j] = t[j - Len(s)]
      BY <1>1, <1>3, <1>4, <2>3
    <3> QED BY <1>1, <2>3, <3>1 DEF Before
  <2> QED BY <1>1, <1>3, <2>1, <2>2, <2>3
<1>7. Range(c) = Range(s) \cup Range(t)
  <2>1. \A i \in DOMAIN c : c[i] \in Range(s) \cup Range(t)
    BY <1>1, <1>5
  <2>2. \A i \in DOMAIN s : i \in DOMAIN c /\ c[i] = s[i]
    BY <1>1, <1>3, <1>4
  <2>3. \A i \in DOMAIN t : i + Len(s) \in DOMAIN c /\ c[i + Len(s)] = t[i]
    <3> TAKE i \in DOMAIN t
    <3>1. i + Len(s) \in DOMAIN c /\ ~(i + Len(s) <= Len(s)) /\ (i + Len(s)) - Len(s) = i
      BY <1>1, <1>3
    <3> QED BY <1>3, <1>4, <3>1
  <2> QED BY <2>1, <2>2, <2>3 DEF Range
<1> QED BY <1>2, <1>6, <1>7 DEF c

-----------------------------------------------------------------------------
(* The two flushes.                                                         *)
LEMMA FlushNames == Flushes = {"periodic", "final"}
BY DEF Flushes

(* The invariant holds before the first request.                            *)
LEMMA InitHolds == Init => IInv
<1> SUFFICES ASSUME Init PROVE IInv
  OBVIOUS
<1> USE WriterAssumption DEF Init
<1>1. <<>> \in Seq(Entries) /\ Len(<<>>) = 0 /\ Range(<<>>) = {}
  BY EmptySeq DEF Range
<1>2. TypeOK
  BY <1>1 DEF TypeOK, Seconds, Flushes, NoUpload, Entries
<1>3. BufferCapped /\ OneFlush
  BY <1>1 DEF BufferCapped, OneFlush
<1>4. BatchHeld
  BY DEF BatchHeld, Flushes, NoUpload
<1>5. InOrder
  BY <1>1 DEF InOrder, Increasing, Before
<1>6. PartsNew
  BY DEF PartsNew, NoUpload, Flushes
<1> QED BY <1>2, <1>3, <1>4, <1>5, <1>6 DEF IInv

(* Where a flush can be, and the uploads.                                   *)
Labels == {"off", "sleep", "take", "convert", "await", "requeue", "cancelled", "done"}
Uploads == [state : {"none", "flying", "ok", "failed"},
            entries : Seq(1 .. MaxEntries), part : Seconds]

(* The buffer and the batches stay sequences of entries that were appended. *)
LEMMA TypeStep == TypeOK /\ [Next]_vars => TypeOK'
<1> SUFFICES ASSUME TypeOK, [Next]_vars PROVE TypeOK'
  OBVIOUS
<1> USE WriterAssumption DEF TypeOK, Goto
<1>0. ASSUME NEW f \in Flushes, FlushEnds(f) PROVE pc' \in [Flushes -> Labels] /\ wake' \in Nat
  <2>1. second + Interval \in Nat
    BY DEF Seconds
  <2>2. wake' \in Nat
    BY <1>0, <2>1 DEF FlushEnds
  <2>3. pc' \in [Flushes -> Labels]
    BY <1>0 DEF FlushEnds, After, Labels
  <2> QED BY <2>2, <2>3
<1>1. <<>> \in Seq(Entries) /\ buffer \in Seq(Entries)
  BY EmptySeq DEF Entries
<1>2. ASSUME NEW f \in Flushes, Take(f) PROVE TypeOK'
  <2>1. pc' \in [Flushes -> Labels] /\ wake' \in Nat
    <3>1. CASE buffer = <<>>
      BY <1>0, <1>2, <3>1 DEF Take
    <3>2. CASE buffer # <<>>
      BY <1>2, <3>2 DEF Take, Labels
    <3> QED BY <3>1, <3>2
  <2>2. batch' \in [Flushes -> Seq(1 .. MaxEntries)] /\ buffer' \in Seq(1 .. MaxEntries)
    BY <1>1, <1>2 DEF Take, Entries
  <2> QED BY <1>2, <2>1, <2>2 DEF Take, Labels
<1>3. ASSUME NEW f \in Flushes, Convert(f) PROVE TypeOK'
  <2>1. pc' \in [Flushes -> Labels]
    BY <1>3 DEF Convert, Labels
  <2>2. [state |-> "flying", entries |-> batch[f], part |-> PartName] \in Uploads
    BY DEF PartName, Uploads
  <2>3. upload' \in [Flushes -> Uploads]
    BY <1>3, <2>2 DEF Convert, Uploads
  <2> QED BY <1>3, <2>1, <2>3 DEF Convert, Uploads, Labels
<1>4. ASSUME NEW f \in Flushes, UploadLands(f) PROVE TypeOK'
  <2>1. upload' \in [Flushes -> Uploads]
    <3>1. PICK state \in {"ok", "failed"} : upload' = [upload EXCEPT ![f].state = state]
      BY <1>4 DEF UploadLands
    <3> QED BY <3>1 DEF Uploads
  <2>2. bucket' \in [Seconds -> Seq(1 .. MaxEntries)]
    BY <1>4 DEF UploadLands
  <2> QED BY <1>4, <2>1, <2>2 DEF UploadLands, Uploads
<1>5. ASSUME NEW f \in Flushes, UploadFails(f) PROVE TypeOK'
  BY <1>5 DEF UploadFails
<1>6. ASSUME NEW f \in Flushes, Resume(f) PROVE TypeOK'
  <2>1. pc' \in [Flushes -> Labels] /\ wake' \in Nat
    <3>1. CASE upload[f].state = "ok"
      BY <1>0, <1>6, <3>1 DEF Resume
    <3>2. CASE upload[f].state # "ok"
      BY <1>6, <3>2 DEF Resume, Labels
    <3> QED BY <3>1, <3>2
  <2>2. batch' \in [Flushes -> Seq(1 .. MaxEntries)]
    BY <1>1, <1>6 DEF Resume, Entries
  <2>3. upload' \in [Flushes -> Uploads]
    BY <1>1, <1>6 DEF Resume, Uploads, NoUpload, Entries, Seconds
  <2> QED BY <1>6, <2>1, <2>2, <2>3 DEF Resume, Uploads, Labels
<1>7. ASSUME NEW f \in Flushes, Requeue(f) PROVE TypeOK'
  <2>1. buffer' \in Seq(Entries)
    <3>1. batch[f] \o buffer \in Seq(Entries)
      BY <1>1, ConcatProperties DEF Entries
    <3> QED BY <1>7, <3>1, NewestKeeps DEF Requeue, Requeued
  <2>2. pc' \in [Flushes -> Labels] /\ wake' \in Nat
    BY <1>0, <1>7 DEF Requeue
  <2>3. batch' \in [Flushes -> Seq(1 .. MaxEntries)]
    BY <1>1, <1>7 DEF Requeue, Entries
  <2> QED BY <1>7, <2>1, <2>2, <2>3 DEF Requeue, Entries, Labels
<1>8. CASE Request
  <2>1. buffer' \in Seq(Entries)
    <3>1. Append(buffer, appended + 1) \in Seq(Entries)
      BY <1>1, <1>8 DEF Request, Entries
    <3> QED BY <1>8, <3>1, NewestKeeps DEF Request
  <2> QED BY <1>8, <2>1 DEF Request, Entries
<1>9. CASE Wake
  BY <1>9 DEF Wake
<1>10. CASE Stop
  BY <1>1, <1>10 DEF Stop, Entries
<1>11. CASE FinalFlush
  BY <1>11 DEF FinalFlush
<1>12. CASE Tick
  BY <1>12 DEF Tick, Seconds
<1>13. CASE UNCHANGED vars
  BY <1>13 DEF vars
<1> QED BY <1>2, <1>3, <1>4, <1>5, <1>6, <1>7, <1>8, <1>9, <1>10, <1>11, <1>12, <1>13
        DEF Next, Work

(* stop() ends the periodic flush before the final one begins.              *)
LEMMA FlushStep == TypeOK /\ OneFlush /\ BatchHeld /\ [Next]_vars => OneFlush' /\ BatchHeld'
<1> SUFFICES ASSUME TypeOK, OneFlush, BatchHeld, [Next]_vars PROVE OneFlush' /\ BatchHeld'
  OBVIOUS
<1> USE FlushNames DEF OneFlush, BatchHeld, Goto, FlushEnds, After
<1>2. ASSUME NEW f \in Flushes, Take(f) PROVE OneFlush' /\ BatchHeld'
  <2>1. /\ pc[f] = "take" /\ batch'[f] = buffer /\ stopping' = stopping /\ upload' = upload
        /\ \A g \in Flushes \ {f} : pc'[g] = pc[g] /\ batch'[g] = batch[g]
    BY <1>2 DEF Take, TypeOK
  <2>2. CASE buffer = <<>>
    <3>1. pc'[f] = IF f = "periodic" THEN "sleep" ELSE "done"
      BY <1>2, <2>2 DEF Take, TypeOK
    <3> QED BY <2>1, <2>2, <3>1
  <2>3. CASE buffer # <<>>
    <3>1. pc'[f] = "convert"
      BY <1>2, <2>3 DEF Take, TypeOK
    <3> QED BY <2>1, <3>1
  <2> QED BY <2>2, <2>3
<1>3. ASSUME NEW f \in Flushes, Convert(f) PROVE OneFlush' /\ BatchHeld'
  <2>1. /\ pc[f] = "convert" /\ batch' = batch /\ stopping' = stopping
        /\ \A g \in Flushes \ {f} : pc'[g] = pc[g] /\ upload'[g] = upload[g]
    BY <1>3 DEF Convert, TypeOK
  <2>2. CASE Goto(f, "requeue") /\ upload' = upload
    <3>1. pc'[f] = "requeue"
      BY <2>2 DEF TypeOK
    <3> QED BY <2>1, <2>2, <3>1
  <2>3. CASE ~(Goto(f, "requeue") /\ upload' = upload)
    <3>1. /\ pc'[f] = "await"
          /\ upload'[f] = [state |-> "flying", entries |-> batch[f], part |-> PartName]
      BY <1>3, <2>3 DEF Convert, TypeOK
    <3>2. upload'[f].state = "flying" /\ upload'[f].entries = batch[f]
      BY <3>1
    <3> QED BY <2>1, <3>1, <3>2
  <2> QED BY <2>2, <2>3
<1>4. ASSUME NEW f \in Flushes, UploadLands(f) PROVE OneFlush' /\ BatchHeld'
  BY <1>4 DEF UploadLands, TypeOK
<1>5. ASSUME NEW f \in Flushes, UploadFails(f) PROVE OneFlush' /\ BatchHeld'
  BY <1>5 DEF UploadFails, TypeOK
<1>6. ASSUME NEW f \in Flushes, Resume(f) PROVE OneFlush' /\ BatchHeld'
  <2>1. /\ pc[f] = "await" /\ stopping' = stopping /\ upload'[f].state = "none"
        /\ \A g \in Flushes \ {f} :
             pc'[g] = pc[g] /\ upload'[g] = upload[g] /\ batch'[g] = batch[g]
    BY <1>6 DEF Resume, NoUpload, TypeOK
  <2>2. CASE upload[f].state = "ok"
    <3>1. pc'[f] = (IF f = "periodic" THEN "sleep" ELSE "done") /\ batch'[f] = <<>>
      BY <1>6, <2>2 DEF Resume, TypeOK
    <3> QED BY <2>1, <3>1
  <2>3. CASE upload[f].state # "ok"
    <3>1. pc'[f] = "requeue"
      BY <1>6, <2>3 DEF Resume, TypeOK
    <3> QED BY <2>1, <3>1
  <2> QED BY <2>2, <2>3
<1>7. ASSUME NEW f \in Flushes, Requeue(f) PROVE OneFlush' /\ BatchHeld'
  BY <1>7 DEF Requeue, TypeOK
<1>8. CASE Request
  BY <1>8 DEF Request
<1>9. CASE Wake
  BY <1>9 DEF Wake, TypeOK
<1>10. CASE Stop
  BY <1>10 DEF Stop, TypeOK
<1>11. CASE FinalFlush
  BY <1>11 DEF FinalFlush, TypeOK
<1>12. CASE Tick
  BY <1>12 DEF Tick
<1>13. CASE UNCHANGED vars
  BY <1>13 DEF vars
<1> QED BY <1>2, <1>3, <1>4, <1>5, <1>6, <1>7, <1>8, <1>9, <1>10, <1>11, <1>12, <1>13
        DEF Next, Work

(* While one flush holds a batch the other holds none, so a failed batch    *)
(* goes back in front of younger entries only.                              *)
LEMMA OrderStep ==
  TypeOK /\ BufferCapped /\ OneFlush /\ BatchHeld /\ InOrder /\ [Next]_vars
    => BufferCapped' /\ InOrder'
<1> SUFFICES ASSUME TypeOK, BufferCapped, OneFlush, BatchHeld, InOrder, [Next]_vars
             PROVE  BufferCapped' /\ InOrder'
  OBVIOUS
<1>1. /\ MaxBuffer \in Nat \ {0} /\ MaxEntries \in Nat /\ appended \in Nat
      /\ buffer \in Seq(Entries) /\ \A f \in Flushes : batch[f] \in Seq(Entries)
  BY WriterAssumption DEF TypeOK, Entries
<1>2. /\ <<>> \in Seq(Entries) /\ Len(<<>>) = 0 /\ Range(<<>>) = {}
      /\ Increasing(<<>>) /\ \A s : Before(s, <<>>) /\ Before(<<>>, s)
  BY EmptySeq DEF Range, Increasing, Before
<1>3. ASSUME NEW f \in Flushes, Take(f) PROVE BufferCapped' /\ InOrder'
  <2>1. buffer' = <<>> /\ appended' = appended
    BY <1>3 DEF Take
  <2>2. \A g \in Flushes : batch'[g] = batch[g] \/ batch'[g] = buffer
    BY <1>3 DEF Take, TypeOK
  <2>3. BufferCapped'
    BY <1>1, <1>2, <2>1 DEF BufferCapped
  <2> QED BY <1>2, <2>1, <2>2, <2>3 DEF InOrder
<1>4. ASSUME NEW f \in Flushes, Requeue(f) PROVE BufferCapped' /\ InOrder'
  <2> DEFINE s == batch[f] \o buffer
  <2>1. s \in Seq(Entries) /\ Increasing(s) /\ Range(s) = Range(batch[f]) \cup Range(buffer)
    BY <1>1, RejoinedInOrder DEF InOrder
  <2>2. buffer' = Newest(s) /\ appended' = appended
    BY <1>4 DEF Requeue, Requeued
  <2> HIDE DEF s
  <2>3. BufferCapped' /\ Increasing(buffer') /\ Range(buffer') \subseteq Range(s)
    BY <2>1, <2>2, NewestKeeps, NewestInOrder DEF BufferCapped
  <2>4. \A g \in Flushes : batch'[g] = <<>>
    <3>1. \A g \in Flushes \ {f} : batch[g] = <<>>
      BY <1>4, FlushNames DEF Requeue, OneFlush, BatchHeld
    <3> QED BY <1>4, <3>1 DEF Requeue, TypeOK
  <2> QED BY <1>2, <2>1, <2>2, <2>3, <2>4 DEF InOrder
<1>5. CASE Request
  <2> DEFINE s == Append(buffer, appended + 1)
  <2>1. appended + 1 \in Entries /\ \A x \in Range(buffer) : x < appended + 1
    BY <1>1, <1>5 DEF Request, Entries, InOrder
  <2>2. s \in Seq(Entries) /\ Increasing(s) /\ Range(s) = Range(buffer) \cup {appended + 1}
    BY <1>1, <2>1, AppendedInOrder DEF InOrder
  <2>3. buffer' = Newest(s) /\ appended' = appended + 1 /\ batch' = batch
    BY <1>5 DEF Request
  <2> HIDE DEF s
  <2>4. BufferCapped' /\ Increasing(buffer') /\ Range(buffer') \subseteq Range(s)
    BY <2>2, <2>3, NewestKeeps, NewestInOrder DEF BufferCapped
  <2>5. 1 .. appended \subseteq 1 .. appended + 1 /\ appended + 1 \in 1 .. appended + 1
    BY <1>1
  <2>6. ASSUME NEW f \in Flushes PROVE Before(batch[f], buffer')
    <3>1. \A x \in Range(batch[f]) : x < appended + 1
      <4>1. \A x \in 1 .. appended : x < appended + 1
        BY <1>1
      <4> QED BY <4>1 DEF InOrder
    <3> QED BY <2>2, <2>4, <3>1 DEF Before, InOrder
  <2>7. Range(buffer') \subseteq 1 .. appended'
    BY <2>2, <2>3, <2>4, <2>5 DEF InOrder
  <2>8. \A f \in Flushes : Range(batch'[f]) \subseteq 1 .. appended'
    BY <2>3, <2>5 DEF InOrder
  <2> QED BY <2>3, <2>4, <2>6, <2>7, <2>8 DEF InOrder
<1>6. ASSUME buffer' = buffer, appended' = appended,
             \A f \in Flushes : batch'[f] \in {batch[f], <<>>}
      PROVE  BufferCapped' /\ InOrder'
  BY <1>2, <1>6 DEF BufferCapped, InOrder
<1>7. ASSUME NEW f \in Flushes, Resume(f) PROVE BufferCapped' /\ InOrder'
  <2>1. \A g \in Flushes : batch'[g] \in {batch[g], <<>>}
    BY <1>7 DEF Resume, TypeOK
  <2> QED BY <1>6, <1>7, <2>1 DEF Resume
<1>8. CASE Stop
  <2>1. \A g \in Flushes : batch'[g] \in {batch[g], <<>>}
    BY <1>8 DEF Stop, TypeOK
  <2> QED BY <1>6, <1>8, <2>1 DEF Stop
<1>9. CASE \/ \E f \in Flushes : Convert(f) \/ UploadLands(f) \/ UploadFails(f)
           \/ Wake \/ FinalFlush \/ Tick \/ UNCHANGED vars
  BY <1>6, <1>9 DEF Convert, UploadLands, UploadFails, Wake, FinalFlush, Tick, vars
<1> QED BY <1>3, <1>4, <1>5, <1>7, <1>8, <1>9 DEF Next, Work

(* Two flushes of the running task never name the same part.                *)
LEMMA PartsStep ==
  TypeOK /\ OneFlush /\ BatchHeld /\ PartsNew /\ [Next]_vars => PartsNew'
<1> SUFFICES ASSUME TypeOK, OneFlush, BatchHeld, PartsNew, [Next]_vars, ~stopping'
             PROVE  PartsNew'
  BY DEF PartsNew
<1> DEFINE p == "periodic"
<1>1. /\ p \in Flushes /\ second \in Nat /\ Interval \in Nat \ {0} /\ wake \in Nat
      /\ Seconds \subseteq Nat
  BY FlushNames, WriterAssumption DEF TypeOK, Seconds
<1>2. ~stopping
  BY DEF Next, Work, Take, Convert, UploadLands, UploadFails, Resume, Requeue, Request, Wake,
         Stop, FinalFlush, Tick, vars
<1>3. \A f \in Flushes : Work(f) => f = p
  BY <1>2, FlushNames
     DEF Work, Take, Convert, UploadLands, UploadFails, Resume, Requeue, OneFlush, BatchHeld
<1>e. ASSUME FlushEnds(p), bucket' = bucket, second' = second, upload'[p].state = "none"
      PROVE  PartsNew'
  <2>1. wake' = second + Interval /\ pc'[p] = "sleep"
    BY <1>1, <1>e DEF FlushEnds, After, Goto, TypeOK
  <2>2. \A s \in Seconds : s <= second => s < second + Interval
    BY <1>1
  <2> QED BY <1>2, <1>e, <2>1, <2>2 DEF PartsNew
<1>4. CASE Take(p)
  <2>1. upload'[p].state = "none" /\ bucket' = bucket /\ second' = second /\ pc[p] = "take"
    <3>1. pc[p] = "take" /\ upload' = upload /\ bucket' = bucket /\ second' = second
      BY <1>4 DEF Take
    <3> QED BY <1>1, <3>1 DEF BatchHeld
  <2>2. CASE buffer = <<>>
    BY <1>e, <1>4, <2>1, <2>2 DEF Take
  <2>3. CASE buffer # <<>>
    <3>1. pc'[p] = "convert"
      BY <1>1, <1>4, <2>3 DEF Take, Goto, TypeOK
    <3> QED BY <1>2, <2>1, <3>1 DEF PartsNew
  <2> QED BY <2>2, <2>3
<1>5. CASE Convert(p)
  BY <1>1, <1>2, <1>5 DEF Convert, PartName, PartsNew, Goto, TypeOK, BatchHeld, Stored
<1>6. CASE UploadLands(p)
  <2>1. /\ pc[p] = "await" /\ upload[p].entries = batch[p] /\ upload[p].part \in Seconds
        /\ upload[p].part <= second
    BY <1>1, <1>2, <1>6 DEF UploadLands, BatchHeld, OneFlush, PartsNew, TypeOK
  <2>2. /\ pc' = pc /\ batch' = batch /\ second' = second
        /\ upload'[p].state # "flying"
        /\ bucket' = [bucket EXCEPT ![upload[p].part] = upload[p].entries]
    BY <1>1, <1>6 DEF UploadLands, TypeOK
  <2>3. bucket'[upload[p].part] = batch[p]
    BY <2>1, <2>2 DEF TypeOK
  <2>4. Range(batch'[p]) \subseteq Stored'
    BY <2>1, <2>2, <2>3 DEF Stored
  <2>5. \A s \in Seconds : bucket'[s] # <<>> => s <= second
    BY <1>2, <2>1, <2>2 DEF PartsNew, TypeOK
  <2> QED BY <2>1, <2>2, <2>4, <2>5 DEF PartsNew
<1>7. CASE UploadFails(p)
  BY <1>1, <1>2, <1>7 DEF UploadFails, PartsNew, TypeOK, Stored
<1>8. CASE Resume(p)
  <2>1. upload'[p].state = "none" /\ bucket' = bucket /\ second' = second
    BY <1>1, <1>8 DEF Resume, NoUpload, TypeOK
  <2>2. CASE upload[p].state = "ok"
    BY <1>e, <1>8, <2>1, <2>2 DEF Resume
  <2>3. CASE upload[p].state # "ok"
    <3>1. pc'[p] = "requeue"
      BY <1>1, <1>8, <2>3 DEF Resume, Goto, TypeOK
    <3> QED BY <1>2, <2>1, <3>1 DEF PartsNew
  <2> QED BY <2>2, <2>3
<1>9. CASE Requeue(p)
  <2>1. pc[p] = "requeue" /\ upload' = upload /\ FlushEnds(p) /\ bucket' = bucket /\ second' = second
    BY <1>9 DEF Requeue
  <2>2. upload'[p].state = "none"
    BY <1>1, <2>1 DEF BatchHeld
  <2> QED BY <1>e, <2>1, <2>2
<1>10. CASE Wake
  BY <1>1, <1>2, <1>10 DEF Wake, PartsNew, Goto, TypeOK, BatchHeld, Stored
<1>11. CASE Tick
  <2>1. /\ second' = second + 1 /\ pc' = pc /\ batch' = batch /\ upload' = upload
        /\ wake' = wake /\ bucket' = bucket
    BY <1>11 DEF Tick
  <2>2. \A s \in Nat : (s <= second => s <= second + 1) /\ (s < second => s < second + 1)
    BY <1>1
  <2>3. Stored' = Stored /\ upload[p].part \in Nat
    <3>1. upload[p].part \in Seconds
      BY <1>1 DEF TypeOK
    <3> QED BY <1>1, <2>1, <3>1 DEF Stored
  <2> HIDE DEF p
  <2>4. \A s \in Seconds : bucket[s] # <<>> => s <= second
    BY <1>2 DEF PartsNew
  <2>5. /\ \A s \in Seconds : bucket'[s] # <<>> => s <= second'
        /\ \A s \in Seconds : s < second => s < second'
        /\ \A s \in Nat : s <= second => s <= second'
    BY <1>1, <2>1, <2>2, <2>4
  <2> QED BY <1>1, <1>2, <2>1, <2>3, <2>5 DEF PartsNew, p
<1>12. CASE Request \/ FinalFlush \/ Stop \/ UNCHANGED vars
  BY <1>2, <1>12 DEF Request, FinalFlush, Stop, vars, PartsNew, Stored
<1> QED BY <1>3, <1>4, <1>5, <1>6, <1>7, <1>8, <1>9, <1>10, <1>11, <1>12 DEF Next, Work

(* IInv is inductive.                                                       *)
LEMMA Invariance == Spec => []IInv
<1>1. Init => IInv
  BY InitHolds
<1>2. IInv /\ [Next]_vars => IInv'
  BY TypeStep, FlushStep, OrderStep, PartsStep DEF IInv
<1> QED BY <1>1, <1>2, PTL DEF Spec

(* The writer's state is well-typed: no request, flush, failed upload or    *)
(* stop() leaves log_writer.py's buffer and batches anything but sequences  *)
(* of entries.                                                              *)
THEOREM TypeCorrect == Spec => []TypeOK
<1>1. IInv => TypeOK
  BY DEF IInv
<1> QED BY <1>1, Invariance, PTL

(* append() and the except block of _flush keep the cap together, and       *)
(* entries leave in the order they came, whatever upload fails.             *)
THEOREM BufferKeptHolds == Spec => []BufferKept
<1>1. IInv => BufferKept
  <2> SUFFICES ASSUME IInv, NEW f \in Flushes PROVE Increasing(batch[f] \o buffer)
    BY DEF IInv, BufferKept, OldestFirst
  <2>1. batch[f] \in Seq(Entries) /\ buffer \in Seq(Entries)
    BY DEF IInv, TypeOK, Entries
  <2> QED BY <2>1, RejoinedInOrder DEF IInv, InOrder
<1> QED BY <1>1, Invariance, PTL

-----------------------------------------------------------------------------
(* A sequence of entries has finitely many.                                 *)
LEMMA RangeFinite == ASSUME NEW s \in Seq(Entries) PROVE Range(s) \subseteq Entries /\ IsFiniteSet(Range(s))
<1>1. Range(s) \subseteq Entries
  BY ElementOfSeq, LenProperties DEF Range
<1>2. IsFiniteSet(Entries)
  BY FS_Interval, WriterAssumption DEF Entries
<1> QED BY <1>1, <1>2, FS_Subset

(* Until stop() the log holds the buffer and the batch of the periodic      *)
(* flush: a flying upload carries that batch.                               *)
LEMMA HeldOpen == IInv /\ ~stopping => Held = Range(batch["periodic"]) \cup Range(buffer)
<1> SUFFICES ASSUME IInv, ~stopping PROVE Held = Range(batch["periodic"]) \cup Range(buffer)
  OBVIOUS
<1>1. Range(<<>>) = {}
  BY DEF Range
<1>2. batch["final"] = <<>> /\ upload["final"].state = "none"
  BY FlushNames DEF IInv, OneFlush, BatchHeld
<1>3. Flying("periodic") \subseteq Range(batch["periodic"])
  BY FlushNames DEF IInv, OneFlush, BatchHeld, Flying
<1>4. Flying("final") = {} /\ Range(batch["final"]) = {}
  BY <1>1, <1>2 DEF Flying
<1>5. UNION {Range(batch[f]) \cup Flying(f) : f \in Flushes}
        = (Range(batch["periodic"]) \cup Flying("periodic")) \cup (Range(batch["final"]) \cup Flying("final"))
  BY FlushNames
<1> QED BY <1>3, <1>4, <1>5 DEF Held

(* ResolveLog counts with its own instance of FiniteSets.                   *)
LEMMA SameCardinality == \A S : Log!Cardinality(S) = Cardinality(S)
BY DEF Log!Cardinality, Cardinality

(* What the cap drops of the entries s may be given up.                     *)
LEMMA CapMayDrop ==
  ASSUME NEW s \in Seq(Entries), Increasing(s), NEW held, IsFiniteSet(held),
         Range(s) \subseteq held, NEW given, given \subseteq Range(s) \ Range(Newest(s))
  PROVE  Log!MayDrop(given, held)
<1> SUFFICES ASSUME NEW e \in given
             PROVE  Cardinality({n \in held \ given : n > e}) >= MaxBuffer
  BY SameCardinality DEF Log!MayDrop
<1>1. Range(Newest(s)) \subseteq Range(s)
  BY NewestInOrder
<1>2. Range(Newest(s)) \subseteq held \ given
  BY <1>1
<1>3. IsFiniteSet(held \ given)
  BY FS_Subset
<1>4. e \in Range(s) \ Range(Newest(s))
  OBVIOUS
<1> QED BY <1>2, <1>3, <1>4, DroppedForNewer

(* Every buffer, batch and flying upload holds entries the log holds.       *)
LEMMA HeldParts ==
  /\ Range(buffer) \subseteq Held
  /\ \A f \in Flushes : Range(batch[f]) \subseteq Held /\ Flying(f) \subseteq Held
BY DEF Held

(* Once stop() runs, the writer accepts nothing and stores only what it held.*)
LEMMA StoppingShrinks ==
  IInv /\ stopping /\ [Next]_vars =>
    /\ stopping' = stopping /\ appended' = appended
    /\ Held' \subseteq Held /\ Stored' \subseteq Stored \cup Held
<1> SUFFICES ASSUME IInv, stopping, [Next]_vars
             PROVE  /\ stopping' = stopping /\ appended' = appended
                    /\ Held' \subseteq Held /\ Stored' \subseteq Stored \cup Held
  OBVIOUS
<1>1. TypeOK
  BY DEF IInv
<1>2. ASSUME Range(buffer') \subseteq Held,
             \A f \in Flushes : batch'[f] \in {batch[f], buffer, <<>>},
             \A f \in Flushes : \/ upload'[f] = upload[f]
                               \/ upload'[f].state # "flying"
                               \/ upload'[f].entries = batch[f]
      PROVE  Held' \subseteq Held
  <2>1. \A f \in Flushes : Range(batch'[f]) \subseteq Held
    BY <1>2, HeldParts DEF Range
  <2>2. \A f \in Flushes : Flying(f)' \subseteq Held
    BY <1>2, HeldParts DEF Flying
  <2> QED BY <1>2, <2>1, <2>2 DEF Held
<1>3. bucket' = bucket => Stored' = Stored
  BY DEF Stored
<1>4. Range(<<>>) \subseteq Held
  BY DEF Range
<1>5. ASSUME NEW f \in Flushes, Take(f) PROVE Held' \subseteq Held
  BY <1>1, <1>2, <1>4, <1>5 DEF Take, TypeOK
<1>6. ASSUME NEW f \in Flushes, Convert(f) PROVE Held' \subseteq Held
  <2>1. \A g \in Flushes : upload'[g] = upload[g] \/ upload'[g].entries = batch[g]
    BY <1>1, <1>6 DEF Convert, TypeOK
  <2> QED BY <1>2, <1>6, <2>1, HeldParts DEF Convert
<1>7. ASSUME NEW f \in Flushes, UploadLands(f) \/ UploadFails(f) PROVE Held' \subseteq Held
  <2>1. \A g \in Flushes : upload'[g] = upload[g] \/ upload'[g].state # "flying"
    <3>1. PICK state \in {"ok", "failed"} : upload' = [upload EXCEPT ![f].state = state]
      BY <1>7 DEF UploadLands, UploadFails
    <3>2. upload'[f].state = state
      BY <1>1, <3>1 DEF TypeOK
    <3>3. \A g \in Flushes \ {f} : upload'[g] = upload[g]
      BY <1>1, <3>1 DEF TypeOK
    <3> QED BY <3>2, <3>3
  <2> QED BY <1>2, <1>7, <2>1, HeldParts DEF UploadLands, UploadFails
<1>8. ASSUME NEW f \in Flushes, UploadLands(f) PROVE Stored' \subseteq Stored \cup Held
  <2>1. \A s \in Seconds : bucket'[s] \in {bucket[s], upload[f].entries}
    BY <1>1, <1>8 DEF UploadLands, TypeOK
  <2>2. Range(upload[f].entries) \subseteq Held
    BY <1>8, HeldParts DEF UploadLands, Flying
  <2> QED BY <2>1, <2>2 DEF Stored
<1>9. ASSUME NEW f \in Flushes, Resume(f) PROVE Held' \subseteq Held
  <2>1. \A g \in Flushes : upload'[g] = upload[g] \/ upload'[g].state # "flying"
    BY <1>1, <1>9 DEF Resume, NoUpload, TypeOK
  <2>2. \A g \in Flushes : batch'[g] \in {batch[g], <<>>}
    BY <1>1, <1>9 DEF Resume, TypeOK
  <2> QED BY <1>2, <1>9, <2>1, <2>2, HeldParts DEF Resume
<1>10. ASSUME NEW f \in Flushes, Requeue(f) PROVE Held' \subseteq Held
  <2>1. batch[f] \in Seq(Entries) /\ buffer \in Seq(Entries)
    BY <1>1 DEF TypeOK, Entries
  <2>2. Range(buffer') \subseteq Range(batch[f]) \cup Range(buffer)
    <3> DEFINE s == batch[f] \o buffer
    <3>1. s \in Seq(Entries) /\ Increasing(s) /\ Range(s) = Range(batch[f]) \cup Range(buffer)
      BY <2>1, RejoinedInOrder DEF IInv, InOrder
    <3>2. buffer' = Newest(s)
      BY <1>10 DEF Requeue, Requeued
    <3> HIDE DEF s
    <3> QED BY <3>1, <3>2, NewestInOrder
  <2>3. \A g \in Flushes : batch'[g] \in {batch[g], <<>>}
    BY <1>1, <1>10 DEF Requeue, TypeOK
  <2> QED BY <1>2, <1>10, <2>2, <2>3, HeldParts DEF Requeue
<1>11. ASSUME FinalFlush \/ Tick \/ Wake \/ UNCHANGED vars PROVE Held' \subseteq Held
  BY <1>2, <1>11, HeldParts DEF FinalFlush, Tick, Wake, vars
<1>12. ~Request /\ ~Stop
  BY DEF Request, Stop
<1>13. ASSUME NEW f \in Flushes, Work(f)
       PROVE  stopping' = stopping /\ appended' = appended
  BY <1>13 DEF Work, Take, Convert, UploadLands, UploadFails, Resume, Requeue
<1>14. ASSUME NEW f \in Flushes, Work(f), ~UploadLands(f) PROVE Stored' = Stored
  BY <1>3, <1>14 DEF Work, Take, Convert, UploadFails, Resume, Requeue
<1>15. ASSUME NEW f \in Flushes, Work(f) PROVE Held' \subseteq Held
  BY <1>5, <1>6, <1>7, <1>9, <1>10, <1>15 DEF Work
<1>16. CASE \E f \in Flushes : Work(f)
  BY <1>8, <1>13, <1>14, <1>15, <1>16
<1>17. FinalFlush \/ Tick \/ Wake \/ UNCHANGED vars => stopping' = stopping /\ appended' = appended
  BY DEF FinalFlush, Tick, Wake, vars
<1>18. FinalFlush \/ Tick \/ Wake \/ UNCHANGED vars => bucket' = bucket
  BY DEF FinalFlush, Tick, Wake, vars
<1> QED BY <1>3, <1>11, <1>12, <1>16, <1>17, <1>18 DEF Next

(* While the log is open, an entry leaves it when the bucket has it or for  *)
(* MaxBuffer newer ones.                                                    *)
LEMMA OpenStep ==
  IInv /\ IInv' /\ ~stopping /\ ~stopping' /\ [Next]_vars => [Log!Next]_(Log!logVars)
<1> DEFINE p == "periodic"
           given == Held \ Held'
<1> SUFFICES ASSUME IInv, IInv', ~stopping, ~stopping', [Next]_vars
             PROVE  [Log!Next]_(Log!logVars)
  OBVIOUS
<1>1. /\ TypeOK /\ p \in Flushes
      /\ batch[p] \in Seq(Entries) /\ buffer \in Seq(Entries)
      /\ Increasing(batch[p]) /\ Increasing(buffer) /\ Before(batch[p], buffer)
      /\ Range(<<>>) = {}
  BY FlushNames DEF IInv, TypeOK, InOrder, Entries, Range
<1>2. /\ Held = Range(batch[p]) \cup Range(buffer)
      /\ Held' = Range(batch'[p]) \cup Range(buffer')
  <2>1. Held = Range(batch[p]) \cup Range(buffer)
    BY HeldOpen
  <2>2. (IInv /\ ~stopping)' => (Held = Range(batch["periodic"]) \cup Range(buffer))'
    BY HeldOpen, PTL
  <2> QED BY <2>1, <2>2
<1>3. IsFiniteSet(Held)
  BY <1>1, <1>2, RangeFinite, FS_Union
<1>4. bucket' = bucket => Stored' = Stored
  BY DEF Stored
<1>5. \A f \in Flushes : Work(f) => f = p
  BY FlushNames
     DEF Work, Take, Convert, UploadLands, UploadFails, Resume, Requeue, IInv, OneFlush, BatchHeld
<1>6. ASSUME Held' = Held, Stored' = Stored, appended' = appended
      PROVE  [Log!Next]_(Log!logVars)
  BY <1>6 DEF Log!logVars
<1>7. CASE Take(p)
  <2>1. batch[p] = <<>> /\ batch'[p] = buffer /\ buffer' = <<>>
    BY <1>1, <1>7 DEF Take, IInv, BatchHeld, TypeOK
  <2> QED BY <1>1, <1>2, <1>4, <1>6, <1>7, <2>1 DEF Take
<1>8. CASE Convert(p) \/ UploadFails(p) \/ Wake \/ Tick \/ UNCHANGED vars
  <2>1. batch' = batch /\ buffer' = buffer /\ bucket' = bucket /\ appended' = appended
    BY <1>8 DEF Convert, UploadFails, Wake, Tick, vars
  <2> QED BY <1>2, <1>4, <1>6, <2>1
<1>9. CASE UploadLands(p)
  <2>1. /\ upload[p].entries = batch[p] /\ upload[p].part \in Seconds
        /\ bucket' = [bucket EXCEPT ![upload[p].part] = upload[p].entries]
        /\ batch' = batch /\ buffer' = buffer /\ appended' = appended
    BY <1>1, <1>9 DEF UploadLands, IInv, OneFlush, BatchHeld, TypeOK
  <2>2. bucket[upload[p].part] = <<>>
    <3>1. bucket[upload[p].part] # <<>> => upload[p].part < upload[p].part
      BY <1>9, <2>1 DEF UploadLands, IInv, PartsNew
    <3>2. upload[p].part \in Nat
      BY <2>1, WriterAssumption DEF Seconds
    <3> QED BY <3>1, <3>2
  <2>3. Stored' = Stored \cup Range(batch[p])
    <3>1. /\ bucket'[upload[p].part] = batch[p]
          /\ \A s \in Seconds \ {upload[p].part} : bucket'[s] = bucket[s]
      BY <1>1, <2>1 DEF TypeOK
    <3> QED BY <1>1, <2>1, <2>2, <3>1 DEF Stored
  <2>4. Held' = Held /\ Range(batch[p]) \in SUBSET Held
    BY <1>2, <2>1
  <2>5. Log!Store
    BY <2>1, <2>3, <2>4 DEF Log!Store
  <2> QED BY <2>5 DEF Log!Next
<1>10. ASSUME Held' \subseteq Held, Log!MayDrop(given \ Stored, Held),
              Stored' = Stored, appended' = appended
       PROVE  Log!Forget
  <2>1. given \in SUBSET Held /\ Held' = Held \ given
    BY <1>10
  <2> HIDE DEF given
  <2> QED BY <1>10, <2>1 DEF Log!Forget
<1>11. CASE Resume(p)
  <2>1. bucket' = bucket /\ buffer' = buffer /\ appended' = appended
    BY <1>11 DEF Resume
  <2>2. CASE upload[p].state = "ok"
    <3>1. batch'[p] = <<>>
      BY <1>1, <1>11, <2>2 DEF Resume, TypeOK
    <3>2. given \ Stored = {}
      BY <1>2, <2>1, <2>2 DEF IInv, PartsNew
    <3>3. Log!MayDrop(given \ Stored, Held)
      BY <3>2 DEF Log!MayDrop
    <3>4. Held' \subseteq Held
      BY <1>1, <1>2, <2>1, <3>1
    <3> QED BY <1>4, <1>10, <2>1, <3>3, <3>4 DEF Log!Next
  <2>3. CASE upload[p].state # "ok"
    <3>1. batch' = batch
      BY <1>11, <2>3 DEF Resume
    <3> QED BY <1>2, <1>4, <1>6, <2>1, <3>1
  <2> QED BY <2>2, <2>3
<1>12. CASE Requeue(p)
  <2> DEFINE s == batch[p] \o buffer
  <2>1. s \in Seq(Entries) /\ Increasing(s) /\ Range(s) = Held
    BY <1>1, <1>2, RejoinedInOrder
  <2>2. buffer' = Newest(s) /\ batch'[p] = <<>> /\ bucket' = bucket /\ appended' = appended
    BY <1>1, <1>12 DEF Requeue, Requeued, TypeOK
  <2> HIDE DEF s
  <2>3. Held' = Range(Newest(s)) /\ Held' \subseteq Held
    BY <1>1, <1>2, <2>1, <2>2, NewestInOrder
  <2>4. Log!MayDrop(given \ Stored, Held)
    BY <1>3, <2>1, <2>3, CapMayDrop
  <2> QED BY <1>4, <1>10, <2>2, <2>3, <2>4 DEF Log!Next
<1>13. CASE Request
  <2> DEFINE s == Append(buffer, appended + 1)
             all == Held \cup {appended + 1}
             dropped == all \ Held'
  <2>1. /\ appended \in Nat /\ appended + 1 \in Entries
        /\ \A x \in all : x <= appended + 1 /\ x \in Nat
    BY <1>1, <1>2, <1>13, WriterAssumption DEF Request, TypeOK, Entries, IInv, InOrder
  <2>2. s \in Seq(Entries) /\ Increasing(s) /\ Range(s) = Range(buffer) \cup {appended + 1}
    <3>1. \A x \in Range(buffer) : x < appended + 1
      <4>1. \A x \in 1 .. appended : x < appended + 1
        BY <2>1
      <4> QED BY <4>1 DEF IInv, InOrder
    <3> QED BY <1>1, <2>1, <3>1, AppendedInOrder
  <2>3. /\ buffer' = Newest(s) /\ batch' = batch /\ bucket' = bucket
        /\ appended' = appended + 1
    BY <1>13 DEF Request
  <2> HIDE DEF s
  <2>4. Range(buffer') \subseteq Range(s) /\ Held' \subseteq all
    BY <1>2, <2>2, <2>3, NewestInOrder
  <2>5. dropped \subseteq Range(s) \ Range(Newest(s))
    BY <1>2, <2>2, <2>3
  <2>6. IsFiniteSet(all) /\ Range(s) \subseteq all
    BY <1>2, <1>3, <2>2, FS_AddElement
  <2>7. Log!MayDrop(dropped, all)
    <3> HIDE DEF all, dropped
    <3> QED BY <2>2, <2>5, <2>6, CapMayDrop
  <2>8. appended + 1 \notin dropped
    <3>1. SUFFICES ASSUME appended + 1 \in dropped PROVE FALSE
      OBVIOUS
    <3> DEFINE newer == {n \in all \ dropped : n > appended + 1}
    <3>2. Cardinality(newer) >= MaxBuffer
      BY <2>7, <3>1, SameCardinality DEF Log!MayDrop
    <3>3. newer = {}
      <4> HIDE DEF all, dropped
      <4> QED BY <2>1
    <3>4. MaxBuffer \in Nat \ {0} /\ Cardinality({}) = 0
      BY WriterAssumption, FS_EmptySet
    <3> HIDE DEF newer
    <3> QED BY <3>2, <3>3, <3>4
  <2>9. dropped \in SUBSET Held /\ Held' = all \ dropped
    BY <2>4, <2>8
  <2>10. Log!Accept
    <3> HIDE DEF dropped
    <3> QED BY <1>4, <2>3, <2>7, <2>9 DEF Log!Accept
  <2> QED BY <2>10 DEF Log!Next
<1>14. ~Stop /\ ~FinalFlush
  BY DEF Stop, FinalFlush
<1> QED BY <1>5, <1>7, <1>8, <1>9, <1>11, <1>12, <1>13, <1>14 DEF Next, Work

(* log_writer.py keeps the promise of ResolveLog: until stop() an entry is  *)
(* held, stored, or given up for _MAX_BUFFER_SIZE newer ones; a stored one  *)
(* stays readable.                                                          *)
THEOREM ImplementsHolds == Spec => ImplementsLog
<1>1. Init => Log!Init
  <2> SUFFICES ASSUME Init PROVE Log!Init
    OBVIOUS
  <2>1. Range(<<>>) = {}
    BY DEF Range
  <2>2. Held = {} /\ Stored = {}
    BY <2>1 DEF Init, Held, Stored, Flying, NoUpload, Flushes
  <2> QED BY <2>2 DEF Init, Log!Init
<1>2. IInv /\ IInv' /\ [Next]_vars => [Log!Next]_(Log!logVars)
  <2> SUFFICES ASSUME IInv, IInv', [Next]_vars PROVE [Log!Next]_(Log!logVars)
    OBVIOUS
  <2>1. CASE stopping
    <3>1. Log!Closing
      BY <2>1, StoppingShrinks DEF Log!Closing
    <3> QED BY <3>1 DEF Log!Next
  <2>2. CASE ~stopping /\ stopping'
    <3>1. Stop
      BY <2>2 DEF Next, Work, Take, Convert, UploadLands, UploadFails, Resume, Requeue,
                  Request, Wake, FinalFlush, Tick, vars
    <3>2. Range(batch'["periodic"]) = {} /\ Range(batch'["final"]) = Range(batch["final"])
      BY <3>1, FlushNames DEF Stop, IInv, TypeOK, Range
    <3>3. Held' \subseteq Held /\ Stored' = Stored /\ appended' = appended
      BY <3>1, <3>2, FlushNames DEF Stop, Held, Flying, Stored
    <3>4. Log!Close
      BY <2>2, <3>3 DEF Log!Close
    <3> QED BY <3>4 DEF Log!Next
  <2> QED BY <2>1, <2>2, OpenStep
<1> QED BY <1>1, <1>2, Invariance, PTL DEF Spec, ImplementsLog, Log!Spec
=============================================================================
