-------------------------- MODULE SubmissionProofs --------------------------
(* Type correctness of Submission; that its toasts and its progress are true, *)
(* that handlers overlap only by a confirmation, and that a chunk bounds the requests out. *)
EXTENDS Submission, TLAPS, FiniteSetTheorems

USE BatchAssumption DEF Run, NoRun, Kind, ReqState

LEMMA Sizes == ASSUME NEW k PROVE Size(k) \in 1..BatchSize
BY DEF Size

\* The end of a chunk: what was sent before, and the chunk.
LEMMA Chunks ==
    ASSUME NEW n \in Nat, NEW k, n <= Size(k)
    PROVE  /\ SentAfter(n, k) \in Nat /\ SentAfter(n, k) <= Size(k) /\ n <= SentAfter(n, k)
           /\ 1..SentAfter(n, k) = (1..n) \cup ChunkAfter(n, k)
           /\ ChunkAfter(n, k) \subseteq 1..BatchSize
BY Sizes DEF SentAfter, ChunkAfter

\* Every reachable state is well typed, for every size of batches and chunks.
THEOREM SubmissionTypeCorrect == Spec => []TypeOK
<1>0. [d \in {"batch", "flush"} |-> "closed"] \in [{"batch", "flush"} -> {"closed", "open", "fading"}]
  BY Zenon
<1>1. Init => TypeOK
  <2> SUFFICES ASSUME Init PROVE TypeOK
    OBVIOUS
  <2> USE DEF Init
  <2>1. /\ stage \in [Run -> {"new", "open", "ended"}] /\ kind \in [Run -> Kind] /\ sent \in [Run -> Nat]
    OBVIOUS
  <2>2. req \in [Run -> [1..BatchSize -> ReqState]]
    BY Zenon
  <2>3. dialog \in [{"batch", "flush"} -> {"closed", "open", "fading"}]
    BY <1>0
  <2>4. /\ mounted \in BOOLEAN /\ here \subseteq Run /\ submitting \in BOOLEAN
        /\ again \in Nat /\ timers \in Nat /\ failures \in Nat
        /\ progress \in [run : Run \cup {NoRun}, n : Nat]
        /\ toast \in [type : {"none", "success", "error"}, run : Run \cup {NoRun}]
    BY DEF NoProgress, NoToast
  <2> QED
    BY <2>1, <2>2, <2>3, <2>4 DEF TypeOK
<1>2. TypeOK /\ [Next]_vars => TypeOK'
  <2> SUFFICES ASSUME TypeOK, [Next]_vars PROVE TypeOK'
    OBVIOUS
  <2> USE DEF TypeOK
  <2>1. ASSUME NEW r \in Run, NEW tasks PROVE Ask(r, tasks) \in [Run -> [1..BatchSize -> ReqState]]
    BY DEF Ask
  <2>2. ASSUME NEW r \in Run, NEW k \in Kind, Start(r, k)
        PROVE /\ stage' \in [Run -> {"new", "open", "ended"}] /\ kind' \in [Run -> Kind]
              /\ here' \subseteq Run /\ req' \in [Run -> [1..BatchSize -> ReqState]]
              /\ submitting' \in BOOLEAN /\ progress' \in [run : Run \cup {NoRun}, n : Nat]
              /\ UNCHANGED <<mounted, sent, toast, timers, failures>>
    BY <2>2, <2>1 DEF Start
  <2>3. ASSUME NEW r \in Run, ShowToast(r, "success") \/ ShowToast(r, "error")
        PROVE toast' \in [type : {"none", "success", "error"}, run : Run \cup {NoRun}] /\ timers' \in Nat
    BY <2>3 DEF ShowToast
  <2>4. ASSUME NEW r \in Run, Finally(r)
        PROVE /\ stage' \in [Run -> {"new", "open", "ended"}] /\ submitting' \in BOOLEAN
              /\ progress' \in [run : Run \cup {NoRun}, n : Nat]
    BY <2>4 DEF Finally, NoProgress
  <2>5. \A r \in Run : SentNext(r) \in Nat
    BY Sizes DEF SentNext, SentAfter
  <2>6. ASSUME NEW r \in Run, Submit(r) PROVE TypeOK'
    BY <2>6, <2>2 DEF Submit
  <2>7. ASSUME NEW d \in {"batch", "flush"}, OpenDialog(d) \/ Cancel(d) \/ Faded(d) PROVE TypeOK'
    <3>1. dialog' \in [{"batch", "flush"} -> {"closed", "open", "fading"}]
      BY <2>7 DEF OpenDialog, Cancel, Faded
    <3>2. UNCHANGED <<mounted, handlers, submitting, progress, toast, timers, again, failures>>
      BY <2>7 DEF OpenDialog, Cancel, Faded
    <3> QED
      BY <3>1, <3>2 DEF handlers
  <2>8. ASSUME NEW r \in Run, NEW d \in {"batch", "flush"}, Confirm(r, d) PROVE TypeOK'
    <3>1. Start(r, d) /\ d \in Kind
      BY <2>8 DEF Confirm
    <3>2. dialog' \in [{"batch", "flush"} -> {"closed", "open", "fading"}] /\ again' \in Nat
      BY <2>8 DEF Confirm
    <3> QED
      BY <3>1, <3>2, <2>2
  <2>9. ASSUME NEW r \in Run, NextChunk(r) PROVE TypeOK'
    BY <2>9, <2>1, <2>5 DEF NextChunk
  <2>10. ASSUME NEW r \in Run, Succeed(r) PROVE TypeOK'
    BY <2>10, <2>3, <2>4, <2>5 DEF Succeed
  <2>11. ASSUME NEW r \in Run, Fail(r) PROVE TypeOK'
    BY <2>11, <2>3, <2>4 DEF Fail
  <2>12. ASSUME NEW r \in Run, NEW i \in 1..BatchSize, NEW outcome \in {"ok", "refused", "lost"},
                Reply(r, i, outcome)
         PROVE TypeOK'
    BY <2>12 DEF Reply, flags
  <2>13. CASE TimerFires
    BY <2>13 DEF TimerFires, handlers, NoToast
  <2>14. ASSUME Leave PROVE TypeOK'
    <3>1. dialog' \in [{"batch", "flush"} -> {"closed", "open", "fading"}]
      BY <2>14, <1>0 DEF Leave
    <3> QED
      BY <2>14, <3>1 DEF Leave, NoToast, NoProgress
  <2>15. CASE Return
    BY <2>15 DEF Return, handlers, flags
  <2>16. CASE UNCHANGED vars
    BY <2>16 DEF vars, handlers, flags
  <2> HIDE DEF TypeOK
  <2> QED
    BY <2>6, <2>7, <2>8, <2>9, <2>10, <2>11, <2>12, <2>13, <2>14, <2>15, <2>16 DEF Next
<1> QED
  BY <1>1, <1>2, PTL DEF Spec
-----------------------------------------------------------------------------
(* What is known of the tasks a handler has sent, and of what it says.      *)

SentIsAccepted ==
    /\ \A r \in Run : stage[r] = "new" => sent[r] = 0
    /\ \A r \in Run : sent[r] <= Size(kind[r])
    /\ \A r \in Run : \A i \in 1..sent[r] : req[r][i] = "ok"

ToastIsTrue ==
    toast.type = "success" =>
        /\ toast.run \in Run
        /\ stage[toast.run] = "ended"
        /\ sent[toast.run] = Size(kind[toast.run])

ProgressIsTrue ==
    progress.run # NoRun => progress.run \in Run /\ progress.n <= sent[progress.run]

\* The requests that are out belong to the chunk the handler is at.
OutIsChunk ==
    \A r \in Run : \A i \in 1..BatchSize :
        req[r][i] = "asked" => stage[r] # "new" /\ i \in Chunk(r)

TruthInv == SentIsAccepted /\ ToastIsTrue /\ ProgressIsTrue /\ OutIsChunk

\* A handler that starts has sent nothing.
LEMMA StartKeepsTruth ==
    ASSUME TypeOK, TruthInv, NEW r \in Run, NEW k \in Kind, Start(r, k)
    PROVE  TruthInv'
<1> USE DEF TypeOK, TruthInv, Start
<1>1. sent[r] = 0 /\ stage[r] = "new" /\ kind'[r] = k /\ Size(k) \in 1..BatchSize
  BY Sizes DEF SentIsAccepted
<1>2. \A q \in Run : q # r => kind'[q] = kind[q] /\ req'[q] = req[q] /\ stage'[q] = stage[q]
  BY DEF Ask
<1>3. SentIsAccepted'
  <2>1. sent' = sent
    OBVIOUS
  <2>2. ASSUME NEW q \in Run
        PROVE  /\ stage'[q] = "new" => sent'[q] = 0
               /\ sent'[q] <= Size(kind'[q])
               /\ \A i \in 1..sent'[q] : req'[q][i] = "ok"
    <3>1. CASE q = r
      BY <1>1, <2>1, <3>1
    <3>2. CASE q # r
      BY <1>2, <2>1, <3>2 DEF SentIsAccepted
    <3> QED
      BY <3>1, <3>2
  <2> QED
    BY <2>2 DEF SentIsAccepted
<1>4. ToastIsTrue'
  BY <1>1, <1>2 DEF ToastIsTrue
<1>5. ProgressIsTrue'
  BY DEF ProgressIsTrue
<1>6. OutIsChunk'
  <2> SUFFICES ASSUME NEW q \in Run, NEW i \in 1..BatchSize, req'[q][i] = "asked"
               PROVE  stage'[q] # "new" /\ i \in Chunk(q)'
    BY DEF OutIsChunk
  <2>1. CASE q # r
    BY <2>1, <1>2 DEF OutIsChunk, Chunk
  <2>2. CASE q = r
    <3>1. req[r][i] # "asked"
      BY <1>1 DEF OutIsChunk
    <3> QED
      BY <2>2, <3>1, <1>1 DEF Ask, Chunk
  <2> QED
    BY <2>1, <2>2
<1> QED
  BY <1>3, <1>4, <1>5, <1>6

\* Sending the next chunk touches no task that was sent.
LEMMA NextChunkKeepsTruth ==
    ASSUME TypeOK, TruthInv, NEW r \in Run, NextChunk(r)
    PROVE  TruthInv'
<1> USE DEF TypeOK, TruthInv, NextChunk
<1> DEFINE n == SentNext(r)
<1>1. /\ n \in Nat /\ n <= Size(kind[r]) /\ sent[r] <= n
      /\ 1..n = (1..sent[r]) \cup Chunk(r)
  BY Chunks DEF SentIsAccepted, SentNext, Chunk
<1>2. \A i \in 1..n : req[r][i] = "ok"
  <2>1. \A i \in 1..sent[r] : req[r][i] = "ok"
    BY DEF SentIsAccepted
  <2>2. \A i \in Chunk(r) : req[r][i] = "ok"
    BY DEF ChunkSucceeded
  <2> QED
    BY <1>1, <2>1, <2>2
<1>3. \A i \in ChunkAfter(n, kind[r]) : i \notin 1..n /\ i \in 1..BatchSize
  BY <1>1, Sizes DEF ChunkAfter
<1>4. SentIsAccepted'
  <2>1. \A i \in 1..n : req'[r][i] = "ok"
    <3>1. 1..n \subseteq 1..BatchSize
      BY <1>1, Sizes
    <3> QED
      BY <1>2, <1>3, <3>1 DEF Ask
  <2>2. sent'[r] = n /\ \A q \in Run : q # r => sent'[q] = sent[q] /\ req'[q] = req[q]
    BY DEF Ask
  <2>3. ASSUME NEW q \in Run, NEW i \in 1..sent'[q] PROVE req'[q][i] = "ok"
    <3>1. CASE q = r
      BY <2>1, <2>2, <2>3, <3>1, Zenon
    <3>2. CASE q # r
      BY <2>2, <2>3, <3>2 DEF SentIsAccepted
    <3> QED
      BY <3>1, <3>2
  <2>4. \A q \in Run : (stage'[q] = "new" => sent'[q] = 0) /\ sent'[q] <= Size(kind'[q])
    BY <1>1, <2>2 DEF SentIsAccepted
  <2> QED
    BY <2>3, <2>4 DEF SentIsAccepted
<1>5. ToastIsTrue'
  BY DEF ToastIsTrue
<1>6. ProgressIsTrue'
  BY <1>1 DEF ProgressIsTrue
<1>7. OutIsChunk'
  <2> SUFFICES ASSUME NEW q \in Run, NEW i \in 1..BatchSize, req'[q][i] = "asked"
               PROVE  stage'[q] # "new" /\ i \in Chunk(q)'
    BY DEF OutIsChunk
  <2>1. CASE q # r
    BY <2>1 DEF OutIsChunk, Chunk, Ask
  <2>2. CASE q = r
    <3>1. req[r][i] = "asked" => i \in ChunkAfter(n, kind[r])
      BY DEF OutIsChunk, ChunkSucceeded
    <3> QED
      BY <2>2, <3>1, <1>1 DEF Ask, Chunk
  <2> QED
    BY <2>1, <2>2
<1> QED
  BY <1>4, <1>5, <1>6, <1>7

\* A handler that succeeds has sent all its tasks.
LEMMA SucceedKeepsTruth ==
    ASSUME TypeOK, TruthInv, NEW r \in Run, Succeed(r)
    PROVE  TruthInv'
<1> USE DEF TypeOK, TruthInv, Succeed, Finally
<1> DEFINE n == SentNext(r)
<1>1. /\ n \in Nat /\ n = Size(kind[r]) /\ sent[r] <= n
      /\ 1..n = (1..sent[r]) \cup Chunk(r)
  BY Chunks DEF SentIsAccepted, SentNext, Chunk
<1>2. \A i \in 1..n : req[r][i] = "ok"
  <2>1. \A i \in 1..sent[r] : req[r][i] = "ok"
    BY DEF SentIsAccepted
  <2>2. \A i \in Chunk(r) : req[r][i] = "ok"
    BY DEF ChunkSucceeded
  <2> QED
    BY <1>1, <2>1, <2>2
<1>3. SentIsAccepted'
  <2>1. sent'[r] = n /\ \A q \in Run : q # r => sent'[q] = sent[q]
    OBVIOUS
  <2>2. ASSUME NEW q \in Run, NEW i \in 1..sent'[q] PROVE req'[q][i] = "ok"
    <3>1. CASE q = r
      BY <1>2, <2>1, <2>2, <3>1, Zenon
    <3>2. CASE q # r
      BY <2>1, <2>2, <3>2 DEF SentIsAccepted
    <3> QED
      BY <3>1, <3>2
  <2>3. \A q \in Run : (stage'[q] = "new" => sent'[q] = 0) /\ sent'[q] <= Size(kind'[q])
    BY <1>1, <2>1 DEF SentIsAccepted
  <2> QED
    BY <2>2, <2>3 DEF SentIsAccepted
<1>4. ToastIsTrue'
  BY <1>1 DEF ToastIsTrue, ShowToast
<1>5. ProgressIsTrue'
  BY <1>1 DEF ProgressIsTrue, NoProgress
<1>6. OutIsChunk'
  BY <1>1, <1>2 DEF OutIsChunk, Chunk, ChunkSucceeded
<1> QED
  BY <1>3, <1>4, <1>5, <1>6

\* The invariant: what a handler has sent, the server has accepted.
LEMMA TruthInvariant == Spec => []TruthInv
<1>1. Init => TruthInv
  BY DEF Init, TruthInv, SentIsAccepted, ToastIsTrue, ProgressIsTrue, OutIsChunk, NoToast,
         NoProgress, Size
<1>2. TypeOK /\ TruthInv /\ [Next]_vars => TruthInv'
  <2> SUFFICES ASSUME TypeOK, TruthInv, [Next]_vars PROVE TruthInv'
    OBVIOUS
  <2>1. ASSUME NEW r \in Run, Submit(r) PROVE TruthInv'
    BY <2>1, StartKeepsTruth DEF Submit
  <2>2. ASSUME NEW r \in Run, NEW d \in {"batch", "flush"}, Confirm(r, d) PROVE TruthInv'
    BY <2>2, StartKeepsTruth DEF Confirm
  <2>3. ASSUME NEW r \in Run, NextChunk(r) PROVE TruthInv'
    BY <2>3, NextChunkKeepsTruth
  <2>4. ASSUME NEW r \in Run, Succeed(r) PROVE TruthInv'
    BY <2>4, SucceedKeepsTruth
  <2>5. ASSUME NEW r \in Run, Fail(r) PROVE TruthInv'
    <3> USE <2>5 DEF TypeOK, TruthInv, Fail, Finally
    <3>1. SentIsAccepted'
      BY DEF SentIsAccepted
    <3>2. ToastIsTrue'
      BY DEF ToastIsTrue, ShowToast
    <3>3. ProgressIsTrue'
      BY DEF ProgressIsTrue, NoProgress
    <3>4. OutIsChunk'
      BY DEF OutIsChunk, Chunk
    <3> QED
      BY <3>1, <3>2, <3>3, <3>4
  <2>6. ASSUME NEW r \in Run, NEW i \in 1..BatchSize, NEW outcome \in {"ok", "refused", "lost"},
               Reply(r, i, outcome)
        PROVE TruthInv'
    <3> USE <2>6 DEF TypeOK, TruthInv, Reply, flags
    <3>1. SentIsAccepted'
      BY DEF SentIsAccepted
    <3>2. ToastIsTrue' /\ ProgressIsTrue'
      BY DEF ToastIsTrue, ProgressIsTrue
    <3>3. OutIsChunk'
      BY DEF OutIsChunk, Chunk
    <3> QED
      BY <3>1, <3>2, <3>3
  <2>7. ASSUME UNCHANGED handlers, UNCHANGED <<progress, toast>> \/ (toast' = NoToast /\ progress' = progress)
               \/ (toast' = NoToast /\ progress' = NoProgress)
        PROVE TruthInv'
    BY <2>7 DEF handlers, TruthInv, SentIsAccepted, ToastIsTrue, ProgressIsTrue, OutIsChunk, Chunk,
                NoToast, NoProgress
  <2>8. ASSUME NEW d \in {"batch", "flush"}, OpenDialog(d) \/ Cancel(d) \/ Faded(d) PROVE TruthInv'
    BY <2>8, <2>7 DEF OpenDialog, Cancel, Faded
  <2>9. CASE TimerFires
    BY <2>9, <2>7 DEF TimerFires
  <2>10. CASE Leave
    BY <2>10 DEF Leave, TruthInv, SentIsAccepted, ToastIsTrue, ProgressIsTrue, OutIsChunk, Chunk,
                 NoToast, NoProgress
  <2>11. CASE Return
    BY <2>11, <2>7 DEF Return, flags
  <2>12. CASE UNCHANGED vars
    BY <2>12, <2>7 DEF vars, flags
  <2> QED
    BY <2>1, <2>2, <2>3, <2>4, <2>5, <2>6, <2>8, <2>9, <2>10, <2>11, <2>12 DEF Next
<1> QED
  BY <1>1, <1>2, SubmissionTypeCorrect, PTL DEF Spec

\* What the panel says is so, for every size of batches and chunks and whatever
\* fails: executeBatch announces nothing that the server has not taken.
THEOREM ThePanelIsHonest == Spec => []TellsTheTruth
<1>1. TypeOK /\ TruthInv => TellsTheTruth
  <2> SUFFICES ASSUME TypeOK, TruthInv PROVE TellsTheTruth
    OBVIOUS
  <2> USE DEF TypeOK, TruthInv
  <2>1. \A r \in Run : 1..sent[r] \subseteq Accepted(r)
    BY Sizes DEF SentIsAccepted, Accepted
  <2>2. toast.type = "success" => TasksOf(toast.run) \subseteq Accepted(toast.run)
    BY <2>1 DEF ToastIsTrue, TasksOf
  <2>3. progress.run # NoRun => 1..progress.n \subseteq Accepted(progress.run)
    BY <2>1 DEF ProgressIsTrue
  <2> QED
    BY <2>2, <2>3 DEF TellsTheTruth
<1> QED
  BY <1>1, TruthInvariant, SubmissionTypeCorrect, PTL

\* A handler has no more requests out than CONCURRENCY at a time, for every size
\* of batches and chunks: Promise.all over one slice of the batch.
THEOREM ChunksBoundRequests == Spec => []BoundedInFlight
<1>1. TypeOK /\ TruthInv => BoundedInFlight
  <2> SUFFICES ASSUME TypeOK, TruthInv, NEW r \in Run
               PROVE  Cardinality({i \in 1..BatchSize : req[r][i] = "asked"}) <= CONCURRENCY
    BY DEF BoundedInFlight
  <2> DEFINE a == sent[r] + 1
             b == sent[r] + CONCURRENCY
  <2>1. a \in Int /\ b \in Int /\ b - a + 1 = CONCURRENCY /\ ~(a > b)
    BY DEF TypeOK
  <2>2. {i \in 1..BatchSize : req[r][i] = "asked"} \subseteq a..b
    BY DEF TypeOK, TruthInv, OutIsChunk, Chunk, ChunkAfter
  <2>3. IsFiniteSet(a..b) /\ Cardinality(a..b) = CONCURRENCY
    BY <2>1, FS_Interval
  <2> HIDE DEF a, b
  <2>4. Cardinality({i \in 1..BatchSize : req[r][i] = "asked"}) <= Cardinality(a..b)
    BY <2>2, <2>3, FS_Subset
  <2> QED
    BY <2>3, <2>4
<1> QED
  BY <1>1, TruthInvariant, SubmissionTypeCorrect, PTL
-----------------------------------------------------------------------------
LEMMA RunningIsFinite == ASSUME NEW S \in SUBSET Run PROVE IsFiniteSet(S)
<1>1. IsFiniteSet(1..MaxRuns)
  BY FS_Interval
<1> QED
  BY <1>1, FS_Subset

\* A handler that starts joins those that run.
LEMMA StartOverlaps ==
    ASSUME TypeOK, OverlapsAreConfirmed, NEW r \in Run, NEW k \in Kind, Start(r, k),
           again' = IF submitting THEN again + 1 ELSE again
    PROVE  OverlapsAreConfirmed'
<1> USE DEF TypeOK, OverlapsAreConfirmed
<1>1. Running' = Running \cup {r} /\ r \notin Running /\ submitting'
  BY DEF Start, Running, Awaiting
<1>2. Cardinality(Running') = Cardinality(Running) + 1 /\ Cardinality(Running) \in Nat
  <2>1. IsFiniteSet(Running)
    BY RunningIsFinite DEF Running
  <2> QED
    BY <1>1, <2>1, FS_AddElement, FS_CardinalityType
<1> QED
  BY <1>1, <1>2

\* The handler that ends leaves them, and enables the controls, if its page is there.
LEMMA EndOverlaps ==
    ASSUME TypeOK, OverlapsAreConfirmed, NEW r \in Run, Finally(r), stage[r] = "open",
           again' = again, here' = here
    PROVE  OverlapsAreConfirmed'
<1> USE DEF TypeOK, OverlapsAreConfirmed
<1>1. CASE r \notin here
  <2>1. Running' = Running /\ submitting' = submitting
    BY <1>1 DEF Finally, Running, Awaiting
  <2> QED
    BY <2>1
<1>2. CASE r \in here
  <2>1. Running' = Running \ {r} /\ r \in Running /\ submitting' = FALSE
    BY <1>2 DEF Finally, Running, Awaiting
  <2>2. IsFiniteSet(Running)
    BY RunningIsFinite DEF Running
  <2>3. Cardinality(Running') = Cardinality(Running) - 1 /\ Cardinality(Running) \in Nat
    BY <2>1, <2>2, FS_RemoveElement, FS_CardinalityType
  <2>4. Cardinality(Running) <= again + 1
    BY <2>3
  <2> QED
    BY <2>1, <2>3, <2>4
<1> QED
  BY <1>1, <1>2

\* Whatever the sizes and the failures, handlers overlap only by confirmations of a
\* dialog that is fading out, one for each: without one they take turns, and the flag
\* submitting is on exactly while one runs.
THEOREM OnlyConfirmationsOverlap == Spec => []OverlapsAreConfirmed
<1>1. Init => OverlapsAreConfirmed
  <2> SUFFICES ASSUME Init PROVE OverlapsAreConfirmed
    OBVIOUS
  <2>1. Running = {}
    BY DEF Init, Running, Awaiting
  <2> QED
    BY <2>1, FS_EmptySet DEF Init, OverlapsAreConfirmed
<1>2. TypeOK /\ OverlapsAreConfirmed /\ [Next]_vars => OverlapsAreConfirmed'
  <2> SUFFICES ASSUME TypeOK, OverlapsAreConfirmed, [Next]_vars PROVE OverlapsAreConfirmed'
    OBVIOUS
  <2>1. ASSUME NEW r \in Run, Submit(r) PROVE OverlapsAreConfirmed'
    BY <2>1, StartOverlaps DEF Submit, FormEnabled
  <2>2. ASSUME NEW r \in Run, NEW d \in {"batch", "flush"}, Confirm(r, d) PROVE OverlapsAreConfirmed'
    BY <2>2, StartOverlaps DEF Confirm
  <2>3. ASSUME NEW r \in Run, Succeed(r) \/ Fail(r) PROVE OverlapsAreConfirmed'
    BY <2>3, EndOverlaps DEF Succeed, Fail
  <2>4. ASSUME UNCHANGED <<stage, here, submitting, again>> PROVE OverlapsAreConfirmed'
    BY <2>4 DEF OverlapsAreConfirmed, Running, Awaiting
  <2>5. CASE Leave
    <3>1. Running' = {} /\ submitting' = FALSE /\ again' = 0
      BY <2>5 DEF Leave, Running, Awaiting
    <3> QED
      BY <3>1, FS_EmptySet DEF OverlapsAreConfirmed
  <2>6. ASSUME NEW r \in Run, NextChunk(r) PROVE OverlapsAreConfirmed'
    BY <2>4, <2>6 DEF NextChunk
  <2>7. ASSUME NEW r \in Run, NEW i \in 1..BatchSize, NEW outcome \in {"ok", "refused", "lost"},
               Reply(r, i, outcome)
        PROVE OverlapsAreConfirmed'
    BY <2>4, <2>7 DEF Reply, flags
  <2>8. ASSUME NEW d \in {"batch", "flush"}, OpenDialog(d) \/ Cancel(d) \/ Faded(d)
        PROVE OverlapsAreConfirmed'
    BY <2>4, <2>8 DEF OpenDialog, Cancel, Faded, handlers
  <2>9. CASE TimerFires \/ Return
    BY <2>4, <2>9 DEF TimerFires, Return, handlers, flags
  <2>10. CASE UNCHANGED vars
    BY <2>4, <2>10 DEF vars, handlers, flags
  <2> QED
    BY <2>1, <2>2, <2>3, <2>5, <2>6, <2>7, <2>8, <2>9, <2>10 DEF Next
<1> QED
  BY <1>1, <1>2, SubmissionTypeCorrect, PTL DEF Spec
=============================================================================
