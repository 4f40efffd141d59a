------------------------------ MODULE CustdClient ------------------------------
(***************************************************************************)
(* The event path of the SDK (client.go, queue.go, retry.go): application  *)
(* goroutines that call Track, Flush and Close on one client, the          *)
(* background flusher, the shared queue and the ingest API behind it.      *)
(*                                                                         *)
(* An event is named by its rank in the order in which the queue took it,  *)
(* so 'older' is '<'.  Track's validation has no effect on the client when *)
(* it fails, so only events that pass it appear here.  The mutex mu of     *)
(* Flush guards nothing but the dequeue, which is atomic by itself: both   *)
(* are the one action TakeBatch.  A context that ends is the choice of     *)
(* Abandon; the flusher's context never ends.                              *)
(***************************************************************************)
EXTENDS EventQueue, BatchResponse, FiniteSets

CONSTANTS Callers,         \* goroutines of the application
          Flusher,         \* the goroutine of runFlusher
          NoCaller,        \* 'no goroutine'
          BatchSize,       \* ClientConfig.BatchSize, after defaults
          Capacity,        \* ClientConfig.MaxQueueSize, after defaults
          MaxAttempts,     \* RetryConfig.MaxAttempts, after defaults
          SecureTransport, \* validateTransport accepts the configured URLs
          MaxEvents        \* bound: how many events the callers track

ASSUME CallersAssumption ==
  /\ Flusher \notin Callers
  /\ NoCaller \notin Callers \cup {Flusher}

ASSUME ConfigAssumption ==
  /\ BatchSize \in Nat \ {0}
  /\ Capacity \in Nat \ {0}
  /\ MaxAttempts \in Nat \ {0}
  /\ SecureTransport \in BOOLEAN
  /\ MaxEvents \in Nat

Procs == Callers \cup {Flusher}

VARIABLES
  queue,      \* q.events
  next,       \* rank of the next event the queue takes
  pc,         \* where each goroutine is
  batch,      \* the batch it has taken out of the queue
  attempt,    \* withRetry's attempt counter
  closer,     \* who runs the body of closeOnce; done is closed from then on
  closeDone,  \* that body has returned
  tick,       \* a tick waits in ticker.C (its buffer holds one)
  acked,      \* history: events of batches that a flush reported as sent
  dropped,    \* history: events the queue discarded
  stored,     \* the ingest API: eventUuids it has stored
  overlapped  \* history: some batch was taken while another was in flight

ghosts == <<acked, dropped, stored, overlapped>>
vars == <<queue, next, pc, batch, attempt, closer, closeDone, tick, ghosts>>

Events == 1..MaxEvents
Tracked == 1..(next - 1)
InFlight == UNION {Range(batch[p]) : p \in Procs}

\* Where a goroutine is between two calls, or the flusher in its select.
Rest(p) == IF p = Flusher THEN "select" ELSE "idle"

At(p, l) == pc[p] = l
Goto(p, l) == pc' = [pc EXCEPT ![p] = l]

Init ==
  /\ queue = <<>>
  /\ next = 1
  /\ pc = [p \in Procs |-> Rest(p)]
  /\ batch = [p \in Procs |-> <<>>]
  /\ attempt = [p \in Procs |-> 0]
  /\ closer = NoCaller
  /\ closeDone = FALSE
  /\ tick = FALSE
  /\ acked = {} /\ dropped = {} /\ stored = {}
  /\ overlapped = FALSE

-------------------------------------------------------------------------------
(* The calls of the application.                                           *)

\* Track: one event enters the queue; the length the queue answers, not a
\* later one, decides whether this call goes on to flush.
Track(p) ==
  /\ At(p, "idle")
  /\ next <= MaxEvents
  /\ queue' = Enqueue(queue, next, Capacity)
  /\ dropped' = dropped \cup Evicted(queue, Capacity)
  /\ next' = next + 1
  /\ Goto(p, IF Len(queue') >= BatchSize THEN "flush" ELSE "idle")
  /\ UNCHANGED <<batch, attempt, closer, closeDone, tick, acked, stored, overlapped>>

Flush(p) ==
  /\ At(p, "idle")
  /\ Goto(p, "flush")
  /\ UNCHANGED <<queue, next, batch, attempt, closer, closeDone, tick, ghosts>>

CloseFirstUnguarded(p) ==   \* mutant: Close without closeOnce
  /\ At(p, "idle")
  /\ closer' = p
  /\ Goto(p, "wgWait")
  /\ UNCHANGED <<queue, next, batch, attempt, closeDone, tick, ghosts>>

\* The first Close closes done and waits for the flusher.
CloseFirst(p) ==
  /\ At(p, "idle")
  /\ closer = NoCaller
  /\ closer' = p
  /\ Goto(p, "wgWait")
  /\ UNCHANGED <<queue, next, batch, attempt, closeDone, tick, ghosts>>

CloseFlushUnawaited(p) ==   \* mutant: Close does not wait for the flusher
  /\ At(p, "wgWait")
  /\ Goto(p, "flush")
  /\ UNCHANGED <<queue, next, batch, attempt, closer, closeDone, tick, ghosts>>

\* wg.Wait returns, the ticker is stopped, the last flush begins.
CloseFlush(p) ==
  /\ At(p, "wgWait")
  /\ At(Flusher, "exited")
  /\ Goto(p, "flush")
  /\ UNCHANGED <<queue, next, batch, attempt, closer, closeDone, tick, ghosts>>

\* Any later Close waits in closeOnce for the first one to return.
CloseAgain(p) ==
  /\ At(p, "idle")
  /\ closer # NoCaller
  /\ ~closeDone
  /\ Goto(p, "onceWait")
  /\ UNCHANGED <<queue, next, batch, attempt, closer, closeDone, tick, ghosts>>

CloseAgainReturns(p) ==
  /\ At(p, "onceWait")
  /\ closeDone
  /\ Goto(p, "idle")
  /\ UNCHANGED <<queue, next, batch, attempt, closer, closeDone, tick, ghosts>>

-------------------------------------------------------------------------------
(* The background flusher.                                                 *)

Tick ==
  /\ ~tick
  /\ ~At(Flusher, "exited")
  /\ tick' = TRUE
  /\ UNCHANGED <<queue, next, pc, batch, attempt, closer, closeDone, ghosts>>

FlusherWakes ==
  /\ At(Flusher, "select")
  /\ tick
  /\ tick' = FALSE
  /\ Goto(Flusher, "flush")
  /\ UNCHANGED <<queue, next, batch, attempt, closer, closeDone, ghosts>>

FlusherExitsLate ==   \* mutant: done is closed only after wg.Wait
  /\ At(Flusher, "select")
  /\ closeDone
  /\ Goto(Flusher, "exited")
  /\ UNCHANGED <<queue, next, batch, attempt, closer, closeDone, tick, ghosts>>

\* With a tick pending as well, the select may choose either branch.
FlusherExits ==
  /\ At(Flusher, "select")
  /\ closer # NoCaller
  /\ Goto(Flusher, "exited")
  /\ UNCHANGED <<queue, next, batch, attempt, closer, closeDone, tick, ghosts>>

-------------------------------------------------------------------------------
(* The body of Flush, run by a caller, by Close or by the flusher.         *)

\* Flush returns; for the closer, so does the body of closeOnce.
Return(p) ==
  /\ Goto(p, Rest(p))
  /\ batch' = [batch EXCEPT ![p] = <<>>]
  /\ attempt' = [attempt EXCEPT ![p] = 0]
  /\ closeDone' = (closeDone \/ p = closer)

NothingToFlush(p) ==
  /\ At(p, "flush")
  /\ queue = <<>>
  /\ Return(p)
  /\ UNCHANGED <<queue, next, closer, tick, ghosts>>

\* An insecure URL fails the flush before any attempt.
TakeBatch(p) ==
  /\ At(p, "flush")
  /\ queue # <<>>
  /\ batch' = [batch EXCEPT ![p] = Taken(queue, BatchSize)]
  /\ queue' = Dequeue(queue, BatchSize)
  /\ overlapped' = (overlapped \/ \E r \in Procs : batch[r] # <<>>)
  /\ Goto(p, IF SecureTransport THEN "sending" ELSE "failed")
  /\ attempt' = [attempt EXCEPT ![p] = IF SecureTransport THEN 1 ELSE 0]
  /\ UNCHANGED <<next, closer, closeDone, tick, acked, dropped, stored>>

\* The attempt of p ends with verdict v; what the API stored, it stored
\* under the eventUuid, so storing it again changes nothing.
Attempt(p, v) ==
  /\ At(p, "sending")
  /\ LET n == Len(batch[p]) IN
       \E a \in Answers(n) : \E S \in Stored(a, n) :
         /\ Verdict(a, n) = v
         /\ stored' = stored \cup {batch[p][i] : i \in S}

Delivered(p) ==
  /\ Attempt(p, "nil")
  /\ acked' = acked \cup Range(batch[p])
  /\ Return(p)
  /\ UNCHANGED <<queue, next, closer, tick, dropped, overlapped>>

RetryOnceMore(p) ==   \* mutant: <= for <
  /\ Attempt(p, "retry")
  /\ attempt[p] <= MaxAttempts
  /\ Goto(p, "backoff")
  /\ UNCHANGED <<queue, next, batch, attempt, closer, closeDone, tick, acked,
                 dropped, overlapped>>

Retry(p) ==
  /\ Attempt(p, "retry")
  /\ attempt[p] < MaxAttempts
  /\ Goto(p, "backoff")
  /\ UNCHANGED <<queue, next, batch, attempt, closer, closeDone, tick, acked,
                 dropped, overlapped>>

Fail(p) ==
  /\ Attempt(p, "fatal") \/ (attempt[p] = MaxAttempts /\ Attempt(p, "retry"))
  /\ Goto(p, "failed")
  /\ UNCHANGED <<queue, next, batch, attempt, closer, closeDone, tick, acked,
                 dropped, overlapped>>

\* The backoff timer fires.
BackoffEnds(p) ==
  /\ At(p, "backoff")
  /\ attempt' = [attempt EXCEPT ![p] = @ + 1]
  /\ Goto(p, "sending")
  /\ UNCHANGED <<queue, next, batch, closer, closeDone, tick, ghosts>>

\* The caller's context ends during the backoff, or had ended before it.
Abandon(p) ==
  /\ p # Flusher
  /\ At(p, "backoff")
  /\ Goto(p, "failed")
  /\ UNCHANGED <<queue, next, batch, attempt, closer, closeDone, tick, ghosts>>

PutBackNothing(p) ==   \* mutant: the failed batch is not requeued
  /\ At(p, "failed")
  /\ Return(p)
  /\ UNCHANGED <<queue, next, closer, tick, ghosts>>

\* Every failed flush puts its whole batch back and returns the error.
PutBack(p) ==
  /\ At(p, "failed")
  /\ queue' = Requeue(queue, batch[p], Capacity)
  /\ dropped' = dropped \cup Truncated(queue, batch[p], Capacity)
  /\ Return(p)
  /\ UNCHANGED <<next, closer, tick, acked, stored, overlapped>>

-------------------------------------------------------------------------------
FlushStep(p) ==
  \/ NothingToFlush(p) \/ TakeBatch(p)
  \/ Delivered(p) \/ Retry(p) \/ Fail(p)
  \/ BackoffEnds(p) \/ Abandon(p) \/ PutBack(p)

CallerStep(p) ==
  \/ Track(p) \/ Flush(p)
  \/ CloseFirst(p) \/ CloseFlush(p) \/ CloseAgain(p) \/ CloseAgainReturns(p)

FlusherStep == Tick \/ FlusherWakes \/ FlusherExits

Next ==
  \/ \E p \in Callers : CallerStep(p)
  \/ FlusherStep
  \/ \E p \in Procs : FlushStep(p)

Spec == Init /\ [][Next]_vars

(***************************************************************************)
(* Fairness.  A goroutine that can run is scheduled; an HTTP attempt ends  *)
(* (the client's own transport gives up after 10 s); a lock or WaitGroup   *)
(* wait ends once its condition holds.  When a tick and done are both      *)
(* ready, Go's select picks at random, so the exit branch cannot lose      *)
(* forever: strong fairness of FlusherExits.  The application owes no      *)
(* call.                                                                   *)
(***************************************************************************)
Fairness ==
  /\ \A p \in Procs : WF_vars(FlushStep(p))
  /\ \A p \in Callers : WF_vars(CloseFlush(p) \/ CloseAgainReturns(p))
  /\ WF_vars(Tick) /\ WF_vars(FlusherWakes)
  /\ SF_vars(FlusherExits)

FairSpec == Spec /\ Fairness
===============================================================================
