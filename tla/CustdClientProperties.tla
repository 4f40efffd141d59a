------------------------- MODULE CustdClientProperties -------------------------
(***************************************************************************)
(* What the event path of CustdClient must do, and what it may never do.   *)
(***************************************************************************)
EXTENDS CustdClient

\* Every variable has its type; an attempt counter never exceeds the
\* configured number of attempts (withRetry's loop bound).
TypeOK ==
  /\ queue \in Seq(Events)
  /\ next \in 1..(MaxEvents + 1)
  /\ pc \in [Procs -> {"idle", "select", "flush", "sending", "backoff", "failed",
                       "wgWait", "onceWait", "exited"}]
  /\ batch \in [Procs -> Seq(Events)]
  /\ attempt \in [Procs -> 0..MaxAttempts]
  /\ closer \in Callers \cup {NoCaller}
  /\ closeDone \in BOOLEAN /\ tick \in BOOLEAN /\ overlapped \in BOOLEAN
  /\ acked \subseteq Events /\ dropped \subseteq Events /\ stored \subseteq Events

\* No event vanishes: whatever Track accepted is queued, in some flush's
\* hands, acknowledged, or was discarded by the queue's overflow rule.
NoEventLost == Tracked = Range(queue) \cup InFlight \cup acked \cup dropped

\* No event is in two places at once: an event that a flush holds is not
\* queued for another flush, and one that was acknowledged or dropped is
\* never sent again, however flushes, requeues and Close interleave.
OnePlace ==
  /\ IsInjective(queue)
  /\ Range(queue) \cap (acked \cup dropped) = {}
  /\ acked \cap dropped = {}
  /\ \A p \in Procs :
       /\ IsInjective(batch[p])
       /\ Range(batch[p]) \cap (Range(queue) \cup acked \cup dropped) = {}
       /\ \A r \in Procs \ {p} : Range(batch[p]) \cap Range(batch[r]) = {}

\* The queue stays within MaxQueueSize, also when a batch comes back to a
\* queue that filled up behind it.
CapacityRespected == Len(queue) <= Capacity

\* The client forgets an event as sent only if the API has stored it: a
\* partial rejection, a short result list or an unreadable answer inside a
\* 2xx never counts as success.
AckedStored == acked \subseteq stored

\* With an insecure URL no event ever leaves the process.
InsecureSendsNothing == SecureTransport \/ stored = {}

\* Close's own flush runs alone with respect to the background: from the
\* moment wg.Wait returned, the flusher is gone and holds no batch.
FlusherGoneBeforeLastFlush ==
  closer # NoCaller /\ ~At(closer, "wgWait") =>
    At(Flusher, "exited") /\ batch[Flusher] = <<>>

\* While flushes never overlapped, order is kept through any number of
\* failures: a batch in flight is older than the queue behind it, and the
\* queue is in order of arrival.
OldestFirst ==
  ~overlapped =>
    \A p \in Procs : \A i, j \in 1..Len(batch[p] \o queue) :
      i < j => (batch[p] \o queue)[i] < (batch[p] \o queue)[j]

\* The same for what the API took over: as long as flushes never overlapped,
\* no acknowledged event is younger than one that still waits, over any
\* number of retries, requeues and overflows.
AckedInOrder ==
  ~overlapped => \A a \in acked : \A e \in Range(queue) \cup InFlight : a < e

\* Nobody waits in a circle.  Only the first Close waits for the flusher, and
\* the flusher waits for nobody; later Closes wait for the first one, which
\* until it returns is flushing or waits for the flusher, so not for itself
\* or for them; and the flusher is gone only where some Close wanted it gone.
WaitsAreWellFounded ==
  /\ \A p \in Procs : At(p, "wgWait") => p = closer /\ ~closeDone
  /\ \A p \in Procs : At(p, "onceWait") => closer \notin {NoCaller, p}
  /\ closer # NoCaller /\ ~closeDone =>
       pc[closer] \in {"wgWait", "flush", "sending", "backoff", "failed"}
  /\ closeDone => closer # NoCaller
  /\ pc[Flusher] \notin {"wgWait", "onceWait"}
  /\ At(Flusher, "exited") => closer # NoCaller

\* done is closed once (closing it twice would panic), whoever calls Close
\* and however often.
CloseRunsOnce == [][closer # NoCaller => closer' = closer]_vars

\* An event is discarded only by a queue that is full afterwards.
DropOnlyWhenFull == [][dropped' # dropped => Len(queue') = Capacity]_vars

\* 'The oldest events (front) are dropped' (queue.go) is true as long as
\* flushes never overlapped: whatever an overflow discards, at enqueue or at
\* requeue, is older than all that stays queued.
DropsOldestWithoutOverlap ==
  [][~overlapped =>
       \A d \in dropped' \ dropped : \A e \in Range(queue') : d < e]_vars

\* How many steps a flush has left at most, retries and requeue included.
StepsLeft(p) ==
  CASE At(p, "flush") -> 2 * MaxAttempts + 2
    [] At(p, "sending") -> 2 * (MaxAttempts - attempt[p]) + 3
    [] At(p, "backoff") -> 2 * (MaxAttempts - attempt[p]) + 2
    [] At(p, "failed") -> 1
    [] OTHER -> 0

\* A flush never goes round: each of its steps brings its end nearer, whatever
\* the API answers and whatever the other goroutines do meanwhile.
FlushIsBounded ==
  [][\A p \in Procs : StepsLeft(p) > 0 =>
       \/ StepsLeft(p)' < StepsLeft(p)
       \/ UNCHANGED <<pc[p], batch[p], attempt[p]>>]_vars

\* The code implements the promise of module Outbox.
Outbox == INSTANCE Outbox WITH
  accepted <- next - 1, held <- Range(queue) \cup InFlight,
  delivered <- acked, lost <- dropped

ImplementsOutbox == Outbox!Spec

\* Every Track, Flush and Close returns: no wait on the flusher, on another
\* Close or on a retry is for ever, and the flusher itself ends after Close.
CallsReturn == \A p \in Callers : ~At(p, "idle") ~> At(p, "idle")
FlusherEnds == closer # NoCaller ~> At(Flusher, "exited")

\* An API that does not refuse forever: whoever keeps sending is accepted
\* again and again.
Recovering == \A p \in Procs : SF_vars(Delivered(p))

\* As long as nobody calls Close and the API does not refuse for ever, each
\* tracked event is acknowledged or, for want of room, dropped: none sits in
\* a short batch until more events come.
EventuallySettled ==
  Recovering /\ [](closer = NoCaller) =>
    \A e \in Events : e < next ~> e \in acked \cup dropped

-------------------------------------------------------------------------------
(* Claims of the source that the code does not keep.                       *)

\* 'dropping the oldest', 'the oldest events (front) are dropped' (queue.go):
\* an event is discarded only if every event left in the queue is younger.
DropsOldest ==
  [][\A d \in dropped' \ dropped : \A e \in Range(queue') : d < e]_vars

\* 'Close flushes remaining events' (client.go): when the first Close
\* returns without error and no other call is under way, nothing is queued.
CloseFlushesRemaining ==
  [][(/\ ~closeDone /\ closeDone'
      /\ ~At(closer, "failed")
      /\ \A p \in Callers \ {closer} : At(p, "idle"))
     => queue' = <<>>]_vars
===============================================================================
