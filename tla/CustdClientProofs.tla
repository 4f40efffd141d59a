--------------------------- MODULE CustdClientProofs ---------------------------
(***************************************************************************)
(* Theorems about CustdClient, for every number of callers and events and  *)
(* every configuration.                                                    *)
(***************************************************************************)
EXTENDS CustdClientProperties, EventQueueTheorems

\* A batch exists only between the dequeue and the end of a flush.
BatchOnlyInFlight ==
  \A p \in Procs : ~(pc[p] \in {"sending", "backoff", "failed"}) => batch[p] = <<>>

\* Whoever waits for the next attempt has one left.
RetriesLeft == \A p \in Procs : At(p, "backoff") => attempt[p] < MaxAttempts

\* The type invariant is not inductive by itself: the attempt that follows a
\* backoff must be within bounds, and an enqueue needs a queue within its
\* capacity to stay within it.
TypeInv == TypeOK /\ BatchOnlyInFlight /\ RetriesLeft /\ CapacityRespected

-------------------------------------------------------------------------------
(* Answers of the ingest API.                                              *)

\* An answer never speaks of events that were not sent.
LEMMA StoredWithinBatch ==
  ASSUME NEW n \in Nat, NEW a \in Answers(n), NEW X \in Stored(a, n)
  PROVE  X \subseteq 1..n
PROOF
<1>1. CASE a.status = "2xx" /\ a.body = "results" /\ a.rows = n
  <2>1. a.accepted \subseteq 1..n
    BY <1>1 DEF Answers, NoAnswers, Bare
  <2> QED BY <1>1, <2>1 DEF Stored
<1>2. CASE ~(a.status = "2xx" /\ a.body = "results" /\ a.rows = n)
  BY <1>2 DEF Stored
<1> QED BY <1>1, <1>2

\* sendBatch returns nil only for an answer that stands for the whole batch.
LEMMA NilMeansStored ==
  ASSUME NEW n \in Nat, NEW a \in Answers(n), NEW X \in Stored(a, n),
         Verdict(a, n) = "nil"
  PROVE  X = 1..n
PROOF
<1>1. a.status = "2xx" /\ (a.body = "empty" \/ BodyAccepts(a, n))
  BY DEF Verdict
<1>2. CASE a.body = "empty"
  BY <1>1, <1>2 DEF Stored
<1>3. CASE a.body = "plain" /\ BodyAccepts(a, n)
  BY <1>1, <1>3 DEF Stored, BodyAccepts, AllAccepted
<1>4. CASE a.body = "results" /\ BodyAccepts(a, n)
  BY <1>1, <1>4 DEF Stored, BodyAccepts, AllAccepted
<1> QED BY <1>1, <1>2, <1>3, <1>4 DEF BodyAccepts

-------------------------------------------------------------------------------
(* Types.                                                                  *)

\* What one attempt does to the API's store.
LEMMA AttemptStores ==
  ASSUME TypeInv, NEW p \in Procs, NEW v, Attempt(p, v)
  PROVE  /\ stored' \subseteq Events
         /\ stored \subseteq stored'
         /\ v = "nil" => Range(batch[p]) \subseteq stored'
PROOF
<1> DEFINE n == Len(batch[p])
<1>1. batch[p] \in Seq(Events) /\ n \in Nat /\ DOMAIN batch[p] = 1..n
  BY LenProperties DEF TypeInv, TypeOK
<1>pick. PICK a \in Answers(n) : \E X \in Stored(a, n) :
         Verdict(a, n) = v /\ stored' = stored \cup {batch[p][i] : i \in X}
  BY DEF Attempt
<1>2. PICK X \in Stored(a, n) :
         Verdict(a, n) = v /\ stored' = stored \cup {batch[p][i] : i \in X}
  BY <1>pick
<1> HIDE DEF n
<1>3. X \subseteq 1..n
  BY <1>1, <1>2, StoredWithinBatch
<1>4. \A i \in 1..n : batch[p][i] \in Events
  BY <1>1, ElementOfSeq DEF n
<1>5. stored' \subseteq Events
  BY <1>2, <1>3, <1>4 DEF TypeInv, TypeOK
<1>6. ASSUME v = "nil" PROVE Range(batch[p]) \subseteq stored'
  <2>1. X = 1..n
    BY <1>1, <1>2, <1>6, NilMeansStored
  <2> QED BY <1>1, <1>2, <2>1 DEF Range
<1> QED BY <1>2, <1>5, <1>6

\* Nothing is tracked, queued or out at first.
LEMMA InitTypeInv == Init => TypeInv
PROOF
<1> SUFFICES ASSUME Init PROVE TypeInv
  OBVIOUS
<1>0. <<>> \in Seq(Events) /\ Len(<<>>) = 0
  BY EmptySeq
<1>1. TypeOK
  <2>1. queue \in Seq(Events) /\ batch \in [Procs -> Seq(Events)]
    BY <1>0 DEF Init
  <2>2. next \in 1..(MaxEvents + 1)
    BY ConfigAssumption DEF Init
  <2>3. pc \in [Procs -> {"idle", "select", "flush", "sending", "backoff", "failed",
                          "wgWait", "onceWait", "exited"}]
    BY DEF Init, Rest
  <2>4. attempt \in [Procs -> 0..MaxAttempts]
    BY ConfigAssumption DEF Init
  <2> QED BY <2>1, <2>2, <2>3, <2>4 DEF Init, TypeOK
<1>2. BatchOnlyInFlight /\ RetriesLeft
  BY DEF Init, BatchOnlyInFlight, RetriesLeft, Rest, At
<1>3. CapacityRespected
  BY <1>0, ConfigAssumption DEF Init, CapacityRespected
<1> QED BY <1>1, <1>2, <1>3 DEF TypeInv

\* Every step keeps the types, the bound on attempts and the capacity.
LEMMA NextTypeInv == TypeInv /\ [Next]_vars => TypeInv'
PROOF
<1> SUFFICES ASSUME TypeInv, [Next]_vars PROVE TypeInv'
  OBVIOUS
<1> USE ConfigAssumption, CallersAssumption DEF TypeInv
<1>rest. \A p \in Procs : Rest(p) \in {"idle", "select"}
  BY DEF Rest
<1>1. ASSUME NEW p \in Callers, Track(p) PROVE TypeInv'
  <2>1. next \in Events /\ next' \in 1..(MaxEvents + 1)
    <3>1. next \in 1..(MaxEvents + 1) /\ next <= MaxEvents /\ next' = next + 1
      BY <1>1 DEF Track, TypeOK
    <3> QED BY <3>1 DEF Events
  <2>2. /\ queue' \in Seq(Events) /\ Len(queue') <= Capacity
        /\ Range(queue') \cup Evicted(queue, Capacity) = Range(queue) \cup {next}
    <3>1. queue \in Seq(Events) /\ Len(queue) <= Capacity /\ Capacity \in Nat \ {0}
      BY DEF TypeOK, CapacityRespected
    <3>2. /\ Enqueue(queue, next, Capacity) \in Seq(Events)
          /\ Len(Enqueue(queue, next, Capacity)) <= Capacity
          /\ Range(Enqueue(queue, next, Capacity)) \cup Evicted(queue, Capacity)
               = Range(queue) \cup {next}
      BY <3>1, <2>1, EnqueueSplits
    <3> QED BY <1>1, <3>2 DEF Track
  <2>3. Range(queue) \subseteq Events
    BY RangeOfSeq DEF TypeOK
  <2>4. dropped' \subseteq Events
    BY <1>1, <2>1, <2>2, <2>3 DEF Track, TypeOK
  <2>5. TypeOK'
    BY <1>1, <2>1, <2>2, <2>4 DEF Track, TypeOK, Goto
  <2>6. (BatchOnlyInFlight /\ RetriesLeft)'
    BY <1>1 DEF Track, TypeOK, Goto, At, BatchOnlyInFlight, RetriesLeft
  <2> QED BY <2>2, <2>5, <2>6 DEF CapacityRespected
<1>2. ASSUME NEW p \in Callers,
             Flush(p) \/ CloseFirst(p) \/ CloseFlush(p) \/ CloseAgain(p)
               \/ CloseAgainReturns(p)
      PROVE  TypeInv'
  <2>1. TypeOK'
    BY <1>2 DEF Flush, CloseFirst, CloseFlush, CloseAgain, CloseAgainReturns,
                TypeOK, Goto, ghosts
  <2>2. (BatchOnlyInFlight /\ RetriesLeft /\ CapacityRespected)'
    BY <1>2 DEF Flush, CloseFirst, CloseFlush, CloseAgain, CloseAgainReturns, At,
                TypeOK, Goto, BatchOnlyInFlight, RetriesLeft, CapacityRespected
  <2> QED BY <2>1, <2>2
<1>3. ASSUME FlusherStep PROVE TypeInv'
  <2>1. TypeOK'
    BY <1>3 DEF FlusherStep, Tick, FlusherWakes, FlusherExits, TypeOK, Goto, ghosts
  <2>2. (BatchOnlyInFlight /\ RetriesLeft /\ CapacityRespected)'
    BY <1>3 DEF FlusherStep, Tick, FlusherWakes, FlusherExits, At, TypeOK, Goto,
                BatchOnlyInFlight, RetriesLeft, CapacityRespected
  <2> QED BY <2>1, <2>2
<1>4. ASSUME NEW p \in Procs, NothingToFlush(p) PROVE TypeInv'
  <2>1. TypeOK'
    BY <1>4, <1>rest, EmptySeq DEF NothingToFlush, Return, TypeOK, Goto, ghosts
  <2>2. (BatchOnlyInFlight /\ RetriesLeft /\ CapacityRespected)'
    BY <1>4, <1>rest DEF NothingToFlush, Return, TypeOK, Goto, At,
                BatchOnlyInFlight, RetriesLeft, CapacityRespected
  <2> QED BY <2>1, <2>2
<1>5. ASSUME NEW p \in Procs, TakeBatch(p) PROVE TypeInv'
  <2>1. /\ Taken(queue, BatchSize) \in Seq(Events)
        /\ Dequeue(queue, BatchSize) \in Seq(Events)
        /\ Len(Dequeue(queue, BatchSize)) <= Len(queue)
        /\ Len(queue) \in Nat /\ Len(Dequeue(queue, BatchSize)) \in Nat
    BY DequeueSplits, LenProperties DEF TypeOK
  <2>2. overlapped' \in BOOLEAN
    BY <1>5 DEF TakeBatch
  <2>3. TypeOK'
    BY <1>5, <2>1, <2>2 DEF TakeBatch, TypeOK, Goto
  <2>4. (BatchOnlyInFlight /\ RetriesLeft)'
    BY <1>5 DEF TakeBatch, TypeOK, Goto, At, BatchOnlyInFlight, RetriesLeft
  <2>5. CapacityRespected'
    BY <1>5, <2>1 DEF TakeBatch, CapacityRespected
  <2> QED BY <2>3, <2>4, <2>5
<1>6. ASSUME NEW p \in Procs, Delivered(p) PROVE TypeInv'
  <2>1. stored' \subseteq Events
    BY <1>6, AttemptStores DEF Delivered
  <2>2. acked' \subseteq Events
    BY <1>6, RangeOfSeq DEF Delivered, TypeOK
  <2>3. TypeOK'
    BY <1>6, <1>rest, <2>1, <2>2, EmptySeq DEF Delivered, Return, TypeOK, Goto
  <2>4. (BatchOnlyInFlight /\ RetriesLeft /\ CapacityRespected)'
    BY <1>6, <1>rest DEF Delivered, Return, TypeOK, Goto, At,
                BatchOnlyInFlight, RetriesLeft, CapacityRespected
  <2> QED BY <2>3, <2>4
<1>7. ASSUME NEW p \in Procs, Retry(p) \/ Fail(p) PROVE TypeInv'
  <2>1. stored' \subseteq Events /\ At(p, "sending")
    BY <1>7, AttemptStores DEF Retry, Fail, Attempt
  <2>2. TypeOK'
    BY <1>7, <2>1 DEF Retry, Fail, TypeOK, Goto
  <2>3. (BatchOnlyInFlight /\ RetriesLeft /\ CapacityRespected)'
    BY <1>7, <2>1 DEF Retry, Fail, TypeOK, Goto, At,
                BatchOnlyInFlight, RetriesLeft, CapacityRespected
  <2> QED BY <2>2, <2>3
<1>8. ASSUME NEW p \in Procs, BackoffEnds(p) \/ Abandon(p) PROVE TypeInv'
  <2>1. attempt[p] + 1 \in 0..MaxAttempts
    BY <1>8 DEF BackoffEnds, Abandon, RetriesLeft, At, TypeOK
  <2>2. TypeOK'
    BY <1>8, <2>1 DEF BackoffEnds, Abandon, TypeOK, Goto, ghosts
  <2>3. (BatchOnlyInFlight /\ RetriesLeft /\ CapacityRespected)'
    BY <1>8 DEF BackoffEnds, Abandon, TypeOK, Goto, At,
                BatchOnlyInFlight, RetriesLeft, CapacityRespected
  <2> QED BY <2>2, <2>3
<1>9. ASSUME NEW p \in Procs, PutBack(p) PROVE TypeInv'
  <2>1. /\ queue' \in Seq(Events) /\ Len(queue') <= Capacity
        /\ Range(queue') \cup Truncated(queue, batch[p], Capacity)
             = Range(batch[p]) \cup Range(queue)
    BY <1>9, RequeueSplits DEF PutBack, TypeOK
  <2>2. Range(queue) \subseteq Events /\ Range(batch[p]) \subseteq Events
    BY RangeOfSeq DEF TypeOK
  <2>3. dropped' \subseteq Events
    BY <1>9, <2>1, <2>2 DEF PutBack, TypeOK
  <2>4. TypeOK'
    BY <1>9, <1>rest, <2>1, <2>3, EmptySeq DEF PutBack, Return, TypeOK, Goto
  <2>5. (BatchOnlyInFlight /\ RetriesLeft)'
    BY <1>9, <1>rest DEF PutBack, Return, TypeOK, Goto, At, BatchOnlyInFlight, RetriesLeft
  <2> QED BY <2>1, <2>4, <2>5 DEF CapacityRespected
<1>10. CASE UNCHANGED vars
  BY <1>10 DEF vars, ghosts, TypeOK, BatchOnlyInFlight, RetriesLeft, CapacityRespected, At
<1> QED
  BY <1>1, <1>2, <1>3, <1>4, <1>5, <1>6, <1>7, <1>8, <1>9, <1>10
     DEF Next, CallerStep, FlushStep

\* Every variable keeps its type and no attempt counter passes MaxAttempts.
THEOREM TypeCorrect == Spec => []TypeOK
PROOF
<1>1. TypeInv => TypeOK
  BY DEF TypeInv
<1> QED BY <1>1, InitTypeInv, NextTypeInv, PTL DEF Spec

\* The queue never outgrows MaxQueueSize.
THEOREM QueueWithinCapacity == Spec => []CapacityRespected
PROOF
<1>1. TypeInv => CapacityRespected
  BY DEF TypeInv
<1> QED BY <1>1, InitTypeInv, NextTypeInv, PTL DEF Spec

-------------------------------------------------------------------------------
(* Conservation of events.                                                 *)

PlaceInv == NoEventLost /\ OnePlace

\* The sequence of an empty batch.
LEMMA EmptyBatch == Range(<<>>) = {} /\ IsInjective(<<>>)
PROOF BY DEF Range, IsInjective

\* Membership, event by event, of what the two conjuncts say.
LEMMA PlaceOf ==
  ASSUME NoEventLost
  PROVE  \A e : e \in Tracked <=>
           \/ e \in Range(queue) \/ e \in acked \/ e \in dropped
           \/ \E p \in Procs : e \in Range(batch[p])
PROOF BY DEF NoEventLost, InFlight

\* At first there is no event to lose.
LEMMA InitPlaceInv == Init => PlaceInv
PROOF
<1> SUFFICES ASSUME Init PROVE PlaceInv
  OBVIOUS
<1>1. Tracked = {}
  BY DEF Init, Tracked
<1>2. /\ queue = <<>> /\ acked = {} /\ dropped = {}
      /\ \A p \in Procs : batch[p] = <<>>
  BY DEF Init
<1>3. NoEventLost
  BY <1>1, <1>2, EmptyBatch DEF NoEventLost, InFlight
<1>4. OnePlace
  BY <1>2, EmptyBatch DEF OnePlace
<1> QED BY <1>3, <1>4 DEF PlaceInv

\* A step that moves no event.
LEMMA NoMove ==
  ASSUME PlaceInv, UNCHANGED <<queue, next, batch, acked, dropped>>
  PROVE  PlaceInv'
PROOF
<1>1. NoEventLost'
  BY DEF PlaceInv, NoEventLost, Tracked, InFlight
<1>2. OnePlace'
  BY DEF PlaceInv, OnePlace
<1> QED BY <1>1, <1>2 DEF PlaceInv

\* Track: the new event enters the queue, an old one may leave it for good.
LEMMA TrackMoves ==
  ASSUME TypeInv, PlaceInv, NEW p \in Callers, Track(p)
  PROVE  PlaceInv'
PROOF
<1> DEFINE d == Evicted(queue, Capacity)
<1>1. /\ next \in Events /\ next \in Nat \ {0} /\ next' = next + 1
      /\ dropped' = dropped \cup d /\ batch' = batch /\ acked' = acked
      /\ queue' = Enqueue(queue, next, Capacity)
  BY ConfigAssumption DEF Track, TypeInv, TypeOK, Events
<1>2. Tracked' = Tracked \cup {next} /\ next \notin Tracked
  BY <1>1 DEF Tracked
<1>3. /\ next \notin Range(queue) /\ next \notin acked /\ next \notin dropped
      /\ \A r \in Procs : next \notin Range(batch[r])
  BY <1>2, PlaceOf DEF PlaceInv
<1>4. queue \in Seq(Events) /\ Len(queue) <= Capacity /\ Capacity \in Nat \ {0}
  BY ConfigAssumption DEF TypeInv, TypeOK, CapacityRespected
<1>5. /\ Range(queue') \cup d = Range(queue) \cup {next}
      /\ IsInjective(queue) => IsInjective(queue') /\ Range(queue') \cap d = {}
  BY <1>1, <1>3, <1>4, EnqueueSplits
<1>6. next \in Range(queue') /\ d \subseteq Range(queue)
  <2>1. d \subseteq Range(queue)
    <3>1. CASE Len(queue) >= Capacity
      <4>1. queue # <<>>
        BY <3>1, <1>4, EmptySeq
      <4>2. Head(queue) = queue[1] /\ 1 \in DOMAIN queue
        BY <4>1, <1>4, LenProperties, EmptySeq
      <4> QED BY <4>2 DEF Evicted, Range
    <3>2. CASE ~(Len(queue) >= Capacity)
      BY <3>2 DEF Evicted
    <3> QED BY <3>1, <3>2
  <2> QED BY <2>1, <1>3, <1>5
<1> HIDE DEF d
<1>7. NoEventLost'
  <2>1. InFlight' = InFlight
    BY <1>1 DEF InFlight
  <2> QED BY <2>1, <1>1, <1>2, <1>5, <1>6 DEF NoEventLost, PlaceInv
<1>8. OnePlace'
  BY <1>1, <1>3, <1>5, <1>6 DEF OnePlace, PlaceInv
<1> QED BY <1>7, <1>8 DEF PlaceInv

\* TakeBatch: the front of the queue becomes the batch of p.
LEMMA TakeMoves ==
  ASSUME TypeInv, PlaceInv, NEW p \in Procs, TakeBatch(p)
  PROVE  PlaceInv'
PROOF
<1>1. /\ batch[p] = <<>> /\ batch \in [Procs -> Seq(Events)]
      /\ batch' = [batch EXCEPT ![p] = Taken(queue, BatchSize)]
      /\ queue' = Dequeue(queue, BatchSize)
      /\ next' = next /\ acked' = acked /\ dropped' = dropped
  BY DEF TakeBatch, TypeInv, TypeOK, BatchOnlyInFlight, At
<1>2. batch'[p] = Taken(queue, BatchSize) /\ \A r \in Procs \ {p} : batch'[r] = batch[r]
  BY <1>1
<1>3. Parts(queue, Taken(queue, BatchSize), Dequeue(queue, BatchSize))
  BY DequeueSplits, ConfigAssumption DEF TypeInv, TypeOK
<1>4. /\ Range(batch'[p]) \cup Range(queue') = Range(queue)
      /\ IsInjective(batch'[p]) /\ IsInjective(queue')
      /\ Range(batch'[p]) \cap Range(queue') = {}
  BY <1>1, <1>2, <1>3 DEF Parts, PlaceInv, OnePlace
<1>5. Range(batch[p]) = {}
  BY <1>1, EmptyBatch
<1>6. NoEventLost'
  <2>1. InFlight' = InFlight \cup Range(batch'[p])
    BY <1>2, <1>5 DEF InFlight
  <2>2. Tracked' = Tracked
    BY <1>1 DEF Tracked
  <2> QED BY <2>1, <2>2, <1>1, <1>4 DEF NoEventLost, PlaceInv
<1>7. OnePlace'
  <2>1. Range(queue') \cap (acked' \cup dropped') = {} /\ acked' \cap dropped' = {}
    BY <1>1, <1>4 DEF OnePlace, PlaceInv
  <2>2. ASSUME NEW r \in Procs
        PROVE  /\ IsInjective(batch'[r])
               /\ Range(batch'[r]) \cap (Range(queue') \cup acked' \cup dropped') = {}
    <3>1. CASE r = p
      BY <3>1, <1>1, <1>4 DEF OnePlace, PlaceInv
    <3>2. CASE r # p
      BY <3>2, <1>1, <1>2, <1>4 DEF OnePlace, PlaceInv
    <3> QED BY <3>1, <3>2
  <2>3. ASSUME NEW r \in Procs, NEW t \in Procs \ {r}
        PROVE  Range(batch'[r]) \cap Range(batch'[t]) = {}
    <3>1. CASE r = p
      BY <3>1, <1>2, <1>4 DEF OnePlace, PlaceInv
    <3>2. CASE t = p
      BY <3>2, <1>2, <1>4 DEF OnePlace, PlaceInv
    <3>3. CASE r # p /\ t # p
      BY <3>3, <1>2 DEF OnePlace, PlaceInv
    <3> QED BY <3>1, <3>2, <3>3
  <2> QED BY <1>4, <2>1, <2>2, <2>3 DEF OnePlace
<1> QED BY <1>6, <1>7 DEF PlaceInv

\* The end of a flush, whatever its outcome: the events of the batch go to
\* the queue, to acked or to dropped, each to one of them.
LEMMA ReturnMoves ==
  ASSUME TypeInv, PlaceInv, NEW p \in Procs, Return(p),
         next' = next, IsInjective(queue'),
         Range(queue') \cup acked' \cup dropped'
           = Range(queue) \cup acked \cup dropped \cup Range(batch[p]),
         Range(queue') \cap (acked' \cup dropped') = {}, acked' \cap dropped' = {}
  PROVE  PlaceInv'
PROOF
<1>1. batch'[p] = <<>> /\ \A r \in Procs \ {p} : batch'[r] = batch[r]
  BY DEF Return, TypeInv, TypeOK
<1>2. Range(batch'[p]) = {} /\ IsInjective(batch'[p])
  BY <1>1, EmptyBatch
<1>3. NoEventLost'
  <2>1. InFlight = InFlight' \cup Range(batch[p])
    BY <1>1, <1>2 DEF InFlight
  <2>2. Tracked' = Tracked
    BY DEF Tracked
  <2> QED BY <2>1, <2>2 DEF NoEventLost, PlaceInv
<1>4. ASSUME NEW r \in Procs
      PROVE  /\ IsInjective(batch'[r])
             /\ Range(batch'[r]) \cap (Range(queue') \cup acked' \cup dropped') = {}
  <2>1. CASE r = p
    BY <2>1, <1>2
  <2>2. CASE r # p
    BY <2>2, <1>1 DEF OnePlace, PlaceInv
  <2> QED BY <2>1, <2>2
<1>5. ASSUME NEW r \in Procs, NEW t \in Procs \ {r}
      PROVE  Range(batch'[r]) \cap Range(batch'[t]) = {}
  <2>1. CASE r = p \/ t = p
    BY <2>1, <1>2
  <2>2. CASE r # p /\ t # p
    BY <2>2, <1>1 DEF OnePlace, PlaceInv
  <2> QED BY <2>1, <2>2
<1>6. OnePlace'
  BY <1>4, <1>5 DEF OnePlace
<1> QED BY <1>3, <1>6 DEF PlaceInv

\* Every step moves events between places without loss or duplication.
LEMMA NextPlaceInv == TypeInv /\ PlaceInv /\ [Next]_vars => PlaceInv'
PROOF
<1> SUFFICES ASSUME TypeInv, PlaceInv, [Next]_vars PROVE PlaceInv'
  OBVIOUS
<1>1. ASSUME NEW p \in Callers, Track(p) PROVE PlaceInv'
  BY <1>1, TrackMoves
<1>2. ASSUME NEW p \in Callers,
             Flush(p) \/ CloseFirst(p) \/ CloseFlush(p) \/ CloseAgain(p)
               \/ CloseAgainReturns(p)
      PROVE  PlaceInv'
  BY <1>2, NoMove DEF Flush, CloseFirst, CloseFlush, CloseAgain, CloseAgainReturns, ghosts
<1>3. ASSUME FlusherStep PROVE PlaceInv'
  BY <1>3, NoMove DEF FlusherStep, Tick, FlusherWakes, FlusherExits, ghosts
<1>4. ASSUME NEW p \in Procs, NothingToFlush(p) PROVE PlaceInv'
  <2>1. batch[p] = <<>>
    BY <1>4 DEF NothingToFlush, At, TypeInv, BatchOnlyInFlight
  <2>2. Range(batch[p]) = {}
    BY <2>1, EmptyBatch
  <2>3. /\ Return(p) /\ queue' = queue /\ next' = next
        /\ acked' = acked /\ dropped' = dropped
    BY <1>4 DEF NothingToFlush, ghosts
  <2>4. /\ IsInjective(queue) /\ Range(queue) \cap (acked \cup dropped) = {}
        /\ acked \cap dropped = {}
    BY DEF PlaceInv, OnePlace
  <2> QED BY <2>2, <2>3, <2>4, ReturnMoves
<1>5. ASSUME NEW p \in Procs, TakeBatch(p) PROVE PlaceInv'
  BY <1>5, TakeMoves
<1>6. ASSUME NEW p \in Procs, Delivered(p) PROVE PlaceInv'
  <2>1. /\ Return(p) /\ queue' = queue /\ next' = next
        /\ acked' = acked \cup Range(batch[p]) /\ dropped' = dropped
    BY <1>6 DEF Delivered
  <2>2. /\ IsInjective(queue) /\ Range(queue) \cap (acked \cup dropped) = {}
        /\ acked \cap dropped = {}
        /\ Range(batch[p]) \cap (Range(queue) \cup acked \cup dropped) = {}
    BY DEF PlaceInv, OnePlace
  <2>3. /\ Range(queue) \cap (acked' \cup dropped) = {} /\ acked' \cap dropped = {}
        /\ Range(queue) \cup acked' \cup dropped
             = Range(queue) \cup acked \cup dropped \cup Range(batch[p])
    BY <2>1, <2>2
  <2> QED BY <2>1, <2>2, <2>3, ReturnMoves
<1>7. ASSUME NEW p \in Procs, Retry(p) \/ Fail(p) \/ BackoffEnds(p) \/ Abandon(p)
      PROVE  PlaceInv'
  BY <1>7, NoMove DEF Retry, Fail, BackoffEnds, Abandon, ghosts
<1>8. ASSUME NEW p \in Procs, PutBack(p) PROVE PlaceInv'
  <2> DEFINE d == Truncated(queue, batch[p], Capacity)
  <2>1. /\ Return(p) /\ queue' = Requeue(queue, batch[p], Capacity) /\ next' = next
        /\ acked' = acked /\ dropped' = dropped \cup d
    BY <1>8 DEF PutBack
  <2>2. /\ IsInjective(queue) /\ IsInjective(batch[p])
        /\ Range(queue) \cap (acked \cup dropped) = {} /\ acked \cap dropped = {}
        /\ Range(batch[p]) \cap (Range(queue) \cup acked \cup dropped) = {}
    BY DEF PlaceInv, OnePlace
  <2>3. /\ IsInjective(queue') /\ Range(queue') \cap d = {}
        /\ Range(queue') \cup d = Range(batch[p]) \cup Range(queue)
    <3>1. queue \in Seq(Events) /\ batch[p] \in Seq(Events) /\ Capacity \in Nat
      BY ConfigAssumption DEF TypeInv, TypeOK
    <3>2. Range(batch[p]) \cap Range(queue) = {}
      BY <2>2
    <3> QED BY <3>1, <3>2, <2>1, <2>2, RequeueSplits
  <2> HIDE DEF d
  <2>4. /\ Range(queue') \cap (acked' \cup dropped') = {} /\ acked' \cap dropped' = {}
        /\ Range(queue') \cup acked' \cup dropped'
             = Range(queue) \cup acked \cup dropped \cup Range(batch[p])
    BY <2>1, <2>2, <2>3
  <2> QED BY <2>1, <2>3, <2>4, ReturnMoves
<1>9. CASE UNCHANGED vars
  BY <1>9, NoMove DEF vars, ghosts
<1> QED
  BY <1>1, <1>2, <1>3, <1>4, <1>5, <1>6, <1>7, <1>8, <1>9
     DEF Next, CallerStep, FlushStep

\* No tracked event vanishes: it is queued, in flight, acknowledged, or was
\* discarded by the overflow rule.
THEOREM NoLoss == Spec => []NoEventLost
PROOF
<1>1. PlaceInv => NoEventLost
  BY DEF PlaceInv
<1> QED BY <1>1, InitTypeInv, NextTypeInv, InitPlaceInv, NextPlaceInv, PTL DEF Spec

\* No event is ever in two places, so none is sent again once acknowledged.
THEOREM NoDuplicate == Spec => []OnePlace
PROOF
<1>1. PlaceInv => OnePlace
  BY DEF PlaceInv
<1> QED BY <1>1, InitTypeInv, NextTypeInv, InitPlaceInv, NextPlaceInv, PTL DEF Spec

-------------------------------------------------------------------------------
(* What the client believes, and Close.                                    *)

\* What each step does to the two sets that AckedStored compares.
LEMMA NextAckedStored == TypeInv /\ AckedStored /\ [Next]_vars => AckedStored'
PROOF
<1> SUFFICES ASSUME TypeInv, AckedStored, [Next]_vars PROVE AckedStored'
  OBVIOUS
<1>1. ASSUME NEW p \in Callers, CallerStep(p) PROVE AckedStored'
  BY <1>1 DEF CallerStep, Track, Flush, CloseFirst, CloseFlush, CloseAgain,
              CloseAgainReturns, ghosts, AckedStored
<1>2. ASSUME FlusherStep PROVE AckedStored'
  BY <1>2 DEF FlusherStep, Tick, FlusherWakes, FlusherExits, ghosts, AckedStored
<1>3. ASSUME NEW p \in Procs, Delivered(p) PROVE AckedStored'
  <2>1. stored \subseteq stored' /\ Range(batch[p]) \subseteq stored'
    BY <1>3, AttemptStores DEF Delivered
  <2> QED BY <1>3, <2>1 DEF Delivered, AckedStored
<1>4. ASSUME NEW p \in Procs, Retry(p) \/ Fail(p) PROVE AckedStored'
  <2>1. stored \subseteq stored'
    BY <1>4, AttemptStores DEF Retry, Fail
  <2> QED BY <1>4, <2>1 DEF Retry, Fail, AckedStored
<1>5. ASSUME NEW p \in Procs,
             NothingToFlush(p) \/ TakeBatch(p) \/ BackoffEnds(p) \/ Abandon(p) \/ PutBack(p)
      PROVE  AckedStored'
  BY <1>5 DEF NothingToFlush, TakeBatch, BackoffEnds, Abandon, PutBack, ghosts, AckedStored
<1>6. CASE UNCHANGED vars
  BY <1>6 DEF vars, ghosts, AckedStored
<1> QED BY <1>1, <1>2, <1>3, <1>4, <1>5, <1>6 DEF Next, FlushStep

\* An event is forgotten as sent only if the ingest API has stored it.
THEOREM AcknowledgedIsStored == Spec => []AckedStored
PROOF
<1>1. Init => AckedStored
  BY DEF Init, AckedStored
<1> QED BY <1>1, InitTypeInv, NextTypeInv, NextAckedStored, PTL DEF Spec

\* Nothing brings the flusher back once a Close has seen it gone.
LEMMA NextFlusherGone ==
  TypeInv /\ FlusherGoneBeforeLastFlush /\ [Next]_vars => FlusherGoneBeforeLastFlush'
PROOF
<1> SUFFICES ASSUME TypeInv, FlusherGoneBeforeLastFlush, [Next]_vars,
                    (closer # NoCaller /\ ~At(closer, "wgWait"))'
             PROVE  pc'[Flusher] = "exited" /\ batch'[Flusher] = <<>>
  BY DEF FlusherGoneBeforeLastFlush, At
<1> USE CallersAssumption
<1>types. /\ pc \in [Procs -> {"idle", "select", "flush", "sending", "backoff", "failed",
                               "wgWait", "onceWait", "exited"}]
          /\ batch \in [Procs -> Seq(Events)]
          /\ closer \in Callers \cup {NoCaller}
          /\ Flusher \in Procs /\ Callers \subseteq Procs
  BY DEF TypeInv, TypeOK, Procs
<1>gone. pc[Flusher] = "exited" => batch[Flusher] = <<>>
  BY <1>types DEF TypeInv, BatchOnlyInFlight
<1>1. ASSUME NEW p \in Callers, CallerStep(p) PROVE pc'[Flusher] = "exited" /\ batch' = batch
  <2>1. pc'[Flusher] = pc[Flusher] /\ batch' = batch
    BY <1>1, <1>types DEF CallerStep, Track, Flush, CloseFirst, CloseFlush, CloseAgain,
                          CloseAgainReturns, Goto
  <2>2. closer # NoCaller
    BY <1>1, <1>types DEF CallerStep, Track, Flush, CloseFirst, CloseFlush, CloseAgain,
                          CloseAgainReturns, Goto, At
  <2>3. CASE pc[closer] = "wgWait"
    <3>1. pc[closer] # pc'[closer] /\ closer' = closer
      BY <1>1, <2>2, <2>3, <1>types
         DEF CallerStep, Track, Flush, CloseFirst, CloseFlush, CloseAgain,
             CloseAgainReturns, At
    <3>2. p = closer
      BY <1>1, <2>2, <3>1, <1>types DEF CallerStep, Track, Flush, CloseFirst, CloseFlush,
             CloseAgain, CloseAgainReturns, Goto
    <3>3. CloseFlush(p)
      BY <1>1, <2>3, <3>2 DEF CallerStep, Track, Flush, CloseFirst, CloseAgain,
             CloseAgainReturns, At
    <3> QED BY <2>1, <3>3 DEF CloseFlush, At
  <2>4. CASE pc[closer] # "wgWait"
    BY <2>1, <2>2, <2>4 DEF FlusherGoneBeforeLastFlush, At
  <2> QED BY <2>1, <2>3, <2>4
<1>2. ASSUME FlusherStep \/ \E p \in Procs : FlushStep(p)
      PROVE  closer' = closer
  BY <1>2 DEF FlusherStep, Tick, FlusherWakes, FlusherExits, FlushStep, NothingToFlush,
              TakeBatch, Delivered, Retry, Fail, BackoffEnds, Abandon, PutBack, Return
<1>3. ASSUME FlusherStep PROVE pc'[Flusher] = "exited" /\ batch' = batch
  <2>1. batch' = batch
    BY <1>3 DEF FlusherStep, Tick, FlusherWakes, FlusherExits
  <2>2. CASE FlusherExits
    BY <2>2, <1>types DEF FlusherExits, Goto
  <2>3. CASE Tick \/ FlusherWakes
    <3>1. pc'[closer] = pc[closer] /\ closer' = closer
      BY <2>3, <1>types DEF Tick, FlusherWakes, Goto
    <3>2. pc[Flusher] = "exited"
      BY <3>1 DEF FlusherGoneBeforeLastFlush, At
    <3> QED BY <2>1, <2>3, <3>2 DEF Tick, FlusherWakes, At
  <2> QED BY <1>3, <2>1, <2>2, <2>3 DEF FlusherStep
<1>4. ASSUME NEW p \in Procs, FlushStep(p)
      PROVE  pc'[Flusher] = "exited" /\ batch'[Flusher] = <<>>
  <2>1. /\ pc[p] \in {"flush", "sending", "backoff", "failed"}
        /\ closer' = closer
        /\ \A r \in Procs \ {p} : pc'[r] = pc[r] /\ batch'[r] = batch[r]
    BY <1>4, <1>types DEF FlushStep, NothingToFlush, TakeBatch, Delivered, Retry, Fail,
         BackoffEnds, Abandon, PutBack, Attempt, Return, Goto, At
  <2>2. pc[closer] # "wgWait"
    BY <2>1, <1>types DEF At
  <2>3. pc[Flusher] = "exited"
    BY <2>1, <2>2 DEF FlusherGoneBeforeLastFlush, At
  <2>4. p # Flusher
    BY <2>1, <2>3
  <2> QED BY <2>1, <2>3, <2>4, <1>types, <1>gone
<1>5. CASE UNCHANGED vars
  BY <1>5 DEF vars, FlusherGoneBeforeLastFlush, At
<1> QED
  BY <1>1, <1>3, <1>4, <1>5, <1>gone, <1>types, NextTypeInv
     DEF Next, TypeInv, BatchOnlyInFlight

\* From the moment wg.Wait returned, the flusher is gone and holds no batch.
THEOREM CloseWaitsForFlusher == Spec => []FlusherGoneBeforeLastFlush
PROOF
<1>1. Init => FlusherGoneBeforeLastFlush
  BY DEF Init, FlusherGoneBeforeLastFlush
<1> QED BY <1>1, InitTypeInv, NextTypeInv, NextFlusherGone, PTL DEF Spec

\* done is closed by one caller only.
THEOREM ClosedOnce == Spec => CloseRunsOnce
PROOF
<1>1. [Next]_vars => [closer # NoCaller => closer' = closer]_vars
  BY DEF Next, CallerStep, Track, Flush, CloseFirst, CloseFlush, CloseAgain,
         CloseAgainReturns, FlusherStep, Tick, FlusherWakes, FlusherExits, FlushStep,
         NothingToFlush, TakeBatch, Delivered, Retry, Fail, BackoffEnds, Abandon,
         PutBack, Return, vars
<1> QED BY <1>1, PTL DEF Spec, CloseRunsOnce

\* An overflow leaves the queue full: nothing is discarded while there is room.
THEOREM DropsNeedFullQueue == Spec => DropOnlyWhenFull
PROOF
<1>1. TypeInv /\ [Next]_vars => [dropped' # dropped => Len(queue') = Capacity]_vars
  <2> SUFFICES ASSUME TypeInv, Next, dropped' # dropped PROVE Len(queue') = Capacity
    BY DEF vars, ghosts
  <2>1. ASSUME NEW p \in Callers, Track(p) PROVE Len(queue') = Capacity
    <3>1. queue \in Seq(Events) /\ next \in Events /\ Len(queue) <= Capacity
      BY <2>1, ConfigAssumption DEF Track, TypeInv, TypeOK, Events, CapacityRespected
    <3>2. Evicted(queue, Capacity) # {}
      BY <2>1 DEF Track
    <3> QED BY <2>1, <3>1, <3>2, ConfigAssumption, EnqueueSplits DEF Track
  <2>2. ASSUME NEW p \in Procs, PutBack(p) PROVE Len(queue') = Capacity
    <3>1. queue \in Seq(Events) /\ batch[p] \in Seq(Events)
      BY DEF TypeInv, TypeOK
    <3>2. Truncated(queue, batch[p], Capacity) # {}
      BY <2>2 DEF PutBack
    <3> QED BY <2>2, <3>1, <3>2, ConfigAssumption, RequeueSplits DEF PutBack
  <2>3. (\E p \in Callers : Track(p)) \/ (\E p \in Procs : PutBack(p))
    BY DEF Next, CallerStep, Flush, CloseFirst, CloseFlush, CloseAgain,
         CloseAgainReturns, FlusherStep, Tick, FlusherWakes, FlusherExits, FlushStep,
         NothingToFlush, TakeBatch, Delivered, Retry, Fail, BackoffEnds, Abandon, ghosts
  <2> QED BY <2>1, <2>2, <2>3
<1> QED BY <1>1, InitTypeInv, NextTypeInv, PTL DEF Spec, DropOnlyWhenFull
-------------------------------------------------------------------------------
(* Waiting, and the length of a flush.                                     *)

\* A step that leaves closer and closeDone alone and moves p to a place where
\* nobody waits: the closer itself, before it is done, only within its flush.
LEMMA MoveKeepsWaits ==
  ASSUME TypeInv, WaitsAreWellFounded, NEW p \in Procs, NEW l, Goto(p, l),
         closer' = closer, closeDone' = closeDone,
         l \notin {"wgWait", "onceWait", "exited"},
         p = closer /\ ~closeDone => l \in {"flush", "sending", "backoff", "failed"}
  PROVE  WaitsAreWellFounded'
PROOF
<1>1. /\ pc'[p] = l /\ \A r \in Procs \ {p} : pc'[r] = pc[r]
      /\ closer \in Callers \cup {NoCaller} /\ Callers \subseteq Procs
      /\ Flusher \in Procs
  BY DEF TypeInv, TypeOK, Goto, Procs
<1>2. ASSUME NEW r \in Procs
      PROVE  /\ pc'[r] = "wgWait" => r = closer /\ ~closeDone
             /\ pc'[r] = "onceWait" => closer \notin {NoCaller, r}
  BY <1>1 DEF WaitsAreWellFounded, At
<1>3. closer # NoCaller /\ ~closeDone =>
        pc'[closer] \in {"wgWait", "flush", "sending", "backoff", "failed"}
  BY <1>1 DEF WaitsAreWellFounded
<1>4. pc'[Flusher] \notin {"wgWait", "onceWait"} /\ (pc'[Flusher] = "exited" => closer # NoCaller)
  BY <1>1 DEF WaitsAreWellFounded, At
<1> QED BY <1>2, <1>3, <1>4 DEF WaitsAreWellFounded, At

\* Every step leaves the waits without a circle.
LEMMA NextWaits == TypeInv /\ WaitsAreWellFounded /\ [Next]_vars => WaitsAreWellFounded'
PROOF
<1> SUFFICES ASSUME TypeInv, WaitsAreWellFounded, [Next]_vars PROVE WaitsAreWellFounded'
  OBVIOUS
<1> USE CallersAssumption
<1>types. /\ pc \in [Procs -> {"idle", "select", "flush", "sending", "backoff", "failed",
                               "wgWait", "onceWait", "exited"}]
          /\ closer \in Callers \cup {NoCaller}
          /\ Flusher \in Procs /\ Callers \subseteq Procs
  BY DEF TypeInv, TypeOK, Procs
<1>1. ASSUME NEW p \in Callers, Track(p) \/ Flush(p) \/ CloseFlush(p) \/ CloseAgainReturns(p)
      PROVE  WaitsAreWellFounded'
  <2>1. closer' = closer /\ closeDone' = closeDone
    BY <1>1 DEF Track, Flush, CloseFlush, CloseAgainReturns
  <2>2. PICK l \in {"idle", "flush"} : Goto(p, l)
    BY <1>1 DEF Track, Flush, CloseFlush, CloseAgainReturns
  <2>3. p = closer /\ ~closeDone => l = "flush"
    <3>1. CASE Track(p) \/ Flush(p) \/ CloseAgainReturns(p)
      BY <3>1, <1>types DEF Track, Flush, CloseAgainReturns, At, WaitsAreWellFounded
    <3>2. CASE CloseFlush(p)
      BY <3>2, <2>2, <1>types DEF CloseFlush, Goto
    <3> QED BY <1>1, <3>1, <3>2
  <2> QED BY <2>1, <2>2, <2>3, <1>types, MoveKeepsWaits
<1>2. ASSUME NEW p \in Callers, CloseFirst(p) PROVE WaitsAreWellFounded'
  <2>1. /\ closer = NoCaller /\ closer' = p /\ closeDone' = closeDone
        /\ pc'[p] = "wgWait" /\ \A r \in Procs \ {p} : pc'[r] = pc[r]
    BY <1>2, <1>types DEF CloseFirst, Goto
  <2>2. ~closeDone
    BY <2>1 DEF WaitsAreWellFounded
  <2>3. ASSUME NEW r \in Procs
        PROVE  /\ pc'[r] = "wgWait" => r = p
               /\ pc'[r] = "onceWait" => p \notin {NoCaller, r}
    BY <2>1, <1>types DEF WaitsAreWellFounded, At, Procs
  <2> QED BY <2>1, <2>2, <2>3, <1>types DEF WaitsAreWellFounded, At
<1>3. ASSUME NEW p \in Callers, CloseAgain(p) PROVE WaitsAreWellFounded'
  <2>1. /\ closer # NoCaller /\ ~closeDone /\ pc[p] = "idle"
        /\ closer' = closer /\ closeDone' = closeDone
        /\ pc'[p] = "onceWait" /\ \A r \in Procs \ {p} : pc'[r] = pc[r]
    BY <1>3, <1>types DEF CloseAgain, Goto, At
  <2>2. closer # p
    BY <2>1 DEF WaitsAreWellFounded
  <2> QED BY <2>1, <2>2, <1>types DEF WaitsAreWellFounded, At
<1>4. ASSUME Tick PROVE WaitsAreWellFounded'
  BY <1>4 DEF Tick, WaitsAreWellFounded, At
<1>5. ASSUME FlusherWakes PROVE WaitsAreWellFounded'
  <2>1. Goto(Flusher, "flush") /\ closer' = closer /\ closeDone' = closeDone
    BY <1>5 DEF FlusherWakes
  <2> QED BY <2>1, <1>types, MoveKeepsWaits
<1>6. ASSUME FlusherExits PROVE WaitsAreWellFounded'
  <2>1. /\ closer # NoCaller /\ closer' = closer /\ closeDone' = closeDone
        /\ pc'[Flusher] = "exited" /\ \A r \in Procs \ {Flusher} : pc'[r] = pc[r]
    BY <1>6, <1>types DEF FlusherExits, Goto
  <2> QED BY <2>1, <1>types DEF WaitsAreWellFounded, At
<1>7. ASSUME NEW p \in Procs,
             TakeBatch(p) \/ Retry(p) \/ Fail(p) \/ BackoffEnds(p) \/ Abandon(p)
      PROVE  WaitsAreWellFounded'
  <2>1. closer' = closer /\ closeDone' = closeDone
    BY <1>7 DEF TakeBatch, Retry, Fail, BackoffEnds, Abandon
  <2>2. \E l \in {"sending", "backoff", "failed"} : Goto(p, l)
    BY <1>7 DEF TakeBatch, Retry, Fail, BackoffEnds, Abandon
  <2> QED BY <2>1, <2>2, MoveKeepsWaits
<1>8. ASSUME NEW p \in Procs, NothingToFlush(p) \/ Delivered(p) \/ PutBack(p)
      PROVE  WaitsAreWellFounded'
  <2>1. /\ pc[p] \in {"flush", "sending", "failed"} /\ Return(p) /\ closer' = closer
    BY <1>8 DEF NothingToFlush, Delivered, Attempt, PutBack, At
  <2>2. closeDone' = (closeDone \/ p = closer)
    BY <2>1 DEF Return
  <2>3. pc'[p] \in {"idle", "select"} /\ \A r \in Procs \ {p} : pc'[r] = pc[r]
    BY <2>1, <1>types DEF Return, Goto, Rest
  <2>4. ASSUME NEW r \in Procs, pc'[r] = "wgWait" PROVE r = closer /\ ~closeDone'
    <3>1. r # p /\ pc[r] = "wgWait"
      BY <2>3, <2>4
    <3> QED BY <3>1, <2>2 DEF WaitsAreWellFounded, At
  <2>5. ASSUME NEW r \in Procs, pc'[r] = "onceWait" PROVE closer \notin {NoCaller, r}
    BY <2>3, <2>5 DEF WaitsAreWellFounded, At
  <2>6. ASSUME closer # NoCaller, ~closeDone'
        PROVE  pc'[closer] \in {"wgWait", "flush", "sending", "backoff", "failed"}
    BY <2>2, <2>3, <2>6, <1>types DEF WaitsAreWellFounded
  <2>7. pc'[Flusher] \notin {"wgWait", "onceWait"} /\ (pc'[Flusher] = "exited" => closer # NoCaller)
    BY <2>3, <1>types DEF WaitsAreWellFounded, At
  <2>8. closeDone' => closer # NoCaller
    BY <2>2, <1>types DEF WaitsAreWellFounded, Procs
  <2> QED BY <2>1, <2>4, <2>5, <2>6, <2>7, <2>8 DEF WaitsAreWellFounded, At
<1>9. CASE UNCHANGED vars
  BY <1>9 DEF vars, WaitsAreWellFounded, At
<1> QED
  BY <1>1, <1>2, <1>3, <1>4, <1>5, <1>6, <1>7, <1>8, <1>9
     DEF Next, CallerStep, FlusherStep, FlushStep

\* No wait is circular: later Closes wait for the first, the first for the
\* flusher, the flusher for nobody.
THEOREM NoCircularWait == Spec => []WaitsAreWellFounded
PROOF
<1>1. Init => WaitsAreWellFounded
  <2> SUFFICES ASSUME Init PROVE WaitsAreWellFounded
    OBVIOUS
  <2>1. /\ \A p \in Procs : pc[p] \in {"idle", "select"}
        /\ Flusher \in Procs /\ closer = NoCaller /\ ~closeDone
    BY DEF Init, Rest, Procs
  <2> QED BY <2>1 DEF WaitsAreWellFounded, At
<1> QED BY <1>1, InitTypeInv, NextTypeInv, NextWaits, PTL DEF Spec

\* One step of a flush by the goroutine that runs it.
LEMMA FlushStepNearer ==
  ASSUME TypeInv, NEW p \in Procs, FlushStep(p)
  PROVE  StepsLeft(p)' < StepsLeft(p)
PROOF
<1> DEFINE m == MaxAttempts
           a == attempt[p]
           x == StepsLeft(p)
           y == StepsLeft(p)'
<1>1. /\ m \in Nat \ {0} /\ a \in 0..m
      /\ pc[p] = "backoff" => a < m
  BY ConfigAssumption DEF TypeInv, TypeOK, RetriesLeft, At
<1>2. /\ pc \in [Procs -> {"idle", "select", "flush", "sending", "backoff", "failed",
                           "wgWait", "onceWait", "exited"}]
      /\ attempt \in [Procs -> 0..m] /\ Rest(p) \in {"idle", "select"}
  BY DEF TypeInv, TypeOK, Rest
<1>3. /\ pc[p] = "flush" => x = 2 * m + 2
      /\ pc[p] = "sending" => x = 2 * (m - a) + 3
      /\ pc[p] = "backoff" => x = 2 * (m - a) + 2
      /\ pc[p] = "failed" => x = 1
  BY DEF StepsLeft, At
<1>4. /\ pc'[p] \in {"idle", "select"} => y = 0
      /\ pc'[p] = "sending" => y = 2 * (m - attempt'[p]) + 3
      /\ pc'[p] = "backoff" => y = 2 * (m - attempt'[p]) + 2
      /\ pc'[p] = "failed" => y = 1
  BY DEF StepsLeft, At
<1>5. CASE NothingToFlush(p) \/ Delivered(p) \/ PutBack(p)
  <2>1. pc[p] \in {"flush", "sending", "failed"} /\ pc'[p] \in {"idle", "select"}
    BY <1>5, <1>2 DEF NothingToFlush, Delivered, Attempt, PutBack, Return, Goto, At
  <2> HIDE DEF m, a, x, y
  <2>2. y < x
    BY ONLY <2>1, <1>1, <1>3, <1>4
  <2> QED BY <2>2 DEF x, y
<1>6. CASE TakeBatch(p)
  <2>1. /\ pc[p] = "flush"
        /\ pc'[p] = "failed" \/ (pc'[p] = "sending" /\ attempt'[p] = 1)
    BY <1>6, <1>2 DEF TakeBatch, Goto, At
  <2> HIDE DEF m, a, x, y
  <2>2. y < x
    BY ONLY <2>1, <1>1, <1>3, <1>4
  <2> QED BY <2>2 DEF x, y
<1>7. CASE Fail(p) \/ Abandon(p)
  <2>1. pc[p] \in {"sending", "backoff"} /\ pc'[p] = "failed"
    BY <1>7, <1>2 DEF Fail, Abandon, Attempt, Goto, At
  <2> HIDE DEF m, a, x, y
  <2>2. y < x
    BY ONLY <2>1, <1>1, <1>3, <1>4
  <2> QED BY <2>2 DEF x, y
<1>8. CASE Retry(p)
  <2>1. pc[p] = "sending" /\ pc'[p] = "backoff" /\ attempt'[p] = a
    BY <1>8, <1>2 DEF Retry, Attempt, Goto, At
  <2> HIDE DEF m, a, x, y
  <2>2. y < x
    BY ONLY <2>1, <1>1, <1>3, <1>4
  <2> QED BY <2>2 DEF x, y
<1>9. CASE BackoffEnds(p)
  <2>1. pc[p] = "backoff" /\ pc'[p] = "sending" /\ attempt'[p] = a + 1
    BY <1>9, <1>2 DEF BackoffEnds, Goto, At
  <2> HIDE DEF m, a, x, y
  <2>2. y < x
    BY ONLY <2>1, <1>1, <1>3, <1>4
  <2> QED BY <2>2 DEF x, y
<1> QED BY <1>5, <1>6, <1>7, <1>8, <1>9 DEF FlushStep

\* Each step of a flush brings its end nearer: it takes 2 * MaxAttempts + 2
\* steps at most, whatever the API answers and the others do.
THEOREM FlushEndsInBound == Spec => FlushIsBounded
PROOF
<1> DEFINE Nearer(p) == StepsLeft(p) > 0 =>
                          \/ StepsLeft(p)' < StepsLeft(p)
                          \/ UNCHANGED <<pc[p], batch[p], attempt[p]>>
<1>1. TypeInv /\ [Next]_vars => [\A p \in Procs : Nearer(p)]_vars
  <2> SUFFICES ASSUME TypeInv, Next, NEW p \in Procs, StepsLeft(p) > 0
               PROVE  \/ StepsLeft(p)' < StepsLeft(p)
                      \/ UNCHANGED <<pc[p], batch[p], attempt[p]>>
    OBVIOUS
  <2>types. /\ pc \in [Procs -> {"idle", "select", "flush", "sending", "backoff", "failed",
                                 "wgWait", "onceWait", "exited"}]
            /\ batch \in [Procs -> Seq(Events)] /\ attempt \in [Procs -> 0..MaxAttempts]
            /\ Flusher \in Procs /\ Callers \subseteq Procs
    BY DEF TypeInv, TypeOK, Procs
  <2>1. pc[p] \in {"flush", "sending", "backoff", "failed"}
    <3>1. CASE ~(pc[p] \in {"flush", "sending", "backoff", "failed"})
      <4>1. StepsLeft(p) = 0
        BY <3>1 DEF StepsLeft, At
      <4> QED BY <4>1
    <3> QED BY <3>1
  <2>2. ASSUME NEW r \in Callers, CallerStep(r)
        PROVE  UNCHANGED <<pc[p], batch[p], attempt[p]>>
    <3>1. /\ pc[r] \notin {"flush", "sending", "backoff", "failed"}
          /\ batch' = batch /\ attempt' = attempt
          /\ \A t \in Procs \ {r} : pc'[t] = pc[t]
      BY <2>2, <2>types DEF CallerStep, Track, Flush, CloseFirst, CloseFlush, CloseAgain,
                            CloseAgainReturns, Goto, At
    <3> QED BY <3>1, <2>1
  <2>3. ASSUME FlusherStep PROVE UNCHANGED <<pc[p], batch[p], attempt[p]>>
    <3>1. /\ pc' = pc \/ pc[Flusher] = "select"
          /\ batch' = batch /\ attempt' = attempt
          /\ \A t \in Procs \ {Flusher} : pc'[t] = pc[t]
      BY <2>3, <2>types DEF FlusherStep, Tick, FlusherWakes, FlusherExits, Goto, At
    <3> QED BY <3>1, <2>1
  <2>4. ASSUME NEW r \in Procs, FlushStep(r), r # p
        PROVE  UNCHANGED <<pc[p], batch[p], attempt[p]>>
    BY <2>4, <2>types DEF FlushStep, NothingToFlush, TakeBatch, Delivered, Retry, Fail,
         BackoffEnds, Abandon, PutBack, Return, Goto
  <2> QED BY <2>2, <2>3, <2>4, FlushStepNearer DEF Next
<1> QED BY <1>1, InitTypeInv, NextTypeInv, PTL DEF Spec, FlushIsBounded

-------------------------------------------------------------------------------
(* An insecure transport.                                                  *)

\* Nothing was sent and nobody is about to send: a flush of a client with an
\* insecure URL fails before its first attempt.
NothingSent == stored = {} /\ \A p \in Procs : pc[p] \notin {"sending", "backoff"}

\* With an insecure URL a flush fails before it gets to an attempt.
LEMMA NextNothingSent ==
  ASSUME TypeInv, NothingSent, ~SecureTransport, [Next]_vars
  PROVE  NothingSent'
PROOF
<1>types. pc \in [Procs -> {"idle", "select", "flush", "sending", "backoff", "failed",
                            "wgWait", "onceWait", "exited"}]
          /\ Flusher \in Procs /\ Callers \subseteq Procs
          /\ \A p \in Procs : Rest(p) \in {"idle", "select"}
  BY DEF TypeInv, TypeOK, Procs, Rest
<1>1. ASSUME NEW p \in Callers, CallerStep(p) PROVE NothingSent'
  <2>1. stored' = stored
    BY <1>1 DEF CallerStep, Track, Flush, CloseFirst, CloseFlush, CloseAgain,
                CloseAgainReturns, ghosts
  <2>2. \E l \in {"idle", "flush", "wgWait", "onceWait"} : Goto(p, l)
    BY <1>1 DEF CallerStep, Track, Flush, CloseFirst, CloseFlush, CloseAgain,
                CloseAgainReturns
  <2> QED BY <2>1, <2>2, <1>types DEF NothingSent, Goto
<1>2. ASSUME FlusherStep PROVE NothingSent'
  <2>1. stored' = stored
    BY <1>2 DEF FlusherStep, Tick, FlusherWakes, FlusherExits, ghosts
  <2>2. pc' = pc \/ \E l \in {"flush", "exited"} : Goto(Flusher, l)
    BY <1>2 DEF FlusherStep, Tick, FlusherWakes, FlusherExits
  <2> QED BY <2>1, <2>2, <1>types DEF NothingSent, Goto
<1>3. ASSUME NEW p \in Procs, FlushStep(p) PROVE NothingSent'
  <2>1. NothingToFlush(p) \/ TakeBatch(p) \/ PutBack(p)
    BY <1>3 DEF FlushStep, Delivered, Retry, Fail, BackoffEnds, Abandon, Attempt, At,
                NothingSent
  <2>2. stored' = stored
    BY <2>1 DEF NothingToFlush, TakeBatch, PutBack, ghosts
  <2>3. \E l \in {"idle", "select", "failed"} : Goto(p, l)
    BY <2>1, <1>types DEF NothingToFlush, TakeBatch, PutBack, Return
  <2> QED BY <2>2, <2>3, <1>types DEF NothingSent, Goto
<1>4. CASE UNCHANGED vars
  BY <1>4 DEF vars, ghosts, NothingSent
<1> QED BY <1>1, <1>2, <1>3, <1>4 DEF Next

\* With an insecure URL no event ever leaves the process, whatever is called.
THEOREM InsecureIsSilent == Spec => []InsecureSendsNothing
PROOF
<1> DEFINE Inv == SecureTransport \/ NothingSent
<1>1. Init => Inv
  BY DEF Init, NothingSent, Rest
<1>2. TypeInv /\ Inv /\ [Next]_vars => Inv'
  BY NextNothingSent
<1>3. Inv => InsecureSendsNothing
  BY DEF InsecureSendsNothing, NothingSent
<1> QED BY <1>1, <1>2, <1>3, InitTypeInv, NextTypeInv, PTL DEF Spec
===============================================================================
