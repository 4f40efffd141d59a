--------------------------- MODULE EventOrderProofs ---------------------------
(***************************************************************************)
(* The order in which events leave: as long as no two batches are out at   *)
(* once, retries and requeues never put a younger event before an older    *)
(* one.  Ranks make this a statement about increasing sequences.           *)
(***************************************************************************)
EXTENDS CustdClientProofs

Rising(s) == \A i, j \in 1..Len(s) : i < j => s[i] < s[j]

Before(s, t) == \A a \in Range(s), b \in Range(t) : a < b

\* A concatenation rises iff both parts do and the first ends below the second.
LEMMA RisingConcat ==
  ASSUME NEW s \in Seq(Nat), NEW t \in Seq(Nat)
  PROVE  Rising(s \o t) <=> Rising(s) /\ Rising(t) /\ Before(s, t)
PROOF
<1> DEFINE u == s \o t
           m == Len(s)
           n == Len(t)
<1>1. /\ Len(u) = m + n
      /\ \A i \in 1..m + n : u[i] = IF i <= m THEN s[i] ELSE t[i - m]
  BY ConcatProperties
<1>2. /\ m \in Nat /\ n \in Nat
      /\ s \in [1..m -> Nat] /\ t \in [1..n -> Nat]
  BY LenProperties
<1> HIDE DEF u, m, n
<1>3. \A i \in 1..m : i \in 1..Len(u) /\ u[i] = s[i]
  BY <1>1, <1>2
<1>4. \A i \in 1..n : i + m \in 1..Len(u) /\ u[i + m] = t[i] /\ ~(i + m <= m)
  <2> TAKE i \in 1..n
  <2>1. i + m \in 1..m + n /\ ~(i + m <= m) /\ (i + m) - m = i
    BY <1>2
  <2>2. u[i + m] = t[(i + m) - m]
    BY <2>1, <1>1
  <2> QED BY <2>1, <2>2, <1>1
<1>5. ASSUME Rising(u) PROVE Rising(s) /\ Rising(t) /\ Before(s, t)
  <2>1. Rising(s)
    BY <1>3, <1>5 DEF Rising, m
  <2>2. Rising(t)
    <3> SUFFICES ASSUME NEW i \in 1..n, NEW j \in 1..n, i < j PROVE t[i] < t[j]
      BY DEF Rising, n
    <3>1. i + m < j + m
      BY <1>2
    <3> QED BY <3>1, <1>4, <1>5 DEF Rising
  <2>3. Before(s, t)
    <3> SUFFICES ASSUME NEW i \in 1..m, NEW j \in 1..n PROVE s[i] < t[j]
      BY <1>2 DEF Before, Range
    <3>1. i < j + m
      BY <1>2
    <3> QED BY <3>1, <1>3, <1>4, <1>5 DEF Rising
  <2> QED BY <2>1, <2>2, <2>3
<1>6. ASSUME Rising(s), Rising(t), Before(s, t) PROVE Rising(u)
  <2> SUFFICES ASSUME NEW i \in 1..m + n, NEW j \in 1..m + n, i < j PROVE u[i] < u[j]
    BY <1>1 DEF Rising
  <2>1. CASE j <= m
    <3>1. i \in 1..m /\ j \in 1..m
      BY <2>1, <1>2
    <3> QED BY <3>1, <1>3, <1>6 DEF Rising, m
  <2>2. CASE i <= m /\ ~(j <= m)
    <3>1. i \in 1..m /\ j - m \in 1..n
      BY <2>2, <1>2
    <3>2. u[i] = s[i] /\ u[j] = t[j - m]
      BY <2>2, <1>1
    <3>3. s[i] \in Range(s) /\ t[j - m] \in Range(t)
      BY <3>1, <1>2 DEF Range
    <3> QED BY <3>2, <3>3, <1>6 DEF Before
  <2>3. CASE ~(i <= m)
    <3>1. i - m \in 1..n /\ j - m \in 1..n /\ i - m < j - m
      BY <2>3, <1>2
    <3>2. u[i] = t[i - m] /\ u[j] = t[j - m]
      BY <2>3, <1>1, <1>2
    <3> QED BY <3>1, <3>2, <1>6 DEF Rising, n
  <2> QED BY <2>1, <2>2, <2>3
<1> QED BY <1>5, <1>6 DEF u

\* An appended event joins the range.
LEMMA RangeOfAppend ==
  ASSUME NEW s \in Seq(Nat), NEW e \in Nat
  PROVE  Range(Append(s, e)) = Range(s) \cup {e}
PROOF
<1> DEFINE one == <<e>>
<1>1. one \in Seq(Nat) /\ Range(one) = {e} /\ Append(s, e) = s \o one
  BY AppendIsConcat DEF Range
<1> HIDE DEF one
<1>2. Range(s \o one) = Range(s) \cup Range(one)
  BY <1>1, RangeConcatenation
<1> QED BY <1>1, <1>2

\* enqueue keeps a rising queue rising if the new event is the youngest.
LEMMA EnqueueRises ==
  ASSUME NEW q \in Seq(Nat), NEW e \in Nat, NEW cap \in Nat \ {0},
         Rising(q), \A a \in Range(q) : a < e
  PROVE  Rising(Enqueue(q, e, cap)) /\ Range(Enqueue(q, e, cap)) \subseteq Range(q) \cup {e}
PROOF
<1> DEFINE keep == IF Len(q) >= cap THEN Tail(q) ELSE q
<1>1. Len(q) \in Nat /\ DOMAIN q = 1..Len(q)
  BY LenProperties
<1>2. keep \in Seq(Nat) /\ Rising(keep) /\ Range(keep) \subseteq Range(q)
  <2>1. CASE Len(q) >= cap
    <3> DEFINE h == SubSeq(q, 1, 1)
               r == SubSeq(q, 1 + 1, Len(q))
    <3>1. q # <<>> /\ 1 \in 0..Len(q)
      BY <2>1, <1>1, EmptySeq
    <3>2. keep = r
      BY <2>1, <3>1, TailIsSubSeq
    <3>3. h \in Seq(Nat) /\ r \in Seq(Nat) /\ Parts(q, h, r)
      BY <3>1, Cut
    <3> HIDE DEF h, r, keep
    <3>4. h \o r = q /\ Range(r) \subseteq Range(q)
      BY <3>3 DEF Parts
    <3>5. Rising(r)
      BY <3>3, <3>4, RisingConcat
    <3> QED BY <3>2, <3>3, <3>4, <3>5
  <2>2. CASE ~(Len(q) >= cap)
    BY <2>2
  <2> QED BY <2>1, <2>2
<1>3. Enqueue(q, e, cap) = Append(keep, e)
  BY DEF Enqueue
<1> HIDE DEF keep
<1>4. /\ <<e>> \in Seq(Nat) /\ Range(<<e>>) = {e} /\ Rising(<<e>>)
      /\ Append(keep, e) = keep \o <<e>>
  BY <1>2, AppendIsConcat DEF Range, Rising
<1>5. Range(keep \o <<e>>) = Range(keep) \cup {e}
  BY <1>2, <1>4, RangeOfAppend
<1>6. Before(keep, <<e>>)
  BY <1>2, <1>4 DEF Before
<1>7. Rising(keep \o <<e>>)
  BY <1>2, <1>4, <1>6, RisingConcat
<1> QED BY <1>2, <1>3, <1>4, <1>5, <1>7

-----------------------------------------------------------------------------
(* The invariant.                                                          *)

\* Before any overlap at most one batch is out; it and the queue rise, and it
\* is older than the queue.
InOrder ==
  /\ Rising(queue)
  /\ \A p \in Procs : Rising(batch[p]) /\ Before(batch[p], queue)
  /\ \A p, r \in Procs : batch[p] # <<>> /\ batch[r] # <<>> => p = r

OrderInv == overlapped \/ InOrder

\* What an empty sequence satisfies.
LEMMA NothingRises ==
  /\ <<>> \in Seq(Nat) /\ Rising(<<>>) /\ Range(<<>>) = {}
  /\ \A s : Before(<<>>, s) /\ Before(s, <<>>)
PROOF BY EmptySeq, EmptyBatch DEF Rising, Before

\* The events there are, as numbers.
LEMMA Ranks ==
  ASSUME TypeInv, PlaceInv
  PROVE  /\ queue \in Seq(Nat) /\ next \in Nat
         /\ \A e \in Range(queue) : e < next
         /\ \A p \in Procs : batch[p] \in Seq(Nat) /\ \A e \in Range(batch[p]) : e < next
PROOF
<1>1. Events \subseteq Nat /\ next \in Nat
  BY ConfigAssumption DEF TypeInv, TypeOK, Events
<1>2. queue \in Seq(Nat) /\ \A p \in Procs : batch[p] \in Seq(Nat)
  <2>1. \A s \in Seq(Events) : s \in Seq(Nat)
    <3> TAKE s \in Seq(Events)
    <3>1. Len(s) \in Nat /\ s \in [1..Len(s) -> Events]
      BY LenProperties
    <3>2. s \in [1..Len(s) -> Nat]
      BY <3>1, <1>1
    <3> QED BY <3>1, <3>2, SeqDef
  <2> QED BY <2>1 DEF TypeInv, TypeOK
<1>3. \A e \in Tracked : e < next
  BY <1>1 DEF Tracked
<1>4. Range(queue) \subseteq Tracked /\ \A p \in Procs : Range(batch[p]) \subseteq Tracked
  BY PlaceOf DEF PlaceInv
<1> QED BY <1>1, <1>2, <1>3, <1>4
\* A step that neither moves an event nor starts an overlap.
LEMMA OrderKept ==
  ASSUME OrderInv, UNCHANGED <<queue, batch, overlapped>>
  PROVE  OrderInv'
PROOF BY DEF OrderInv, InOrder

\* Track puts the youngest event last.
LEMMA TrackInOrder ==
  ASSUME TypeInv, PlaceInv, OrderInv, NEW p \in Callers, Track(p)
  PROVE  OrderInv'
PROOF
<1>1. /\ queue' = Enqueue(queue, next, Capacity) /\ batch' = batch
      /\ overlapped' = overlapped
  BY DEF Track
<1> SUFFICES ASSUME InOrder PROVE InOrder'
  BY <1>1 DEF OrderInv
<1>2. Rising(queue') /\ Range(queue') \subseteq Range(queue) \cup {next}
  BY <1>1, Ranks, EnqueueRises, ConfigAssumption DEF InOrder
<1>3. ASSUME NEW r \in Procs PROVE Before(batch[r], queue')
  BY <1>2, Ranks DEF InOrder, Before
<1> QED BY <1>1, <1>2, <1>3 DEF InOrder

\* TakeBatch cuts the queue; if nothing else is out, the batch is the older part.
LEMMA TakeInOrder ==
  ASSUME TypeInv, PlaceInv, OrderInv, NEW p \in Procs, TakeBatch(p)
  PROVE  OrderInv'
PROOF
<1>1. /\ batch' = [batch EXCEPT ![p] = Taken(queue, BatchSize)]
      /\ queue' = Dequeue(queue, BatchSize)
      /\ overlapped' = (overlapped \/ \E r \in Procs : batch[r] # <<>>)
  BY DEF TakeBatch
<1> SUFFICES ASSUME InOrder, \A r \in Procs : batch[r] = <<>> PROVE InOrder'
  BY <1>1 DEF OrderInv
<1>2. batch'[p] = Taken(queue, BatchSize) /\ \A r \in Procs \ {p} : batch'[r] = <<>>
  BY <1>1 DEF TypeInv, TypeOK
<1>3. /\ Taken(queue, BatchSize) \in Seq(Nat) /\ Dequeue(queue, BatchSize) \in Seq(Nat)
      /\ Taken(queue, BatchSize) \o Dequeue(queue, BatchSize) = queue
  BY Ranks, DequeueSplits, ConfigAssumption DEF Parts
<1>4. Rising(batch'[p]) /\ Rising(queue') /\ Before(batch'[p], queue')
  BY <1>1, <1>2, <1>3, RisingConcat DEF InOrder
<1>5. ASSUME NEW r \in Procs PROVE Rising(batch'[r]) /\ Before(batch'[r], queue')
  BY <1>2, <1>4, NothingRises
<1> QED BY <1>2, <1>4, <1>5 DEF InOrder

\* A flush that ends leaves its batch nowhere but in the queue.
LEMMA ReturnInOrder ==
  ASSUME TypeInv, OrderInv, NEW p \in Procs, Return(p), overlapped' = overlapped,
         InOrder => /\ Rising(queue')
                    /\ \A r \in Procs \ {p} : Before(batch[r], queue')
  PROVE  OrderInv'
PROOF
<1>1. batch'[p] = <<>> /\ \A r \in Procs \ {p} : batch'[r] = batch[r]
  BY DEF Return, TypeInv, TypeOK
<1> SUFFICES ASSUME InOrder PROVE InOrder'
  BY DEF OrderInv
<1>2. ASSUME NEW r \in Procs PROVE Rising(batch'[r]) /\ Before(batch'[r], queue')
  <2>1. CASE r = p
    BY <2>1, <1>1, NothingRises
  <2>2. CASE r # p
    BY <2>2, <1>1 DEF InOrder
  <2> QED BY <2>1, <2>2
<1>3. ASSUME NEW r \in Procs, NEW t \in Procs, batch'[r] # <<>>, batch'[t] # <<>>
      PROVE  r = t
  BY <1>1, <1>3 DEF InOrder
<1> QED BY <1>2, <1>3 DEF InOrder

\* PutBack: the batch goes in front of what came after it, and the cut takes
\* the oldest.
LEMMA PutBackInOrder ==
  ASSUME TypeInv, PlaceInv, OrderInv, NEW p \in Procs, PutBack(p)
  PROVE  OrderInv'
PROOF
<1> DEFINE u == batch[p] \o queue
           k == Excess(queue, batch[p], Capacity)
           x == SubSeq(u, 1, k)
           r == SubSeq(u, k + 1, Len(u))
<1>1. Return(p) /\ overlapped' = overlapped /\ queue' = r
  BY DEF PutBack, Requeue
<1>2. batch[p] \in Seq(Nat) /\ queue \in Seq(Nat)
  BY Ranks
<1>3. u \in Seq(Nat) /\ Len(u) \in Nat /\ Range(u) = Range(batch[p]) \cup Range(queue)
  BY ONLY <1>2, ConcatProperties, LenProperties, RangeConcatenation
<1>4. k \in 0..Len(u)
  BY <1>3, ConfigAssumption DEF Excess
<1> SUFFICES ASSUME InOrder
             PROVE  Rising(queue') /\ \A t \in Procs \ {p} : Before(batch[t], queue')
  BY <1>1, ReturnInOrder
<1>5. Rising(u)
  BY <1>2, RisingConcat DEF InOrder
<1> HIDE DEF u, k
<1>cut. x \in Seq(Nat) /\ r \in Seq(Nat) /\ Parts(u, x, r)
  BY ONLY <1>3, <1>4, Cut
<1> HIDE DEF x, r
<1>6. x \in Seq(Nat) /\ r \in Seq(Nat) /\ x \o r = u /\ Range(r) \subseteq Range(u)
  BY <1>cut DEF Parts
<1>7. Rising(r)
  BY <1>5, <1>6, RisingConcat
<1>8. ASSUME NEW t \in Procs \ {p} PROVE Before(batch[t], r)
  <2>1. CASE batch[t] = <<>>
    BY <2>1, NothingRises
  <2>2. CASE batch[t] # <<>>
    <3>1. batch[p] = <<>> /\ Before(batch[t], queue)
      BY <2>2 DEF InOrder
    <3>2. Range(r) \subseteq Range(queue)
      BY <3>1, <1>3, <1>6, NothingRises
    <3> QED BY <3>1, <3>2 DEF Before
  <2> QED BY <2>1, <2>2
<1> QED BY <1>1, <1>7, <1>8

\* Every step keeps the order, or starts an overlap.
LEMMA NextOrderInv == TypeInv /\ PlaceInv /\ OrderInv /\ [Next]_vars => OrderInv'
PROOF
<1> SUFFICES ASSUME TypeInv, PlaceInv, OrderInv, [Next]_vars PROVE OrderInv'
  OBVIOUS
<1>1. ASSUME NEW p \in Callers, Track(p) PROVE OrderInv'
  BY <1>1, TrackInOrder
<1>2. ASSUME NEW p \in Callers,
             Flush(p) \/ CloseFirst(p) \/ CloseFlush(p) \/ CloseAgain(p)
               \/ CloseAgainReturns(p)
      PROVE  OrderInv'
  BY <1>2, OrderKept DEF Flush, CloseFirst, CloseFlush, CloseAgain, CloseAgainReturns, ghosts
<1>3. ASSUME FlusherStep PROVE OrderInv'
  BY <1>3, OrderKept DEF FlusherStep, Tick, FlusherWakes, FlusherExits, ghosts
<1>4. ASSUME NEW p \in Procs, NothingToFlush(p) \/ Delivered(p) PROVE OrderInv'
  <2>1. Return(p) /\ overlapped' = overlapped /\ queue' = queue
    BY <1>4 DEF NothingToFlush, Delivered, ghosts
  <2> QED BY <2>1, ReturnInOrder DEF InOrder
<1>5. ASSUME NEW p \in Procs, TakeBatch(p) PROVE OrderInv'
  BY <1>5, TakeInOrder
<1>6. ASSUME NEW p \in Procs, Retry(p) \/ Fail(p) \/ BackoffEnds(p) \/ Abandon(p)
      PROVE  OrderInv'
  BY <1>6, OrderKept DEF Retry, Fail, BackoffEnds, Abandon, ghosts
<1>7. ASSUME NEW p \in Procs, PutBack(p) PROVE OrderInv'
  BY <1>7, PutBackInOrder
<1>8. CASE UNCHANGED vars
  BY <1>8, OrderKept DEF vars, ghosts
<1> QED
  BY <1>1, <1>2, <1>3, <1>4, <1>5, <1>6, <1>7, <1>8 DEF Next, CallerStep, FlushStep

\* Nothing is out and nothing queued at first.
LEMMA InitOrderInv == Init => OrderInv
PROOF
<1> SUFFICES ASSUME Init PROVE InOrder
  BY DEF OrderInv
<1>1. queue = <<>> /\ \A p \in Procs : batch[p] = <<>>
  BY DEF Init
<1> QED BY <1>1, NothingRises DEF InOrder

\* Order survives any number of failed attempts, requeues and overflows, as
\* long as no batch was taken while another was out.
THEOREM OrderKeptWithoutOverlap == Spec => []OldestFirst
PROOF
<1>1. TypeInv /\ PlaceInv /\ OrderInv => OldestFirst
  <2> SUFFICES ASSUME TypeInv, PlaceInv, InOrder, NEW p \in Procs
               PROVE  Rising(batch[p] \o queue)
    BY DEF OrderInv, OldestFirst, Rising
  <2> QED BY Ranks, RisingConcat DEF InOrder
<1> QED BY <1>1, InitOrderInv, InitTypeInv, NextTypeInv, InitPlaceInv, NextPlaceInv,
           NextOrderInv, PTL DEF Spec

-----------------------------------------------------------------------------
(* What the API has taken over is older than what waits.                   *)

\* The histories only grow, and only a delivered batch is acknowledged.
LEMMA HistoriesGrow ==
  ASSUME TypeInv, [Next]_vars
  PROVE  /\ acked \subseteq acked' /\ dropped \subseteq dropped'
         /\ overlapped => overlapped'
         /\ next' = next \/ next' = next + 1
         /\ acked' # acked => \E p \in Procs : Delivered(p)
PROOF
<1>1. ASSUME NEW p \in Callers, CallerStep(p)
      PROVE  /\ acked' = acked /\ overlapped' = overlapped /\ dropped \subseteq dropped'
             /\ next' = next \/ next' = next + 1
  BY <1>1 DEF CallerStep, Track, Flush, CloseFirst, CloseFlush, CloseAgain,
              CloseAgainReturns, ghosts
<1>2. ASSUME FlusherStep PROVE UNCHANGED <<acked, overlapped, dropped, next>>
  BY <1>2 DEF FlusherStep, Tick, FlusherWakes, FlusherExits, ghosts
<1>3. ASSUME NEW p \in Procs, FlushStep(p), ~Delivered(p)
      PROVE  /\ acked' = acked /\ next' = next /\ dropped \subseteq dropped'
             /\ overlapped => overlapped'
  <2>1. CASE TakeBatch(p)
    BY <2>1 DEF TakeBatch
  <2>2. CASE NothingToFlush(p) \/ Retry(p) \/ Fail(p) \/ BackoffEnds(p) \/ Abandon(p)
    BY <2>2 DEF NothingToFlush, Retry, Fail, BackoffEnds, Abandon, ghosts
  <2>3. CASE PutBack(p)
    BY <2>3 DEF PutBack
  <2> QED BY <1>3, <2>1, <2>2, <2>3 DEF FlushStep
<1>4. ASSUME NEW p \in Procs, Delivered(p)
      PROVE  /\ acked \subseteq acked' /\ next' = next /\ dropped' = dropped
             /\ overlapped' = overlapped
  BY <1>4 DEF Delivered
<1>5. CASE UNCHANGED vars
  BY <1>5 DEF vars, ghosts
<1> QED BY <1>1, <1>2, <1>3, <1>4, <1>5 DEF Next

\* Whatever waits after a step waited before it or is the event just tracked:
\* what follows from the conservation of events alone.
LEMMA StillWaiting ==
  ASSUME TypeInv, PlaceInv, PlaceInv', [Next]_vars
  PROVE  /\ \A e \in Range(queue') \cup InFlight' :
              e \in Range(queue) \cup InFlight \/ e = next
         /\ \A a \in acked : a < next
PROOF
<1>1. next \in Nat /\ next' \in Nat
  BY NextTypeInv, ConfigAssumption DEF TypeInv, TypeOK
<1>2. \A e : e \in Tracked <=> e \in 1..(next - 1)
  BY DEF Tracked
<1>3. \A e : e \in Tracked' => e \in Tracked \/ e = next
  <2>1. \A e : e \in Tracked' <=> e \in 1..(next' - 1)
    BY DEF Tracked
  <2> QED BY <2>1, <1>1, <1>2, HistoriesGrow
<1>4. Tracked = Range(queue) \cup InFlight \cup acked \cup dropped
  BY DEF PlaceInv, NoEventLost
<1>5. Range(queue') \cup InFlight' \subseteq Tracked'
  BY DEF PlaceInv, NoEventLost
<1>6. (Range(queue') \cup InFlight') \cap (acked' \cup dropped') = {}
  BY DEF PlaceInv, OnePlace, InFlight
<1>7. acked \subseteq acked' /\ dropped \subseteq dropped'
  BY HistoriesGrow
<1>8. \A a \in acked : a < next
  BY <1>1, <1>2, <1>4
<1> QED BY <1>3, <1>4, <1>5, <1>6, <1>7, <1>8

\* What is delivered was older than all that waits: the only batch that was out.
LEMMA NextAckedInOrder ==
  TypeInv /\ PlaceInv /\ OrderInv /\ AckedInOrder /\ [Next]_vars => AckedInOrder'
PROOF
<1> SUFFICES ASSUME TypeInv, PlaceInv, OrderInv, AckedInOrder, [Next]_vars, ~overlapped',
                    NEW a \in acked', NEW e \in Range(queue') \cup InFlight'
             PROVE  a < e
  BY DEF AckedInOrder
<1>1. ~overlapped /\ InOrder
  BY HistoriesGrow DEF OrderInv
<1>2. (e \in Range(queue) \cup InFlight \/ e = next) /\ \A b \in acked : b < next
  BY NextPlaceInv, StillWaiting
<1>3. CASE a \in acked
  BY <1>1, <1>2, <1>3 DEF AckedInOrder
<1>4. CASE a \notin acked
  <2>1. PICK p \in Procs : Delivered(p)
    BY <1>4, HistoriesGrow
  <2>2. /\ a \in Range(batch[p]) /\ queue' = queue
        /\ batch'[p] = <<>> /\ \A r \in Procs \ {p} : batch'[r] = batch[r]
    BY <2>1, <1>4 DEF Delivered, Return, TypeInv, TypeOK
  <2>3. batch[p] # <<>>
    BY <2>2, NothingRises
  <2>4. ASSUME NEW r \in Procs, e \in Range(batch'[r]) PROVE FALSE
    <3>1. batch'[r] # <<>>
      BY <2>4, NothingRises
    <3>2. r # p /\ batch[r] # <<>>
      BY <3>1, <2>2
    <3> QED BY <3>2, <2>3, <1>1 DEF InOrder
  <2>5. e \in Range(queue)
    BY <2>2, <2>4 DEF InFlight
  <2> QED BY <2>2, <2>5, <1>1 DEF InOrder, Before
<1> QED BY <1>3, <1>4

\* The API is served in order of arrival: before any overlap no event is
\* acknowledged while an older one still waits.
THEOREM AcknowledgedInOrder == Spec => []AckedInOrder
PROOF
<1>1. Init => AckedInOrder
  BY DEF Init, AckedInOrder
<1> QED BY <1>1, InitOrderInv, InitTypeInv, NextTypeInv, InitPlaceInv, NextPlaceInv,
           NextOrderInv, NextAckedInOrder, PTL DEF Spec
-----------------------------------------------------------------------------
(* What an overflow discards.                                              *)

\* Enqueue into a full rising queue evicts what is below all the rest.
LEMMA EvictedIsOldest ==
  ASSUME NEW q \in Seq(Nat), NEW e \in Nat, NEW cap \in Nat \ {0},
         Rising(q), \A a \in Range(q) : a < e
  PROVE  \A d \in Evicted(q, cap) : \A a \in Range(Enqueue(q, e, cap)) : d < a
PROOF
<1> DEFINE h == SubSeq(q, 1, 1)
           r == SubSeq(q, 1 + 1, Len(q))
<1> SUFFICES ASSUME Len(q) >= cap
             PROVE  \A a \in Range(Enqueue(q, e, cap)) : Head(q) < a
  BY DEF Evicted
<1>1. Len(q) \in Nat /\ q # <<>> /\ 1 \in 0..Len(q)
  BY LenProperties, EmptySeq
<1>2. Enqueue(q, e, cap) = Append(r, e)
  <2>1. Tail(q) = r
    BY <1>1, TailIsSubSeq
  <2> QED BY <2>1 DEF Enqueue
<1>3. h \in Seq(Nat) /\ r \in Seq(Nat) /\ Parts(q, h, r) /\ Head(q) \in Range(h)
  <2>1. h \in Seq(Nat) /\ r \in Seq(Nat) /\ Parts(q, h, r) /\ Len(h) = 1
    BY <1>1, Cut
  <2>2. h[1] = q[1] /\ Head(q) = q[1]
    BY <1>1
  <2> QED BY <2>1, <2>2 DEF Range
<1> HIDE DEF h, r
<1>4. h \o r = q /\ Range(h) \subseteq Range(q)
  BY <1>3 DEF Parts
<1>5. Before(h, r)
  BY <1>3, <1>4, RisingConcat
<1>6. Range(Append(r, e)) = Range(r) \cup {e}
  BY <1>3, RangeOfAppend
<1> QED BY <1>2, <1>3, <1>4, <1>5, <1>6 DEF Before

\* Requeue cuts off what is below all the rest, if the batch is older than
\* the queue.
LEMMA TruncatedIsOldest ==
  ASSUME NEW q \in Seq(Nat), NEW b \in Seq(Nat), NEW cap \in Nat,
         Rising(q), Rising(b), Before(b, q)
  PROVE  \A d \in Truncated(q, b, cap) : \A a \in Range(Requeue(q, b, cap)) : d < a
PROOF
<1> DEFINE u == b \o q
           k == Excess(q, b, cap)
           x == SubSeq(u, 1, k)
           r == SubSeq(u, k + 1, Len(u))
<1>1. Truncated(q, b, cap) = Range(x) /\ Requeue(q, b, cap) = r
  BY DEF Truncated, Requeue
<1>2. u \in Seq(Nat) /\ Len(u) \in Nat /\ Rising(u)
  BY ConcatProperties, LenProperties, RisingConcat
<1>3. k \in 0..Len(u)
  BY <1>2 DEF Excess
<1> HIDE DEF u, k
<1>4. x \in Seq(Nat) /\ r \in Seq(Nat) /\ Parts(u, x, r)
  BY ONLY <1>2, <1>3, Cut
<1> HIDE DEF x, r
<1>5. x \o r = u
  BY <1>4 DEF Parts
<1>6. Before(x, r)
  BY <1>2, <1>4, <1>5, RisingConcat
<1> QED BY <1>1, <1>6 DEF Before

\* Until flushes overlap, an overflow discards nothing but the oldest of what
\* is queued.
THEOREM OverflowDropsOldest == Spec => DropsOldestWithoutOverlap
PROOF
<1>1. ASSUME TypeInv, PlaceInv, OrderInv, [Next]_vars
      PROVE  ~overlapped =>
               \A d \in dropped' \ dropped : \A e \in Range(queue') : d < e
  <2> SUFFICES ASSUME InOrder, NEW d \in dropped' \ dropped, NEW e \in Range(queue')
               PROVE  d < e
    BY <1>1 DEF OrderInv
  <2>1. CASE \E p \in Callers : Track(p)
    <3>1. /\ d \in Evicted(queue, Capacity)
          /\ queue' = Enqueue(queue, next, Capacity)
      BY <2>1 DEF Track
    <3> QED BY <3>1, <1>1, Ranks, EvictedIsOldest, ConfigAssumption DEF InOrder
  <2>2. CASE \E p \in Procs : PutBack(p)
    <3>1. PICK p \in Procs : PutBack(p)
      BY <2>2
    <3>2. /\ d \in Truncated(queue, batch[p], Capacity)
          /\ queue' = Requeue(queue, batch[p], Capacity)
      BY <3>1 DEF PutBack
    <3> QED BY <3>2, <1>1, Ranks, TruncatedIsOldest, ConfigAssumption DEF InOrder
  <2>3. CASE dropped' = dropped
    BY <2>3
  <2>4. ASSUME NEW p \in Procs, FlushStep(p), ~PutBack(p) PROVE dropped' = dropped
    BY <2>4 DEF FlushStep, NothingToFlush, TakeBatch, Delivered, Retry, Fail,
                BackoffEnds, Abandon, ghosts
  <2>5. ASSUME NEW p \in Callers, CallerStep(p), ~Track(p) PROVE dropped' = dropped
    BY <2>5 DEF CallerStep, Flush, CloseFirst, CloseFlush, CloseAgain,
                CloseAgainReturns, ghosts
  <2>6. CASE FlusherStep
    BY <2>6, <2>3 DEF FlusherStep, Tick, FlusherWakes, FlusherExits, ghosts
  <2>7. CASE UNCHANGED vars
    BY <2>7, <2>3 DEF vars, ghosts
  <2> QED BY <1>1, <2>1, <2>2, <2>3, <2>4, <2>5, <2>6, <2>7 DEF Next
<1> QED BY <1>1, InitOrderInv, InitTypeInv, NextTypeInv, InitPlaceInv, NextPlaceInv,
           NextOrderInv, PTL DEF Spec, DropsOldestWithoutOverlap
=============================================================================
