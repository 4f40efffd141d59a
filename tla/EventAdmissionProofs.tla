------------------------- MODULE EventAdmissionProofs -------------------------
(***************************************************************************)
(* Theorems about EventAdmission for every application that gives each     *)
(* event its own label map, every configured environment, any number of    *)
(* structs, maps and calls, and any size of queue and batch.               *)
(***************************************************************************)
EXTENDS EventAdmissionProperties, EventQueueTheorems

Valid == Environments \ {"reserved"}

States == {"blank", "ready", "refused", "queued"}

Structs == [id : Nat, environment : Environments, labels : LabelMaps \union {NoLabels},
            complete : BOOLEAN, state : States]

Copies == [id : Nat \ {0}, environment : Valid, labels : LabelMaps \union {NoLabels},
           struct : Envelopes]

\* The copies that are queued or in a batch.
Waiting == Range(queue) \union Range(batch)

\* The identities under which something waits or was sent, each with the
\* environment that was declared.
Trail ==
    {[id |-> r.id, environment |-> r.environment] : r \in Waiting}
    \union {[id |-> w.id, environment |-> w.declared] : w \in wire}

-----------------------------------------------------------------------------
(* The inductive invariant.                                                *)

Typed ==
    /\ clientEnvironment \in ClientDefaults
    /\ envelopes \in [Envelopes -> Structs]
    /\ \A e \in Envelopes : envelopes[e].environment \in Declared \union {Unset}
    /\ contents \in [LabelMaps -> Labels]
    /\ queue \in Seq(Copies) /\ batch \in Seq(Copies)
    /\ Len(queue) <= Capacity
    /\ tracks \in Nat

\* A map belongs to one struct and to one event; a struct that shares its map
\* with a copy still is the event that was queued.
Owned ==
    /\ \A e, f \in Envelopes : Held(e) = Held(f) /\ Held(e) # NoLabels => e = f
    /\ \A e \in Envelopes : envelopes[e].state = "blank" => Held(e) = NoLabels
    /\ \A e \in Envelopes, r \in Waiting : Held(e) = r.labels /\ r.labels # NoLabels =>
          /\ envelopes[e].state = "queued"
          /\ envelopes[e].id = r.id /\ envelopes[e].environment = r.environment
    /\ \A r, s \in Waiting : r.labels = s.labels /\ r.labels # NoLabels => r.id = s.id

\* A copy's map says what the copy was stamped with; one that is not queued has
\* no stamp.
StampOf(r) ==
    IF r.labels = NoLabels THEN Effective(r.environment) = Unset
    ELSE contents[r.labels] = [own |-> "legal", stamp |-> Effective(r.environment)]

Stamps == (\A r \in Waiting : StampOf(r)) /\ RefusedCorrectable

\* An identity belongs to one event: what waits or was sent under it declares one
\* environment, and a struct that has it is that event.
Identified ==
    /\ Trail \subseteq [id : 1 .. tracks, environment : Valid]
    /\ \A a, b \in Trail : a.id = b.id => a = b
    /\ \A e \in Envelopes : envelopes[e].id \in 0 .. tracks
    /\ \A e \in Envelopes : envelopes[e].state = "queued" => envelopes[e].id # NoId
    /\ \A e, f \in Envelopes : envelopes[e].id = envelopes[f].id /\ envelopes[e].id # NoId => e = f
    /\ \A e \in Envelopes, a \in Trail : envelopes[e].id = a.id =>
          envelopes[e].state = "queued" /\ envelopes[e].environment = a.environment

\* What was sent follows from its identity and its declared environment.
SentAs(id, environment) ==
    [id |-> id, own |-> "legal", environment |-> Effective(environment), declared |-> environment]

Sent == \A w \in wire : w = SentAs(w.id, w.declared)

IInv == Typed /\ Owned /\ Stamps /\ Identified /\ Sent

-----------------------------------------------------------------------------
(* What waits.                                                             *)

\* What waits is what is queued or taken.
LEMMA WaitingIsRange == Typed => Waiting = Range(queue \o batch)
  BY RangeConcatenation DEF Typed, Waiting

\* It is copies of structs.
LEMMA WaitingTyped == Typed => Waiting \subseteq Copies
  BY RangeOfSeq DEF Typed, Waiting

\* Nothing is in an empty queue.
LEMMA EmptyRange == Range(<<>>) = {}
  BY DEF Range

\* Steps that move copies, or let go of some, and leave the application's
\* structs and maps alone keep the invariant.
LEMMA FewerWait ==
    ASSUME IInv, Waiting' \subseteq Waiting,
           queue' \in Seq(Copies), batch' \in Seq(Copies), Len(queue') <= Capacity,
           UNCHANGED <<clientEnvironment, envelopes, contents, tracks>>,
           wire' \subseteq wire \union {SentAs(r.id, r.environment) : r \in Waiting}
    PROVE  IInv'
  <1>same. /\ clientEnvironment' = clientEnvironment /\ envelopes' = envelopes
           /\ contents' = contents /\ tracks' = tracks
    OBVIOUS
  <1>1. Typed'
    BY <1>same DEF IInv, Typed
  <1>2. Owned'
    BY <1>same DEF IInv, Owned, Held
  <1>3. Stamps'
    <2>1. \A r \in Waiting : StampOf(r)'
      BY <1>same DEF IInv, Stamps, StampOf, Effective
    <2>2. RefusedCorrectable'
      BY <1>same DEF IInv, Stamps, RefusedCorrectable, Held
    <2> QED
      BY <2>1, <2>2 DEF Stamps
  <1>4. Trail' \subseteq Trail
    BY DEF Trail, SentAs
  <1>5. Identified'
    BY <1>same, <1>4 DEF IInv, Identified
  <1>6. Sent'
    <2>1. \A i, d : SentAs(i, d)' = SentAs(i, d)
      BY <1>same DEF SentAs, Effective
    <2>2. \A i, d : SentAs(i, d).id = i /\ SentAs(i, d).declared = d
      BY DEF SentAs
    <2>3. \A w \in wire' : w = SentAs(w.id, w.declared)
      BY <2>2 DEF IInv, Sent
    <2> QED
      BY <2>1, <2>3 DEF Sent
  <1> QED
    BY <1>1, <1>2, <1>3, <1>5, <1>6 DEF IInv

\* TakeBatch only moves copies.
LEMMA TakeBatchKeeps == IInv /\ TakeBatch => IInv'
  <1> SUFFICES ASSUME IInv, TakeBatch PROVE IInv'
    OBVIOUS
  <1>1. /\ batch = <<>> /\ batch' = Taken(queue, BatchSize) /\ queue' = Dequeue(queue, BatchSize)
        /\ UNCHANGED <<clientEnvironment, envelopes, contents, tracks>> /\ wire' = wire
    BY DEF TakeBatch
  <1>2. queue \in Seq(Copies) /\ Len(queue) <= Capacity
    BY DEF IInv, Typed
  <1>3. /\ batch' \in Seq(Copies) /\ queue' \in Seq(Copies)
        /\ Len(queue') <= Len(queue)
        /\ Range(batch') \union Range(queue') = Range(queue)
    BY <1>1, <1>2, DequeueSplits, QueueAssumption DEF Parts
  <1>4. Waiting' \subseteq Waiting
    BY <1>3 DEF Waiting
  <1>5. Len(queue') <= Capacity
    BY <1>2, <1>3, LenProperties, QueueAssumption
  <1> QED
    BY <1>1, <1>3, <1>4, <1>5, FewerWait

\* What goes on the wire for a copy.
LEMMA SerialisedAs ==
    ASSUME IInv, NEW r \in Waiting
    PROVE  Serialised(r) = SentAs(r.id, r.environment)
  <1>1. StampOf(r) /\ r \in Copies
    BY WaitingTyped DEF IInv, Stamps
  <1>2. CASE r.labels = NoLabels
    BY <1>1, <1>2 DEF Serialised, OnWire, SentAs, StampOf, Empty
  <1>3. CASE r.labels # NoLabels
    BY <1>1, <1>3 DEF Serialised, OnWire, SentAs, StampOf
  <1> QED
    BY <1>2, <1>3

\* An attempt sends what the copies stand for, and moves or drops them.
LEMMA AttemptKeeps == IInv /\ Attempt => IInv'
  <1> SUFFICES ASSUME IInv, Attempt PROVE IInv'
    OBVIOUS
  <1>1. /\ UNCHANGED <<clientEnvironment, envelopes, contents, tracks>>
        /\ wire' = wire \union {Serialised(r) : r \in Range(batch)}
    BY DEF Attempt
  <1>2. wire' \subseteq wire \union {SentAs(r.id, r.environment) : r \in Waiting}
    <2>1. \A r \in Range(batch) : r \in Waiting /\ Serialised(r) = SentAs(r.id, r.environment)
      BY SerialisedAs DEF Waiting
    <2> QED
      BY <1>1, <2>1
  <1>3. queue \in Seq(Copies) /\ batch \in Seq(Copies) /\ Len(queue) <= Capacity
    BY DEF IInv, Typed
  <1>4. /\ queue' \in Seq(Copies) /\ batch' \in Seq(Copies) /\ Len(queue') <= Capacity
        /\ Waiting' \subseteq Waiting
    <2>1. CASE batch' = <<>> /\ UNCHANGED queue
      BY <2>1, <1>3, EmptySeq, EmptyRange DEF Waiting
    <2>2. CASE UNCHANGED <<batch, queue>>
      BY <2>2, <1>3 DEF Waiting
    <2>3. CASE batch' = <<>> /\ queue' = Requeue(queue, batch, Capacity)
      <3>1. /\ Requeue(queue, batch, Capacity) \in Seq(Copies)
            /\ Len(Requeue(queue, batch, Capacity)) <= Capacity
            /\ Range(Requeue(queue, batch, Capacity)) \subseteq Range(batch) \union Range(queue)
        BY <1>3, QueueAssumption, RequeueSplits
      <3> QED
        BY <2>3, <3>1, EmptySeq, EmptyRange DEF Waiting
    <2> QED
      BY <2>1, <2>2, <2>3 DEF Attempt
  <1> QED
    BY <1>1, <1>2, <1>4, FewerWait

-----------------------------------------------------------------------------
(* The application writes into a struct.                                   *)

\* The application writes into no map that a waiting copy has.
LEMMA PrepareKeeps ==
    ASSUME IInv, SharedMaps = FALSE, NEW e \in Envelopes, Prepare(e)
    PROVE  IInv'
  <1>1. /\ envelopes[e].state # "ready"
        /\ clientEnvironment' = clientEnvironment /\ queue' = queue /\ batch' = batch
        /\ tracks' = tracks /\ wire' = wire
    BY DEF Prepare
  <1>2. PICK id \in {NoId} \union (IF envelopes[e].state = "refused" THEN {envelopes[e].id} ELSE {}),
             environment \in Declared, complete \in BOOLEAN,
             labels \in {NoLabels} \union Fresh \union Keepable(e) :
          /\ envelopes' = [envelopes EXCEPT ![e] =
                 [id |-> id, environment |-> environment, labels |-> labels,
                  complete |-> complete, state |-> "ready"]]
          /\ IF labels \in Fresh
             THEN \E content \in Unstamped : contents' = [contents EXCEPT ![labels] = content]
             ELSE UNCHANGED contents
    BY DEF Prepare
  <1>types. /\ envelopes \in [Envelopes -> Structs] /\ contents \in [LabelMaps -> Labels]
            /\ \A f \in Envelopes : Held(f) \in LabelMaps \union {NoLabels}
            /\ NoLabels \notin LabelMaps
    BY NoLabelsAssumption DEF IInv, Typed, Structs, Held
  <1>3. /\ labels \in LabelMaps \union {NoLabels}
        /\ id \in Nat /\ (id # NoId => envelopes[e].state = "refused" /\ id = envelopes[e].id)
        /\ environment \in Environments
    <2>1. Keepable(e) \subseteq {Held(e)}
      BY DEF Keepable
    <2>2. envelopes[e].id \in Nat
      BY <1>types DEF Structs
    <2> QED
      BY <1>2, <1>types, <2>1, <2>2, EnvironmentsAssumption DEF Fresh, NoId
  <1>4. /\ envelopes'[e] = [id |-> id, environment |-> environment, labels |-> labels,
                            complete |-> complete, state |-> "ready"]
        /\ \A f \in Envelopes \ {e} : envelopes'[f] = envelopes[f]
        /\ Held(e)' = labels /\ \A f \in Envelopes \ {e} : Held(f)' = Held(f)
    BY <1>2, <1>types DEF Held
  \* The map is new, or the struct's own and not queued.
  <1>fresh. labels \in Fresh =>
          /\ labels \in LabelMaps
          /\ \A f \in Envelopes : Held(f) # labels
          /\ \A r \in Waiting : r.labels # labels
    BY WaitingIsRange DEF Fresh, InUse, IInv
  <1>kept. labels \notin Fresh /\ labels # NoLabels =>
          labels = Held(e) /\ envelopes[e].state = "refused"
    <2>1. ASSUME labels \notin Fresh, labels # NoLabels
          PROVE  labels = Held(e) /\ envelopes[e].state # "queued"
      BY <1>2, <1>3, <2>1 DEF Keepable
    <2>2. labels # NoLabels /\ labels = Held(e) => envelopes[e].state # "blank"
      BY DEF IInv, Owned
    <2>3. envelopes[e].state \in States
      BY <1>types DEF Structs
    <2> QED
      BY <1>1, <2>1, <2>2, <2>3 DEF States
  <1>6. /\ contents' \in [LabelMaps -> Labels]
        /\ \A m \in LabelMaps : m # labels => contents'[m] = contents[m]
        /\ labels \in LabelMaps => contents'[labels].stamp = Unset
    <2>1. CASE labels \in Fresh
      <3>1. PICK content \in Unstamped : contents' = [contents EXCEPT ![labels] = content]
        BY <1>2, <2>1
      <3>2. content \in Labels /\ content.stamp = Unset
        BY DEF Unstamped, Labels, Environments
      <3> QED
        BY <1>types, <1>fresh, <2>1, <3>1, <3>2
    <2>2. CASE labels \notin Fresh
      <3>1. contents' = contents
        BY <1>2, <2>2
      <3>2. labels \in LabelMaps => contents[labels].stamp = Unset
        <4> SUFFICES ASSUME labels \in LabelMaps PROVE contents[labels].stamp = Unset
          OBVIOUS
        <4>1. labels = Held(e) /\ envelopes[e].state = "refused" /\ Held(e) # NoLabels
          BY <1>kept, <1>types, <2>2
        <4> QED
          BY <4>1 DEF IInv, Stamps, RefusedCorrectable
      <3> QED
        BY <1>types, <3>1, <3>2
    <2> QED
      BY <2>1, <2>2
  <1>7. Waiting' = Waiting /\ Trail' = Trail
    BY <1>1 DEF Waiting, Trail
  <1>8. Typed'
    <2>1. envelopes'[e] \in Structs
      BY <1>3, <1>4 DEF Structs, States
    <2>2. envelopes' \in [Envelopes -> Structs]
      BY <1>2, <1>types, <2>1, <1>4
    <2>3. \A f \in Envelopes : envelopes'[f].environment \in Declared \union {Unset}
      <3>1. \A f \in Envelopes : envelopes[f].environment \in Declared \union {Unset}
        BY DEF IInv, Typed
      <3>2. envelopes'[e].environment \in Declared
        BY <1>2, <1>4
      <3> QED
        BY <1>4, <3>1, <3>2
    <2> QED
      BY <1>1, <1>6, <2>2, <2>3 DEF IInv, Typed
  <1>9. Owned'
    <2>1. \A f \in Envelopes \ {e} : labels # NoLabels => Held(f) # labels
      BY <1>fresh, <1>kept DEF IInv, Owned
    <2>2. \A r \in Waiting : labels # NoLabels => r.labels # labels
      BY <1>fresh, <1>kept DEF IInv, Owned
    <2>3. \A f, g \in Envelopes : Held(f)' = Held(g)' /\ Held(f)' # NoLabels => f = g
      BY <1>4, <2>1 DEF IInv, Owned
    <2>4. \A f \in Envelopes : envelopes'[f].state = "blank" => Held(f)' = NoLabels
      BY <1>4 DEF IInv, Owned
    <2>5. \A f \in Envelopes, r \in Waiting : Held(f)' = r.labels /\ r.labels # NoLabels =>
            /\ envelopes'[f].state = "queued"
            /\ envelopes'[f].id = r.id /\ envelopes'[f].environment = r.environment
      BY <1>4, <2>2 DEF IInv, Owned
    <2> QED
      BY <1>7, <2>3, <2>4, <2>5 DEF IInv, Owned
  <1>10. Stamps'
    <2>1. \A r \in Waiting : StampOf(r)'
      <3> SUFFICES ASSUME NEW r \in Waiting PROVE StampOf(r)'
        OBVIOUS
      <3>1. StampOf(r) /\ r.labels \in LabelMaps \union {NoLabels}
        BY WaitingTyped DEF IInv, Stamps, Copies
      <3>2. r.labels # NoLabels => r.labels # labels
        BY <1>fresh, <1>kept DEF IInv, Owned
      <3> QED
        BY <1>1, <1>6, <3>1, <3>2 DEF StampOf, Effective
    <2>2. \A f \in Envelopes \ {e} : Held(f) # NoLabels => Held(f) # labels
      BY <1>fresh, <1>kept DEF IInv, Owned
    <2>3. RefusedCorrectable'
      <3> SUFFICES ASSUME NEW f \in Envelopes, envelopes'[f].state \in {"ready", "refused"},
                          Held(f)' # NoLabels
                   PROVE  contents'[Held(f)'].stamp = Unset
        BY DEF RefusedCorrectable
      <3>1. CASE f = e
        BY <1>3, <1>4, <1>6, <3>1
      <3>2. CASE f # e
        <4>1. envelopes'[f] = envelopes[f] /\ Held(f)' = Held(f)
          BY <1>4, <3>2
        <4>2. Held(f) \in LabelMaps /\ Held(f) # labels
          BY <1>types, <2>2, <3>2, <4>1
        <4>3. contents[Held(f)].stamp = Unset
          BY <4>1 DEF IInv, Stamps, RefusedCorrectable
        <4> QED
          BY <1>6, <4>1, <4>2, <4>3
      <3> QED
        BY <3>1, <3>2
    <2> QED
      BY <1>7, <2>1, <2>3 DEF Stamps
  <1>11. Identified'
    <2>1. id # NoId => id = envelopes[e].id /\ envelopes[e].state # "queued"
      BY <1>3
    <2>2. id \in 0 .. tracks
      <3>1. tracks \in Nat
        BY DEF IInv, Typed
      <3> QED
        BY <2>1, <3>1 DEF IInv, Identified, NoId
    <2>3. \A a \in Trail : id # a.id
      <3> SUFFICES ASSUME NEW a \in Trail, id = a.id PROVE FALSE
        OBVIOUS
      <3>1. a.id # NoId
        BY DEF IInv, Identified, NoId
      <3> QED
        BY <2>1, <3>1 DEF IInv, Identified
    <2>4. \A f \in Envelopes : envelopes'[f].id \in 0 .. tracks
      BY <1>4, <2>2 DEF IInv, Identified
    <2>5. \A f \in Envelopes : envelopes'[f].state = "queued" => envelopes'[f].id # NoId
      BY <1>4 DEF IInv, Identified
    <2>6. \A f, g \in Envelopes :
            envelopes'[f].id = envelopes'[g].id /\ envelopes'[f].id # NoId => f = g
      BY <1>4, <2>1 DEF IInv, Identified
    <2>7. \A f \in Envelopes, a \in Trail : envelopes'[f].id = a.id =>
            envelopes'[f].state = "queued" /\ envelopes'[f].environment = a.environment
      BY <1>4, <2>3 DEF IInv, Identified
    <2> QED
      BY <1>1, <1>7, <2>4, <2>5, <2>6, <2>7 DEF IInv, Identified
  <1>12. Sent'
    BY <1>1 DEF IInv, Sent, SentAs, Effective
  <1> QED
    BY <1>8, <1>9, <1>10, <1>11, <1>12 DEF IInv
(* Track.                                                                  *)

\* The identity that Track gives is a new one, or the one under which the struct
\* is known.
LEMMA FilledIds ==
    ASSUME IInv, NEW e \in Envelopes
    PROVE  LET id == Filled(envelopes[e].id) IN
           /\ id \in 1 .. tracks + 1
           /\ \A f \in Envelopes : envelopes[f].id = id => f = e /\ envelopes[e].id = id
           /\ \A a \in Trail : a.id = id =>
                 /\ envelopes[e].id = id /\ envelopes[e].state = "queued"
                 /\ a.environment = envelopes[e].environment
  <1> DEFINE id == Filled(envelopes[e].id)
  <1>1. tracks \in Nat /\ envelopes[e].id \in 0 .. tracks
    BY DEF IInv, Typed, Identified
  <1>2. CASE envelopes[e].id = NoId
    <2>1. id = tracks + 1
      BY <1>2 DEF Filled
    <2>2. \A f \in Envelopes : envelopes[f].id # id
      BY <1>1, <2>1 DEF IInv, Identified
    <2>3. \A a \in Trail : a.id # id
      BY <1>1, <2>1 DEF IInv, Identified
    <2> QED
      BY <1>1, <2>1, <2>2, <2>3
  <1>3. CASE envelopes[e].id # NoId
    <2>1. id = envelopes[e].id
      BY <1>3 DEF Filled
    <2>2. id \in 1 .. tracks + 1
      BY <1>1, <1>3, <2>1 DEF NoId
    <2>3. \A f \in Envelopes : envelopes[f].id = id => f = e
      BY <1>3, <2>1 DEF IInv, Identified
    <2>4. \A a \in Trail : a.id = id =>
             envelopes[e].state = "queued" /\ a.environment = envelopes[e].environment
      BY <2>1 DEF IInv, Identified
    <2> QED
      BY <2>1, <2>2, <2>3, <2>4
  <1> QED
    BY <1>2, <1>3

\* The bounds of identities grow with the number of calls.
LEMMA TrailGrows ==
    ASSUME IInv, tracks' = tracks + 1,
           NEW i \in 1 .. tracks + 1, NEW environment \in Valid,
           Trail' \subseteq Trail \union {[id |-> i, environment |-> environment]},
           \A a \in Trail : a.id = i => a.environment = environment
    PROVE  /\ Trail' \subseteq [id : 1 .. tracks', environment : Valid]
           /\ \A a, b \in Trail' : a.id = b.id => a = b
  <1>1. Trail \subseteq [id : 1 .. tracks, environment : Valid] /\ tracks \in Nat
    BY DEF IInv, Identified, Typed
  <1>2. [id : 1 .. tracks, environment : Valid] \subseteq [id : 1 .. tracks', environment : Valid]
    BY <1>1
  <1>3. [id |-> i, environment |-> environment] \in [id : 1 .. tracks', environment : Valid]
    OBVIOUS
  <1>4. \A a \in Trail : a.id = i => a = [id |-> i, environment |-> environment]
    BY <1>1
  <1>5. \A a, b \in Trail : a.id = b.id => a = b
    BY DEF IInv, Identified
  <1> QED
    BY <1>1, <1>2, <1>3, <1>4, <1>5

\* A refused event leaves no stamp behind.
LEMMA RejectKeeps ==
    ASSUME IInv, NEW e \in Envelopes, Reject(e), tracks' = tracks + 1,
           UNCHANGED <<clientEnvironment, batch, wire>>
    PROVE  IInv'
  <1> DEFINE id == Filled(envelopes[e].id)
             state == IF envelopes[e].state = "queued" THEN "queued" ELSE "refused"
  <1>1. /\ envelopes' = [envelopes EXCEPT ![e] = Refused(e)]
        /\ contents' = contents /\ queue' = queue /\ batch' = batch /\ wire' = wire
        /\ clientEnvironment' = clientEnvironment
    BY DEF Reject
  <1>2. /\ envelopes \in [Envelopes -> Structs] /\ tracks \in Nat
        /\ \A f \in Envelopes : envelopes[f].environment \in Declared \union {Unset}
    BY DEF IInv, Typed
  <1>3. /\ id \in 1 .. tracks + 1
        /\ \A f \in Envelopes : envelopes[f].id = id => f = e /\ envelopes[e].id = id
        /\ \A a \in Trail : a.id = id =>
              /\ envelopes[e].id = id /\ envelopes[e].state = "queued"
              /\ a.environment = envelopes[e].environment
    BY FilledIds
  <1>4. envelopes[e].state = "queued" => id = envelopes[e].id
    BY DEF IInv, Identified, Filled
  <1>5. state \in {"queued", "refused"} /\ (state = "queued" <=> envelopes[e].state = "queued")
    OBVIOUS
  <1>6. Refused(e) = [envelopes[e] EXCEPT !.id = id, !.state = state]
    BY DEF Refused
  <1> HIDE DEF id, state
  <1>7. /\ Refused(e) \in Structs /\ Refused(e).id = id /\ Refused(e).state = state
        /\ Refused(e).labels = envelopes[e].labels
        /\ Refused(e).environment = envelopes[e].environment
    <2>1. envelopes[e] \in Structs /\ id \in Nat /\ state \in States
      BY <1>2, <1>3, <1>5 DEF States
    <2> QED
      BY <1>6, <2>1 DEF Structs
  <1>8. /\ envelopes' \in [Envelopes -> Structs] /\ envelopes'[e] = Refused(e)
        /\ \A f \in Envelopes \ {e} : envelopes'[f] = envelopes[f]
    BY <1>1, <1>2, <1>7
  <1>9. \A f \in Envelopes : Held(f)' = Held(f) /\ envelopes'[f].environment = envelopes[f].environment
    <2> SUFFICES ASSUME NEW f \in Envelopes
                 PROVE  Held(f)' = Held(f) /\ envelopes'[f].environment = envelopes[f].environment
      OBVIOUS
    <2>1. CASE f = e
      BY <1>7, <1>8, <2>1 DEF Held
    <2>2. CASE f # e
      BY <1>8, <2>2 DEF Held
    <2> QED
      BY <2>1, <2>2
  <1>10. envelopes'[e].id = id /\ envelopes'[e].state = state
    BY <1>7, <1>8
  <1>11. Waiting' = Waiting /\ Trail' = Trail
    BY <1>1 DEF Waiting, Trail
  <1>12. Typed'
    <2>1. \A f \in Envelopes : envelopes'[f].environment \in Declared \union {Unset}
      BY <1>2, <1>9
    <2> QED
      BY <1>1, <1>2, <1>8, <2>1 DEF IInv, Typed
  <1>13. Owned'
    <2>1. \A f, g \in Envelopes : Held(f)' = Held(g)' /\ Held(f)' # NoLabels => f = g
      <3> SUFFICES ASSUME NEW f \in Envelopes, NEW g \in Envelopes,
                          Held(f) = Held(g), Held(f) # NoLabels
                   PROVE  f = g
        BY <1>9
      <3> QED
        BY DEF IInv, Owned
    <2>2. \A f \in Envelopes : envelopes'[f].state = "blank" => Held(f)' = NoLabels
      <3> SUFFICES ASSUME NEW f \in Envelopes, envelopes'[f].state = "blank"
                   PROVE  Held(f) = NoLabels
        BY <1>9
      <3>1. f # e
        BY <1>5, <1>10
      <3> QED
        BY <1>8, <3>1 DEF IInv, Owned
    <2>3. \A f \in Envelopes, r \in Waiting : Held(f)' = r.labels /\ r.labels # NoLabels =>
            /\ envelopes'[f].state = "queued"
            /\ envelopes'[f].id = r.id /\ envelopes'[f].environment = r.environment
      <3> SUFFICES ASSUME NEW f \in Envelopes, NEW r \in Waiting,
                          Held(f) = r.labels, r.labels # NoLabels
                   PROVE  /\ envelopes'[f].state = "queued"
                          /\ envelopes'[f].id = r.id /\ envelopes'[f].environment = r.environment
        BY <1>9
      <3>1. /\ envelopes[f].state = "queued"
            /\ envelopes[f].id = r.id /\ envelopes[f].environment = r.environment
        BY DEF IInv, Owned
      <3>2. CASE f = e
        BY <1>4, <1>5, <1>9, <1>10, <3>1, <3>2
      <3>3. CASE f # e
        BY <1>8, <3>1, <3>3
      <3> QED
        BY <3>2, <3>3
    <2> QED
      BY <1>11, <2>1, <2>2, <2>3 DEF IInv, Owned
  <1>14. Stamps'
    <2>1. \A r \in Waiting : StampOf(r)'
      BY <1>1 DEF IInv, Stamps, StampOf, Effective
    <2>2. RefusedCorrectable'
      \* It was ready or refused before, or it stays queued: nothing but a blank
      \* struct is left, which has no map.
      <3> SUFFICES ASSUME NEW f \in Envelopes, envelopes'[f].state \in {"ready", "refused"},
                          Held(f) # NoLabels
                   PROVE  contents[Held(f)].stamp = Unset
        BY <1>1, <1>9 DEF RefusedCorrectable
      <3>1. envelopes[f].state # "queued"
        <4>1. CASE f = e
          BY <1>5, <1>10, <4>1
        <4>2. CASE f # e
          BY <1>8, <4>2
        <4> QED
          BY <4>1, <4>2
      <3>2. envelopes[f].state # "blank"
        BY DEF IInv, Owned
      <3>3. envelopes[f].state \in States
        BY <1>2 DEF Structs
      <3>4. envelopes[f].state \in {"ready", "refused"}
        BY <3>1, <3>2, <3>3 DEF States
      <3> QED
        BY <3>4 DEF IInv, Stamps, RefusedCorrectable
    <2> QED
      BY <1>11, <2>1, <2>2 DEF Stamps
  <1>15. Identified'
    <2>1. /\ \A f \in Envelopes : envelopes[f].id \in 0 .. tracks
          /\ \A f \in Envelopes : envelopes[f].state = "queued" => envelopes[f].id # NoId
          /\ \A f, g \in Envelopes : envelopes[f].id = envelopes[g].id /\ envelopes[f].id # NoId => f = g
          /\ \A f \in Envelopes, a \in Trail : envelopes[f].id = a.id =>
                envelopes[f].state = "queued" /\ envelopes[f].environment = a.environment
          /\ Trail \subseteq [id : 1 .. tracks, environment : Valid]
          /\ \A a, b \in Trail : a.id = b.id => a = b
      BY DEF IInv, Identified
    <2>2. \A f \in Envelopes :
            envelopes'[f].id \in 0 .. tracks' /\ (envelopes'[f].state = "queued" => envelopes'[f].id # NoId)
      <3> SUFFICES ASSUME NEW f \in Envelopes
                   PROVE  /\ envelopes'[f].id \in 0 .. tracks'
                          /\ envelopes'[f].state = "queued" => envelopes'[f].id # NoId
        OBVIOUS
      <3>1. CASE f = e
        BY <1>2, <1>3, <1>10, <3>1 DEF NoId
      <3>2. CASE f # e
        BY <1>2, <1>8, <2>1, <3>2
      <3> QED
        BY <3>1, <3>2
    <2>3. \A f, g \in Envelopes :
            envelopes'[f].id = envelopes'[g].id /\ envelopes'[f].id # NoId => f = g
      <3> SUFFICES ASSUME NEW f \in Envelopes, NEW g \in Envelopes, f # g,
                          envelopes'[f].id = envelopes'[g].id, envelopes'[f].id # NoId
                   PROVE  FALSE
        OBVIOUS
      <3>1. CASE f = e
        BY <1>3, <1>8, <1>10, <3>1
      <3>2. CASE g = e
        BY <1>3, <1>8, <1>10, <3>2
      <3>3. CASE f # e /\ g # e
        BY <1>8, <2>1, <3>3
      <3> QED
        BY <3>1, <3>2, <3>3
    <2>4. \A f \in Envelopes, a \in Trail : envelopes'[f].id = a.id =>
            envelopes'[f].state = "queued" /\ envelopes'[f].environment = a.environment
      <3> SUFFICES ASSUME NEW f \in Envelopes, NEW a \in Trail, envelopes'[f].id = a.id
                   PROVE  envelopes'[f].state = "queued" /\ envelopes'[f].environment = a.environment
        OBVIOUS
      <3>1. CASE f = e
        BY <1>3, <1>5, <1>9, <1>10, <3>1
      <3>2. CASE f # e
        BY <1>8, <2>1, <3>2
      <3> QED
        BY <3>1, <3>2
    <2>5. Trail \subseteq [id : 1 .. tracks', environment : Valid]
      <3>1. [id : 1 .. tracks, environment : Valid] \subseteq [id : 1 .. tracks', environment : Valid]
        BY <1>2
      <3> QED
        BY <2>1, <3>1
    <2> QED
      BY <1>11, <2>1, <2>2, <2>3, <2>4, <2>5 DEF Identified
  <1>16. Sent'
    BY <1>1 DEF IInv, Sent, SentAs, Effective
  <1> QED
    BY <1>12, <1>13, <1>14, <1>15, <1>16 DEF IInv

\* The copy that is queued bears the stamp it asks for.
LEMMA AdmitKeeps ==
    ASSUME IInv, NEW e \in Envelopes, NEW content, NEW made, NEW labels \in made,
           content = (IF Held(e) = NoLabels THEN Empty ELSE contents[Held(e)]),
           made = (IF Held(e) = NoLabels /\ Effective(envelopes[e].environment) # Unset
                   THEN Fresh ELSE {Held(e)}),
           Accepted(e, content), Admit(e, labels), tracks' = tracks + 1,
           UNCHANGED <<clientEnvironment, batch, wire>>
    PROVE  IInv'
  <1> DEFINE id == Filled(envelopes[e].id)
             environment == envelopes[e].environment
             copy == [id |-> id, environment |-> environment, labels |-> labels, struct |-> e]
             stamped == [own |-> "legal", stamp |-> Effective(environment)]
  <1>types. /\ envelopes \in [Envelopes -> Structs] /\ tracks \in Nat
            /\ \A f \in Envelopes : envelopes[f].environment \in Declared \union {Unset}
            /\ \A f \in Envelopes : Held(f) \in LabelMaps \union {NoLabels}
            /\ contents \in [LabelMaps -> Labels] /\ NoLabels \notin LabelMaps
            /\ clientEnvironment \in Environments
            /\ queue \in Seq(Copies) /\ Len(queue) <= Capacity
    BY NoLabelsAssumption, EnvironmentsAssumption DEF IInv, Typed, Structs, Held
  <1>1. /\ clientEnvironment' = clientEnvironment /\ batch' = batch /\ wire' = wire
        /\ envelopes' = [envelopes EXCEPT ![e] =
              [envelopes[e] EXCEPT !.id = id, !.labels = labels, !.state = "queued"]]
    BY <1>types DEF Admit, Structs
  <1>2. /\ id \in 1 .. tracks + 1
        /\ \A f \in Envelopes : envelopes[f].id = id => f = e /\ envelopes[e].id = id
        /\ \A a \in Trail : a.id = id =>
              /\ envelopes[e].id = id /\ envelopes[e].state = "queued"
              /\ a.environment = environment
    BY FilledIds
  <1>3. environment \in Valid /\ Effective(environment) \in Environments
    BY <1>types, EnvironmentsAssumption DEF Accepted, Valid, Environments, Effective
  \* The map is new or the struct's own; nobody else has it.
  <1>4. /\ labels \in LabelMaps \union {NoLabels}
        /\ labels = NoLabels => Effective(environment) = Unset
        /\ labels # NoLabels => \A f \in Envelopes \ {e} : Held(f) # labels
        /\ labels # NoLabels => \A r \in Waiting : r.labels = labels =>
              id = r.id /\ environment = r.environment
    <2>1. CASE Held(e) = NoLabels /\ Effective(environment) # Unset
      <3>1. labels \in Fresh
        BY <2>1
      <3>2. /\ labels \in LabelMaps
            /\ \A f \in Envelopes : Held(f) # labels
            /\ \A r \in Waiting : r.labels # labels
        BY <3>1, WaitingIsRange DEF Fresh, InUse, IInv
      <3> QED
        BY <3>2, <1>types
    <2>2. CASE ~(Held(e) = NoLabels /\ Effective(environment) # Unset)
      <3>1. labels = Held(e)
        BY <2>2
      <3>2. \A r \in Waiting : r.labels = labels /\ labels # NoLabels =>
              envelopes[e].id = r.id /\ environment = r.environment
        BY <3>1 DEF IInv, Owned
      <3>3. \A r \in Waiting : r.id # NoId
        BY WaitingTyped DEF IInv, Copies, NoId
      <3>4. labels # NoLabels => \A f \in Envelopes \ {e} : Held(f) # labels
        BY <3>1 DEF IInv, Owned
      <3> QED
        BY <2>2, <3>1, <3>2, <3>3, <3>4, <1>types DEF Filled
    <2> QED
      BY <2>1, <2>2
  <1>5. /\ contents' \in [LabelMaps -> Labels]
        /\ \A m \in LabelMaps : m # labels => contents'[m] = contents[m]
        /\ labels # NoLabels => contents'[labels] = stamped
    <2>1. CASE labels = NoLabels
      <3>1. contents' = contents
        BY <2>1 DEF Admit
      <3> QED
        BY <2>1, <3>1, <1>types
    <2>2. CASE labels # NoLabels
      <3> DEFINE before == IF Held(e) = NoLabels THEN Empty ELSE contents[labels]
      <3>1. contents' = [contents EXCEPT ![labels] = Stamped(before, Effective(environment))]
        BY <2>2, <1>types DEF Admit, Structs
      <3>2. before.stamp = Unset /\ before = [own |-> "legal", stamp |-> Unset]
        <4>1. CASE Held(e) = NoLabels
          BY <4>1 DEF Empty
        <4>2. CASE Held(e) # NoLabels
          <5>1. labels = Held(e) /\ before = content
            BY <4>2
          <5>2. content \in Labels
            BY <4>2, <1>types
          <5> QED
            BY <5>1, <5>2 DEF Accepted, Labels
        <4> QED
          BY <4>1, <4>2
      <3> HIDE DEF before
      <3>3. Stamped(before, Effective(environment)) = stamped
        BY <3>2 DEF Stamped
      <3>4. stamped \in Labels
        BY <1>3 DEF Labels
      <3> QED
        BY <2>2, <3>1, <3>3, <3>4, <1>4, <1>types
    <2> QED
      BY <2>1, <2>2
  <1>6. /\ envelopes' \in [Envelopes -> Structs]
        /\ envelopes'[e].id = id /\ envelopes'[e].state = "queued"
        /\ envelopes'[e].environment = environment /\ Held(e)' = labels
        /\ \A f \in Envelopes \ {e} : envelopes'[f] = envelopes[f] /\ Held(f)' = Held(f)
    <2> DEFINE event == [envelopes[e] EXCEPT !.id = id, !.labels = labels, !.state = "queued"]
    <2>1. envelopes[e] \in Structs /\ id \in Nat /\ "queued" \in States
      BY <1>types, <1>2 DEF States
    <2>2. /\ event \in Structs /\ event.id = id /\ event.state = "queued"
          /\ event.labels = labels /\ event.environment = environment
      BY <1>4, <2>1 DEF Structs
    <2>3. envelopes' = [envelopes EXCEPT ![e] = event]
      BY <1>1
    <2> HIDE DEF event
    <2>4. envelopes'[e] = event /\ \A f \in Envelopes \ {e} : envelopes'[f] = envelopes[f]
      BY <1>types, <2>3
    <2>5. envelopes' \in [Envelopes -> Structs]
      BY <1>types, <2>2, <2>3
    <2> QED
      BY <2>2, <2>4, <2>5 DEF Held
  <1>7. copy \in Copies
    BY <1>2, <1>3, <1>4 DEF Copies
  <1>8. queue' = Enqueue(queue, copy, Capacity)
    BY <1>types DEF Admit, Structs
  <1> HIDE DEF copy
  <1>9. /\ queue' \in Seq(Copies) /\ Len(queue') <= Capacity
        /\ Range(queue') \subseteq Range(queue) \union {copy}
    <2>1. /\ Enqueue(queue, copy, Capacity) \in Seq(Copies)
          /\ Len(Enqueue(queue, copy, Capacity)) <= Capacity
          /\ Range(Enqueue(queue, copy, Capacity)) \union Evicted(queue, Capacity)
               = Range(queue) \union {copy}
      BY <1>7, <1>types, QueueAssumption, EnqueueSplits
    <2> QED
      BY <1>8, <2>1
  <1>10. Waiting' \subseteq Waiting \union {copy}
    BY <1>1, <1>9 DEF Waiting
  <1>11. /\ copy.id = id /\ copy.environment = environment /\ copy.labels = labels
    BY DEF copy
  <1>12. Trail' \subseteq Trail \union {[id |-> id, environment |-> environment]}
    BY <1>1, <1>10, <1>11 DEF Trail
  <1> HIDE DEF id, environment, stamped
  <1>13. Typed'
    <2>1. \A f \in Envelopes : envelopes'[f].environment \in Declared \union {Unset}
      BY <1>6, <1>types DEF environment
    <2> QED
      BY <1>1, <1>5, <1>6, <1>9, <2>1 DEF IInv, Typed
  <1>14. Owned'
    <2>1. \A f, g \in Envelopes : Held(f)' = Held(g)' /\ Held(f)' # NoLabels => f = g
      BY <1>4, <1>6 DEF IInv, Owned
    <2>2. \A f \in Envelopes : envelopes'[f].state = "blank" => Held(f)' = NoLabels
      BY <1>6 DEF IInv, Owned
    <2>3. \A f \in Envelopes, r \in Waiting \union {copy} :
            Held(f)' = r.labels /\ r.labels # NoLabels =>
              /\ envelopes'[f].state = "queued"
              /\ envelopes'[f].id = r.id /\ envelopes'[f].environment = r.environment
      <3> SUFFICES ASSUME NEW f \in Envelopes, NEW r \in Waiting \union {copy},
                          Held(f)' = r.labels, r.labels # NoLabels
                   PROVE  /\ envelopes'[f].state = "queued"
                          /\ envelopes'[f].id = r.id /\ envelopes'[f].environment = r.environment
        OBVIOUS
      <3>1. CASE f = e /\ r = copy
        BY <3>1, <1>6, <1>11
      <3>2. CASE f = e /\ r \in Waiting
        BY <3>2, <1>4, <1>6
      <3>3. CASE f # e /\ r = copy
        BY <3>3, <1>4, <1>6, <1>11
      <3>4. CASE f # e /\ r \in Waiting
        BY <3>4, <1>6 DEF IInv, Owned
      <3> QED
        BY <3>1, <3>2, <3>3, <3>4
    <2>4. \A r, s \in Waiting \union {copy} : r.labels = s.labels /\ r.labels # NoLabels => r.id = s.id
      BY <1>4, <1>11 DEF IInv, Owned
    <2> QED
      BY <1>10, <2>1, <2>2, <2>3, <2>4 DEF Owned
  <1>15. Stamps'
    <2>1. ASSUME NEW r, r = copy PROVE StampOf(r)'
      <3>1. CASE labels = NoLabels
        BY <1>1, <1>4, <1>11, <2>1, <3>1 DEF StampOf, Effective
      <3>2. CASE labels # NoLabels
        BY <1>1, <1>5, <1>11, <2>1, <3>2 DEF StampOf, Effective, stamped
      <3> QED
        BY <3>1, <3>2
    <2>2. \A r \in Waiting : StampOf(r)'
      <3> SUFFICES ASSUME NEW r \in Waiting PROVE StampOf(r)'
        OBVIOUS
      <3>1. StampOf(r) /\ r.labels \in LabelMaps \union {NoLabels}
        BY WaitingTyped DEF IInv, Stamps, Copies
      <3>2. CASE r.labels = NoLabels
        BY <1>1, <3>1, <3>2 DEF StampOf, Effective
      <3>3. CASE r.labels # NoLabels /\ r.labels # labels
        BY <1>1, <1>5, <3>1, <3>3 DEF StampOf, Effective
      <3>4. CASE r.labels # NoLabels /\ r.labels = labels
        BY <1>1, <1>4, <1>5, <3>4 DEF StampOf, Effective, stamped
      <3> QED
        BY <3>2, <3>3, <3>4
    <2>3. RefusedCorrectable'
      <3> SUFFICES ASSUME NEW f \in Envelopes, envelopes'[f].state \in {"ready", "refused"},
                          Held(f)' # NoLabels
                   PROVE  contents'[Held(f)'].stamp = Unset
        BY DEF RefusedCorrectable
      <3>1. f # e /\ envelopes'[f] = envelopes[f] /\ Held(f)' = Held(f)
        BY <1>6
      <3>2. Held(f) \in LabelMaps /\ Held(f) # labels
        BY <1>4, <1>types, <3>1
      <3>3. contents[Held(f)].stamp = Unset
        BY <3>1 DEF IInv, Stamps, RefusedCorrectable
      <3> QED
        BY <1>5, <3>1, <3>2, <3>3
    <2>4. ASSUME NEW r \in Waiting' PROVE StampOf(r)'
      BY <1>10, <2>1, <2>2
    <2> QED
      BY <2>3, <2>4 DEF Stamps
  <1>16. Identified'
    <2>1. /\ \A f \in Envelopes : envelopes[f].id \in 0 .. tracks
          /\ \A f \in Envelopes : envelopes[f].state = "queued" => envelopes[f].id # NoId
          /\ \A f, g \in Envelopes : envelopes[f].id = envelopes[g].id /\ envelopes[f].id # NoId => f = g
          /\ \A f \in Envelopes, a \in Trail : envelopes[f].id = a.id =>
                envelopes[f].state = "queued" /\ envelopes[f].environment = a.environment
      BY DEF IInv, Identified
    <2>2. /\ Trail' \subseteq [id : 1 .. tracks', environment : Valid]
          /\ \A a, b \in Trail' : a.id = b.id => a = b
      BY <1>2, <1>3, <1>12, TrailGrows
    <2>3. \A f \in Envelopes : envelopes'[f].id \in 0 .. tracks'
      BY <1>2, <1>6, <1>types, <2>1
    <2>4. \A f \in Envelopes : envelopes'[f].state = "queued" => envelopes'[f].id # NoId
      BY <1>2, <1>6, <2>1 DEF NoId
    <2>5. \A f, g \in Envelopes :
            envelopes'[f].id = envelopes'[g].id /\ envelopes'[f].id # NoId => f = g
      BY <1>2, <1>6, <2>1
    <2>6. \A f \in Envelopes, a \in Trail \union {[id |-> id, environment |-> environment]} :
            envelopes'[f].id = a.id =>
              envelopes'[f].state = "queued" /\ envelopes'[f].environment = a.environment
      <3> SUFFICES ASSUME NEW f \in Envelopes,
                          NEW a \in Trail \union {[id |-> id, environment |-> environment]},
                          envelopes'[f].id = a.id
                   PROVE  envelopes'[f].state = "queued" /\ envelopes'[f].environment = a.environment
        OBVIOUS
      <3>1. CASE a \in Trail /\ f = e
        BY <3>1, <1>2, <1>6
      <3>2. CASE a \in Trail /\ f # e
        BY <3>2, <1>6, <2>1
      <3>3. CASE a = [id |-> id, environment |-> environment]
        BY <3>3, <1>2, <1>6
      <3> QED
        BY <3>1, <3>2, <3>3
    <2> QED
      BY <1>12, <2>2, <2>3, <2>4, <2>5, <2>6 DEF Identified
  <1>17. Sent'
    BY <1>1 DEF IInv, Sent, SentAs, Effective
  <1> QED
    BY <1>13, <1>14, <1>15, <1>16, <1>17 DEF IInv

\* Track either admits or rejects.
LEMMA TrackKeeps == ASSUME IInv, NEW e \in Envelopes, Track(e) PROVE IInv'
  <1> DEFINE content == IF Held(e) = NoLabels THEN Empty ELSE contents[Held(e)]
             made == IF Held(e) = NoLabels /\ Effective(envelopes[e].environment) # Unset
                     THEN Fresh ELSE {Held(e)}
  <1>1. /\ tracks' = tracks + 1 /\ UNCHANGED <<clientEnvironment, batch, wire>>
        /\ IF Accepted(e, content) THEN \E labels \in made : Admit(e, labels) ELSE Reject(e)
    BY DEF Track
  <1>2. CASE Accepted(e, content)
    <2>1. PICK labels \in made : Admit(e, labels)
      BY <1>1, <1>2
    <2>2. \E c, m : c = content /\ m = made /\ Accepted(e, c) /\ labels \in m
      BY <1>2
    <2> QED
      BY <1>1, <2>1, <2>2, AdmitKeeps
  <1>3. CASE ~Accepted(e, content)
    BY <1>1, <1>3, RejectKeeps
  <1> QED
    BY <1>2, <1>3

-----------------------------------------------------------------------------
(* The theorems.                                                           *)

\* At first nothing waits and nothing was sent.
LEMMA InitInv == Init => IInv
  <1> SUFFICES ASSUME Init PROVE IInv
    OBVIOUS
  <1>1. /\ clientEnvironment \in ClientDefaults /\ contents = [m \in LabelMaps |-> Empty]
        /\ queue = <<>> /\ batch = <<>> /\ tracks = 0 /\ wire = {}
        /\ envelopes = [e \in Envelopes |->
              [id |-> NoId, environment |-> Unset, labels |-> NoLabels, complete |-> FALSE,
               state |-> "blank"]]
    BY DEF Init
  <1>2. Waiting = {} /\ Trail = {}
    BY <1>1, EmptyRange DEF Waiting, Trail
  <1>3. Typed
    <2>1. Empty \in Labels
      BY DEF Empty, Labels, Environments
    <2>2. envelopes \in [Envelopes -> Structs]
      BY <1>1 DEF Structs, States, Environments, NoId
    <2>3. <<>> \in Seq(Copies) /\ Len(<<>>) = 0
      BY EmptySeq
    <2>4. \A e \in Envelopes : envelopes[e].environment = Unset
      BY <1>1
    <2>5. contents \in [LabelMaps -> Labels]
      BY <1>1, <2>1
    <2>6. queue \in Seq(Copies) /\ batch \in Seq(Copies) /\ Len(queue) <= Capacity
      BY <1>1, <2>3, QueueAssumption
    <2> QED
      BY <1>1, <2>2, <2>4, <2>5, <2>6 DEF Typed
  <1>4. Owned
    BY <1>1, <1>2 DEF Owned, Held
  <1>5. Stamps
    BY <1>1, <1>2 DEF Stamps, RefusedCorrectable, Held
  <1>6. Identified
    BY <1>1, <1>2 DEF Identified, NoId
  <1>7. Sent
    BY <1>1 DEF Sent
  <1> QED
    BY <1>3, <1>4, <1>5, <1>6, <1>7 DEF IInv

\* The invariant is inductive while no map is shared between events.
LEMMA NextKeeps == SharedMaps = FALSE /\ IInv /\ [Next]_vars => IInv'
  <1> SUFFICES ASSUME SharedMaps = FALSE, IInv, [Next]_vars PROVE IInv'
    OBVIOUS
  <1>1. ASSUME NEW e \in Envelopes, Prepare(e) PROVE IInv'
    BY <1>1, PrepareKeeps
  <1>2. ASSUME NEW e \in Envelopes, Track(e) PROVE IInv'
    BY <1>2, TrackKeeps
  <1>3. CASE TakeBatch
    BY <1>3, TakeBatchKeeps
  <1>4. CASE Attempt
    BY <1>4, AttemptKeeps
  <1>5. CASE UNCHANGED vars
    <2>1. /\ UNCHANGED <<clientEnvironment, envelopes, contents, tracks>>
          /\ queue' = queue /\ batch' = batch /\ wire' = wire
      BY <1>5 DEF vars
    <2>2. Waiting' = Waiting
      BY <2>1 DEF Waiting
    <2>3. queue \in Seq(Copies) /\ batch \in Seq(Copies) /\ Len(queue) <= Capacity
      BY DEF IInv, Typed
    <2> QED
      BY <2>1, <2>2, <2>3, FewerWait
  <1> QED
    BY <1>1, <1>2, <1>3, <1>4, <1>5 DEF Next

\* The inductive invariant, for applications that do not share a map between events.
THEOREM AdmissionInvariant == ASSUME SharedMaps = FALSE PROVE Spec => []IInv
  <1>1. IInv /\ [Next]_vars => IInv'
    BY NextKeeps
  <1> QED
    BY <1>1, InitInv, PTL DEF Spec

\* Types: identities name calls of Track that were made, the queue keeps its bound.
THEOREM AdmissionTypeCorrect == ASSUME SharedMaps = FALSE PROVE Spec => []TypeOK
  <1>1. IInv => TypeOK
    <2> SUFFICES ASSUME IInv PROVE TypeOK
      OBVIOUS
    <2>1. \A r \in Range(queue \o batch) : r.id \in 1 .. tracks
      <3> SUFFICES ASSUME NEW r \in Waiting PROVE r.id \in 1 .. tracks
        BY WaitingIsRange DEF IInv
      <3>1. [id |-> r.id, environment |-> r.environment] \in Trail
        BY DEF Trail
      <3>2. [id |-> r.id, environment |-> r.environment].id \in 1 .. tracks
        BY <3>1 DEF IInv, Identified
      <3> QED
        BY <3>2
    <2> QED
      BY <2>1 DEF IInv, Typed, Identified, TypeOK, Structs, States, Held
  <1> QED
    BY <1>1, AdmissionInvariant, PTL

\* Every event arrives under the environment it declared, or the client's.
THEOREM EnvironmentKept == ASSUME SharedMaps = FALSE PROVE Spec => []EnvironmentIsOwn
  <1>1. IInv => EnvironmentIsOwn
    BY DEF IInv, Sent, SentAs, Effective, EnvironmentIsOwn
  <1> QED
    BY <1>1, AdmissionInvariant, PTL

\* Copies with one label map are one event.
THEOREM IdentityKept == ASSUME SharedMaps = FALSE PROVE Spec => []OneIdentity
  <1>1. IInv => OneIdentity
    BY WaitingIsRange DEF IInv, Owned, OneIdentity
  <1> QED
    BY <1>1, AdmissionInvariant, PTL

\* Two transmissions under one identity are alike.
THEOREM TransmissionsAgree == ASSUME SharedMaps = FALSE PROVE Spec => []RetransmissionsAgree
  <1>1. IInv => RetransmissionsAgree
    <2> SUFFICES ASSUME IInv, NEW v \in wire, NEW w \in wire, v.id = w.id PROVE v = w
      BY DEF RetransmissionsAgree
    <2>1. /\ [id |-> v.id, environment |-> v.declared] \in Trail
          /\ [id |-> w.id, environment |-> w.declared] \in Trail
      BY DEF Trail
    <2>2. v.declared = w.declared
      BY <2>1 DEF IInv, Identified
    <2>3. v = SentAs(v.id, v.declared) /\ w = SentAs(w.id, w.declared)
      BY DEF IInv, Sent
    <2> QED
      BY <2>2, <2>3
  <1> QED
    BY <1>1, AdmissionInvariant, PTL

\* An event that was refused never carries a stamp that would have it refused again.
THEOREM RefusedStaysCorrectable == ASSUME SharedMaps = FALSE PROVE Spec => []RefusedCorrectable
  <1>1. IInv => RefusedCorrectable
    BY DEF IInv, Stamps
  <1> QED
    BY <1>1, AdmissionInvariant, PTL

\* Nothing that validation refuses is sent, but for an environment the client was given.
THEOREM SentIsValid == ASSUME SharedMaps = FALSE PROVE Spec => []OnlyValidSent
  <1>1. IInv => OnlyValidSent
    <2> SUFFICES ASSUME IInv, NEW w \in wire
                 PROVE  /\ w.own = "legal"
                        /\ w.environment \in (Environments \ {"reserved"}) \union {clientEnvironment}
      BY DEF OnlyValidSent
    <2>1. [id |-> w.id, environment |-> w.declared] \in Trail
      BY DEF Trail
    <2>2. w.declared \in Valid
      BY <2>1 DEF IInv, Identified
    <2>3. w = SentAs(w.id, w.declared)
      BY DEF IInv, Sent
    <2>4. w.own = "legal" /\ w.environment = Effective(w.declared)
      BY <2>3 DEF SentAs
    <2> QED
      BY <2>2, <2>4 DEF Effective, Valid
  <1> QED
    BY <1>1, AdmissionInvariant, PTL

-----------------------------------------------------------------------------
(* The promise of module EventSnapshots.                                   *)

\* What waits, as Snapshots sees it: what goes on the wire for a copy depends on
\* its identity and its declared environment alone.
AsSent == {Serialised(r) : r \in Range(queue \o batch)}

WaitingAsSent == AsSent = {SentAs(r.id, r.environment) : r \in Waiting}

\* The stamps of waiting copies are those that their declarations ask for.
LEMMA AsSentIs == IInv => WaitingAsSent
  <1> SUFFICES ASSUME IInv PROVE AsSent = {SentAs(r.id, r.environment) : r \in Waiting}
    BY DEF WaitingAsSent
  <1>1. Waiting = Range(queue \o batch)
    BY WaitingIsRange DEF IInv
  <1>2. \A r \in Waiting : Serialised(r) = SentAs(r.id, r.environment)
    BY SerialisedAs
  <1> QED
    BY <1>1, <1>2 DEF AsSent

\* The same of the state after a step.
LEMMA AsSentNext == IInv' => WaitingAsSent'
  BY AsSentIs, PTL

\* Both modules describe an event alike.
LEMMA SameEvent == \A i, d : Snapshots!Event(i, d) = SentAs(i, d)
  BY DEF Snapshots!Event, SentAs, Effective

\* Where nothing new waits, what waits afterwards waited before, and as it was.
LEMMA NothingNew ==
    ASSUME IInv, IInv', UNCHANGED clientEnvironment, Waiting' \subseteq Waiting
    PROVE  AsSent' \subseteq AsSent /\ (Waiting' = Waiting => AsSent' = AsSent)
  <1>1. /\ AsSent = {SentAs(r.id, r.environment) : r \in Waiting}
        /\ AsSent' = {SentAs(r.id, r.environment)' : r \in Waiting'}
    BY AsSentIs, AsSentNext DEF WaitingAsSent
  <1>2. \A i, d : SentAs(i, d)' = SentAs(i, d)
    BY DEF SentAs, Effective
  <1> QED
    BY <1>1, <1>2

\* A copy that joins the queue is one event as it was tracked.
LEMMA AdmitIsTrack ==
    ASSUME IInv, IInv', NEW e \in Envelopes, NEW content, NEW labels,
           Accepted(e, content), Admit(e, labels), tracks < MaxTracks,
           UNCHANGED <<clientEnvironment, batch, wire>>
    PROVE  \E i \in 1 .. MaxTracks : \E d \in Valid : Snapshots!Track(i, d)
  <1> DEFINE id == Filled(envelopes[e].id)
             environment == envelopes[e].environment
             copy == [id |-> id, environment |-> environment, labels |-> labels, struct |-> e]
  <1>types. /\ envelopes \in [Envelopes -> Structs] /\ tracks \in Nat
            /\ environment \in Declared \union {Unset}
            /\ queue \in Seq(Copies) /\ Len(queue) <= Capacity
    BY DEF IInv, Typed
  <1>1. environment \in Valid
    BY <1>types, EnvironmentsAssumption DEF Accepted, Valid, Environments
  <1>2. /\ id \in 1 .. tracks + 1
        /\ \A a \in Trail : a.id = id => a.environment = environment
    BY FilledIds
  <1>3. id \in 1 .. MaxTracks
    BY <1>2, <1>types, TracksAssumption
  <1>4. queue' = Enqueue(queue, copy, Capacity) /\ batch' = batch /\ wire' = wire
    BY <1>types DEF Admit, Structs
  <1>5. labels \in LabelMaps \union {NoLabels}
    <2>1. Held(e)' = labels
      BY <1>types DEF Admit, Structs, Held
    <2> QED
      BY <2>1 DEF IInv, Typed, Structs, Held
  <1>6. copy \in Copies
    BY <1>1, <1>2, <1>5 DEF Copies
  <1>7. copy.id = id /\ copy.environment = environment
    OBVIOUS
  <1> HIDE DEF copy
  <1>8. Waiting' \subseteq Waiting \union {copy}
    <2>1. Range(queue') \subseteq Range(queue) \union {copy}
      BY <1>4, <1>6, <1>types, QueueAssumption, EnqueueSplits
    <2> QED
      BY <1>4, <2>1 DEF Waiting
  <1> HIDE DEF id, environment
  <1>9. AsSent' \subseteq AsSent \union {SentAs(id, environment)}
    <2>1. /\ AsSent = {SentAs(r.id, r.environment) : r \in Waiting}
          /\ AsSent' = {SentAs(r.id, r.environment)' : r \in Waiting'}
      BY AsSentIs, AsSentNext DEF WaitingAsSent
    <2>2. \A i, d : SentAs(i, d)' = SentAs(i, d)
      BY DEF SentAs, Effective
    <2> QED
      BY <1>7, <1>8, <2>1, <2>2
  <1>10. ASSUME NEW v \in AsSent \union wire, v.id = id PROVE v = SentAs(id, environment)
    <2>1. [id |-> v.id, environment |-> v.declared] \in Trail /\ v = SentAs(v.id, v.declared)
      <3>1. CASE v \in wire
        BY <3>1 DEF Trail, IInv, Sent
      <3>2. CASE v \in AsSent
        <4>1. PICK r \in Waiting : v = SentAs(r.id, r.environment)
          BY <3>2, AsSentIs DEF WaitingAsSent
        <4>2. v.id = r.id /\ v.declared = r.environment
          BY <4>1 DEF SentAs
        <4> QED
          BY <4>1, <4>2 DEF Trail
      <3> QED
        BY <1>10, <3>1, <3>2
    <2>2. v.declared = environment
      BY <1>2, <1>10, <2>1
    <2> QED
      BY <1>10, <2>1, <2>2
  <1>11. Snapshots!Track(id, environment)
    BY <1>4, <1>9, <1>10, SameEvent DEF Snapshots!Track, AsSent
  <1> QED
    BY <1>1, <1>3, <1>11

\* Nothing waits at first.
LEMMA SnapshotsInit == Init => Snapshots!Init
  <1> SUFFICES ASSUME Init PROVE Snapshots!Init
    OBVIOUS
  <1>1. clientEnvironment \in ClientDefaults /\ wire = {} /\ IInv
    BY InitInv DEF Init
  <1>2. Waiting = {}
    BY EmptyRange DEF Init, Waiting
  <1>3. AsSent = {}
    BY <1>1, <1>2, AsSentIs DEF WaitingAsSent
  <1> QED
    BY <1>1, <1>3 DEF Snapshots!Init, AsSent

\* Every step of the code is a step of the promise or leaves it alone.
LEMMA SnapshotsStep ==
    ASSUME SharedMaps = FALSE, IInv, [Next]_vars
    PROVE  [Snapshots!Next]_(Snapshots!vars)
  <1>inv. IInv'
    BY NextKeeps
  <1>same. ASSUME UNCHANGED <<clientEnvironment, queue, batch, wire>>
           PROVE  UNCHANGED Snapshots!vars
    <2>1. Waiting' = Waiting
      BY <1>same DEF Waiting
    <2>2. AsSent' = AsSent
      BY <1>inv, <1>same, <2>1, NothingNew
    <2> QED
      BY <1>same, <2>2 DEF Snapshots!vars, AsSent
  <1>flush. ASSUME UNCHANGED clientEnvironment, Waiting' \subseteq Waiting,
                   wire \subseteq wire', wire' \subseteq wire \union AsSent
            PROVE  Snapshots!Flush
    <2>1. AsSent' \subseteq AsSent
      BY <1>inv, <1>flush, NothingNew
    <2> QED
      BY <1>flush, <2>1 DEF Snapshots!Flush, AsSent
  <1>1. ASSUME NEW e \in Envelopes, Prepare(e) PROVE UNCHANGED Snapshots!vars
    BY <1>1, <1>same DEF Prepare
  <1>2. ASSUME NEW e \in Envelopes, Track(e) PROVE [Snapshots!Next]_(Snapshots!vars)
    <2> DEFINE content == IF Held(e) = NoLabels THEN Empty ELSE contents[Held(e)]
               made == IF Held(e) = NoLabels /\ Effective(envelopes[e].environment) # Unset
                       THEN Fresh ELSE {Held(e)}
    <2>1. /\ tracks < MaxTracks /\ UNCHANGED <<clientEnvironment, batch, wire>>
          /\ IF Accepted(e, content) THEN \E labels \in made : Admit(e, labels) ELSE Reject(e)
      BY <1>2 DEF Track
    <2>2. CASE Accepted(e, content)
      <3>1. PICK labels \in made : Admit(e, labels)
        BY <2>1, <2>2
      <3>2. \E i \in 1 .. MaxTracks : \E d \in Valid : Snapshots!Track(i, d)
        BY <1>inv, <2>1, <2>2, <3>1, AdmitIsTrack
      <3> QED
        BY <3>2 DEF Snapshots!Next, Valid
    <2>3. CASE ~Accepted(e, content)
      <3>1. UNCHANGED queue
        BY <2>1, <2>3 DEF Reject
      <3> QED
        BY <2>1, <3>1, <1>same
    <2> QED
      BY <2>2, <2>3
  <1>3. CASE TakeBatch
    <2>1. queue \in Seq(Copies) /\ batch = <<>> /\ UNCHANGED <<clientEnvironment, wire>>
          /\ batch' = Taken(queue, BatchSize) /\ queue' = Dequeue(queue, BatchSize)
      BY <1>3 DEF TakeBatch, IInv, Typed
    <2>2. Range(batch') \union Range(queue') = Range(queue)
      BY <2>1, DequeueSplits, QueueAssumption DEF Parts
    <2>3. Waiting' \subseteq Waiting
      BY <2>2 DEF Waiting
    <2> QED
      BY <2>1, <2>3, <1>flush DEF Snapshots!Next
  <1>4. CASE Attempt
    <2>1. queue \in Seq(Copies) /\ batch \in Seq(Copies) /\ UNCHANGED clientEnvironment
      BY <1>4 DEF Attempt, IInv, Typed
    <2>2. wire \subseteq wire' /\ wire' \subseteq wire \union AsSent
      <3>1. wire' = wire \union {Serialised(r) : r \in Range(batch)}
        BY <1>4 DEF Attempt
      <3>2. Range(batch) \subseteq Range(queue \o batch)
        BY WaitingIsRange DEF IInv, Waiting
      <3> QED
        BY <3>1, <3>2 DEF AsSent
    <2>3. Waiting' \subseteq Waiting
      <3>1. CASE batch' = <<>> /\ UNCHANGED queue
        BY <3>1, EmptyRange DEF Waiting
      <3>2. CASE UNCHANGED <<batch, queue>>
        BY <3>2 DEF Waiting
      <3>3. CASE batch' = <<>> /\ queue' = Requeue(queue, batch, Capacity)
        <4>1. Range(Requeue(queue, batch, Capacity)) \subseteq Range(batch) \union Range(queue)
          BY <2>1, QueueAssumption, RequeueSplits
        <4> QED
          BY <3>3, <4>1, EmptyRange DEF Waiting
      <3> QED
        BY <1>4, <3>1, <3>2, <3>3 DEF Attempt
    <2> QED
      BY <2>1, <2>2, <2>3, <1>flush DEF Snapshots!Next
  <1>5. CASE UNCHANGED vars
    BY <1>5, <1>same DEF vars
  <1> QED
    BY <1>1, <1>2, <1>3, <1>4, <1>5 DEF Next

\* While no label map serves two events, the code implements EventSnapshots: an
\* event is sent as it was when Track accepted it, or forgotten, never altered.
THEOREM AdmissionImplementsSnapshots ==
    ASSUME SharedMaps = FALSE PROVE Spec => ImplementsSnapshots
  <1>1. IInv /\ [Next]_vars => [Snapshots!Next]_(Snapshots!vars)
    BY SnapshotsStep
  <1> QED
    BY <1>1, SnapshotsInit, AdmissionInvariant, PTL DEF Spec, ImplementsSnapshots, Snapshots!Spec
=============================================================================
