--------------------------- MODULE EventAdmission ---------------------------
(***************************************************************************)
(* What Track does to an event before it is queued, and what is on the     *)
(* wire when it is sent: identifiers are filled in, the envelope is        *)
(* validated, the environment is stamped into its label map, and a copy of *)
(* the envelope is queued.  The copy shares the label map with the         *)
(* caller's envelope, and a batch is serialised only when it is sent, anew *)
(* for every attempt.                                                      *)
(*                                                                         *)
(* One flush runs at a time here: overlapping flushes, retries and Close   *)
(* are the subject of CustdClient.                                         *)
(***************************************************************************)
EXTENDS EventQueue

CONSTANTS
    Envelopes,       \* the EventEnvelope structs of the application
    LabelMaps,       \* label maps
    NoLabels,        \* a nil map
    ClientDefaults,  \* values ClientConfig.Environment may have
    Declared,        \* values EventEnvelope.Environment may have
    Capacity, BatchSize,
    MaxTracks,       \* bound on calls of Track
    SharedMaps       \* may a label map serve more than one event?

ASSUME NoLabelsAssumption  == NoLabels \notin LabelMaps
ASSUME QueueAssumption     == Capacity \in Nat \ {0} /\ BatchSize \in Nat \ {0}
ASSUME TracksAssumption    == MaxTracks \in Nat
ASSUME SharedMapsAssumption == SharedMaps \in BOOLEAN

VARIABLES
    clientEnvironment,  \* ClientConfig.Environment
    envelopes,          \* the caller's structs
    contents,           \* what is in each label map
    queue, batch,       \* queued copies; those a flush has taken
    tracks,             \* calls of Track so far
    wire                \* every serialised event that was sent

vars == <<clientEnvironment, envelopes, contents, queue, batch, tracks, wire>>

\* An environment that was not given; a reserved label that is not there.
Unset == ""

\* "reserved" stands for every value that validateEnvironmentValue refuses.
Environments == {Unset, "preview", "production", "reserved"}
ASSUME EnvironmentsAssumption == ClientDefaults \subseteq Environments /\ Declared \subseteq Environments

\* own: whether the caller's labels keep the rules for count, keys and values;
\* stamp: the value of the reserved label, if there is one.
Unstamped == [own : {"legal", "illegal"}, stamp : {Unset}]
Labels    == [own : {"legal", "illegal"}, stamp : Environments]
Empty     == [own |-> "legal", stamp |-> Unset]

NoId == 0

Held(e) == envelopes[e].labels

\* A map nobody refers to: a new one.
InUse == {Held(e) : e \in Envelopes} \union {r.labels : r \in Range(queue \o batch)}
Fresh == LabelMaps \ InUse

Init ==
    /\ clientEnvironment \in ClientDefaults
    /\ envelopes = [e \in Envelopes |->
           [id |-> NoId, environment |-> Unset, labels |-> NoLabels, complete |-> FALSE,
            state |-> "blank"]]
    /\ contents = [m \in LabelMaps |-> Empty]
    /\ queue = <<>> /\ batch = <<>> /\ tracks = 0 /\ wire = {}

----------------------------------------------------------------------------
(***************************************************************************)
(* The application.  Between two calls of Track it may write its next      *)
(* event into the struct, or correct the one that was refused, or do       *)
(* nothing and track the struct again.  It takes a new label map, none, or *)
(* keeps the one it has where that belongs to the same event still.        *)
(***************************************************************************)
Keepable(e) ==
    IF SharedMaps THEN LabelMaps
    ELSE {Held(e)} \ (IF envelopes[e].state = "queued" THEN LabelMaps ELSE {})

Prepare(e) ==
    /\ envelopes[e].state # "ready"
    /\ \E id \in {NoId} \union (IF envelopes[e].state = "refused" THEN {envelopes[e].id} ELSE {}),
          environment \in Declared, complete \in BOOLEAN,
          labels \in {NoLabels} \union Fresh \union Keepable(e) :
       /\ envelopes' = [envelopes EXCEPT ![e] =
              [id |-> id, environment |-> environment, labels |-> labels,
               complete |-> complete, state |-> "ready"]]
       /\ IF labels \in Fresh
          THEN \E content \in Unstamped : contents' = [contents EXCEPT ![labels] = content]
          ELSE UNCHANGED contents
    /\ UNCHANGED <<clientEnvironment, queue, batch, tracks, wire>>

----------------------------------------------------------------------------
(***************************************************************************)
(* Track.                                                                  *)
(***************************************************************************)
\* mutant: every call of Track gives the event a new identity
FilledAnew(id) == tracks + 1

\* fillEnvelopeDefaults.  The number stands for the event, session and
\* anonymous identifiers, each of which is kept if the caller gave one.
Filled(id) == IF id = NoId THEN tracks + 1 ELSE id

\* ValidateEvent: required fields, the declared environment, the labels.  A
\* map that was stamped holds a key of the reserved prefix.
Accepted(e, content) ==
    /\ envelopes[e].complete
    /\ envelopes[e].environment # "reserved"
    /\ content.own = "legal" /\ content.stamp = Unset

\* mutant: the client's environment goes before the event's
EffectiveClientFirst(environment) ==
    IF clientEnvironment # Unset THEN clientEnvironment ELSE environment

\* The event's own declaration wins over the client default.
Effective(environment) == IF environment # Unset THEN environment ELSE clientEnvironment

\* applyEnvironmentLabel: what it leaves in the map.
Stamped(content, effective) ==
    IF content.stamp = Unset THEN [content EXCEPT !.stamp = effective] ELSE content

\* The struct after a call that refused it.  One that is queued already stays so.
Refused(e) == [envelopes[e] EXCEPT !.id = Filled(@), !.state = IF @ = "queued" THEN @ ELSE "refused"]

\* mutant: the label is stamped before the event is validated, and stays
RejectStamped(e) ==
    /\ envelopes' = [envelopes EXCEPT ![e] = Refused(e)]
    /\ contents' = IF Held(e) = NoLabels THEN contents
                   ELSE [contents EXCEPT ![Held(e)] =
                           Stamped(@, Effective(envelopes[e].environment))]
    /\ UNCHANGED queue

Reject(e) ==
    /\ envelopes' = [envelopes EXCEPT ![e] = Refused(e)]
    /\ UNCHANGED <<contents, queue>>

\* The event goes to the queue with the map labels; a nil map becomes a new one
\* if there is something to stamp.
Admit(e, labels) ==
    LET event == [envelopes[e] EXCEPT !.id = Filled(@), !.labels = labels, !.state = "queued"] IN
    /\ envelopes' = [envelopes EXCEPT ![e] = event]
    /\ contents' = IF labels = NoLabels THEN contents
                   ELSE [contents EXCEPT ![labels] =
                           Stamped(IF Held(e) = NoLabels THEN Empty ELSE @,
                                   Effective(event.environment))]
    /\ queue' = Enqueue(queue, [id |-> event.id, environment |-> event.environment,
                                labels |-> labels, struct |-> e], Capacity)

Track(e) ==
    /\ envelopes[e].state # "blank" /\ tracks < MaxTracks
    /\ tracks' = tracks + 1
    /\ LET content == IF Held(e) = NoLabels THEN Empty ELSE contents[Held(e)]
           made == IF Held(e) = NoLabels /\ Effective(envelopes[e].environment) # Unset
                   THEN Fresh ELSE {Held(e)}
       IN  IF Accepted(e, content) THEN \E labels \in made : Admit(e, labels) ELSE Reject(e)
    /\ UNCHANGED <<clientEnvironment, batch, wire>>

----------------------------------------------------------------------------
(***************************************************************************)
(* Flush.                                                                  *)
(***************************************************************************)
TakeBatch ==
    /\ batch = <<>> /\ queue # <<>>
    /\ batch' = Taken(queue, BatchSize) /\ queue' = Dequeue(queue, BatchSize)
    /\ UNCHANGED <<clientEnvironment, envelopes, contents, tracks, wire>>

OnWire(id, labels, environment) ==
    LET content == IF labels = NoLabels THEN Empty ELSE contents[labels]
    IN  [id |-> id, own |-> content.own, environment |-> content.stamp,
         declared |-> environment]

\* mutant: the queue holds the caller's struct, not a copy of it
SerialisedInPlace(r) ==
    OnWire(envelopes[r.struct].id, envelopes[r.struct].labels, r.environment)

\* What an event looks like when its batch is marshalled; declared is the
\* environment field of the copy, which is not serialised.
Serialised(r) == OnWire(r.id, r.labels, r.environment)

\* One attempt: the batch is marshalled and sent.  Then it was delivered, it
\* is tried again, or it goes back to the queue.
Attempt ==
    /\ batch # <<>>
    /\ wire' = wire \union {Serialised(r) : r \in Range(batch)}
    /\ \/ batch' = <<>> /\ UNCHANGED queue
       \/ UNCHANGED <<batch, queue>>
       \/ batch' = <<>> /\ queue' = Requeue(queue, batch, Capacity)
    /\ UNCHANGED <<clientEnvironment, envelopes, contents, tracks>>

Next ==
    \/ \E e \in Envelopes : Prepare(e) \/ Track(e)
    \/ TakeBatch \/ Attempt

Spec == Init /\ [][Next]_vars
=============================================================================
