---------------------- MODULE EventAdmissionProperties ----------------------
(* What a tracked event may count on until it is on the wire. *)
EXTENDS EventAdmission

\* Every variable has its type; an event in the queue or in a batch has its
\* identifiers, and the queue stays within its capacity.
TypeOK ==
    /\ clientEnvironment \in ClientDefaults
    /\ \A e \in Envelopes :
          /\ envelopes[e].id \in 0 .. tracks
          /\ envelopes[e].environment \in Declared \union {Unset}
          /\ Held(e) \in LabelMaps \union {NoLabels}
          /\ envelopes[e].state \in {"blank", "ready", "refused", "queued"}
    /\ contents \in [LabelMaps -> Labels]
    /\ \A r \in Range(queue \o batch) : r.id \in 1 .. tracks
    /\ Len(queue) <= Capacity

\* Every event arrives under the environment it declared when it was tracked,
\* or under the client's if it declared none, whatever its struct was used for
\* while the event was queued or its batch was tried again.
\* types.go: "Environment is the environment this event came from";
\* "ClientConfig.Environment supplies the default for events that do not
\* declare one."
EnvironmentIsOwn ==
    \A w \in wire : w.environment = IF w.declared = Unset THEN clientEnvironment ELSE w.declared

\* Tracking an event again, after a refusal or because Track returned the
\* error of a flush, does not make another event of it: copies that share a
\* label map share the eventUuid by which the API counts them once.
OneIdentity ==
    \A r, s \in Range(queue \o batch) : r.labels = s.labels /\ r.labels # NoLabels => r.id = s.id

\* Whatever is sent more than once under one eventUuid is sent with the same
\* content: it does not matter which transmission the API keeps.
RetransmissionsAgree == \A v, w \in wire : v.id = w.id => v = w

\* An event that was refused can be corrected and tracked: no call that refused
\* it has left the reserved label behind, which would have it refused for ever.
RefusedCorrectable ==
    \A e \in Envelopes :
        envelopes[e].state \in {"ready", "refused"} /\ Held(e) # NoLabels =>
            contents[Held(e)].stamp = Unset

\* No event reaches the API with labels or an environment that validation
\* refuses, unless the environment is the client's, which nothing validates.
OnlyValidSent ==
    \A w \in wire : w.own = "legal" /\ w.environment \in (Environments \ {"reserved"}) \union {clientEnvironment}

\* The code implements the promise of module EventSnapshots: an event
\* waits and is sent as Track accepted it, also when its struct was written to,
\* refused or tracked again in the meantime.
Snapshots == INSTANCE EventSnapshots WITH
    Ids <- 1 .. MaxTracks, Declarable <- Environments \ {"reserved"},
    Defaults <- ClientDefaults, default <- clientEnvironment,
    waiting <- {Serialised(r) : r \in Range(queue \o batch)}

ImplementsSnapshots == Snapshots!Spec
=============================================================================
