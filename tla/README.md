# Specifications of custd-sdk-go

TLA+ models of the parts of the SDK that keep state, overlap, retry or fail
half-way; TLC runs over small instances of them; TLAPS proofs for every
instance. Line numbers refer to `src/` at the modelled commit. `PROJECT.json`
maps each definition to the lines it stands for and lists runs, mutants,
hazards, findings and theorems.

    tlc -workers 2 -config MCSafety.cfg MCCustdClient.tla
    tlapm CustdClientProofs.tla

## 1. The system

The SDK is one Go package. Almost everything in it is a typed facade: check the
arguments, build a path, send one request, decode one answer, keep nothing. The
facades are modelled together, as kinds of methods over kinds of request; what
is left has state of its own and a model of its own.

| component | state | operations | interacts with |
|---|---|---|---|
| event queue (`queue.go`) | a slice under a mutex, bounded by `MaxQueueSize` | `enqueue`, `dequeue`, `requeue` | the event client |
| event client (`client.go`) | the queue, `mu`, `closeOnce`, `done`, `wg`, the ticker | `Track`, `Flush`, `Close`, the goroutine `runFlusher` | callers, queue, retry loop, ingest API |
| retry loop (`retry.go`) | an attempt counter per call | `withRetry`, `sleepWithContext`, `backoffDelay` | batch transport, context, timer |
| batch transport (`client.go`, `response.go`) | none | `sendBatch`, `checkStatus`, `checkBatchResponse` | ingest API |
| event defaults, validation, labels (`ids.go`, `validate.go`, `environment.go`) | the caller's event, mutated in place | `applyEventDefaults`, `validateEvent`, `stampEnvironment` | `Track` |
| configuration (`config.go`) | none | `applyDefaults`, URL checks | `NewClient` |
| raw ingest (`raw_ingest.go`) | none | one upload, receipt checks | ingest API |
| workflow timings (`workflow_timings.go`) | position in an import | `AppendBatch`, and one-request methods | timing service |
| realm provisioning (`admin_auth_project_realm.go`) | revisions and receipt of one call | `ProvisionRealm` | auth-project service, other administrators |
| producer setup (`setup.go`) | report of one call | tenant, schemas, OAuth client in order | admin API |
| admin request pipeline (`admin.go`, `errors.go`) | optional metadata recorder | path and label rules, status check, decoding, bounded downloads | every facade below |
| reporting, prepared data, analytics, measurement, parsers, timeplan, predictions, offboarding, privacy, auth-project administration and the other facades | none | requests, DTO validation | admin request pipeline |
| commands, examples, dogfood events | none | linear programs | the above |

What is hard here, and what makes each part correct:

- **Event client.** `Flush` holds its mutex only for the dequeue
  (`client.go:92-94`), so sends overlap: of any callers, the flusher and
  `Close`. Failed batches return to the front of a queue that filled up behind
  them. The context can end in the middle. `Close` waits for the flusher and for
  nobody else. Correct means: an event is in exactly one place and in none only
  after the API stored it or the queue overflowed; every call returns; what is
  tracked gets out without further calls.
- **Answers.** A 2xx may be empty, short, partly rejected or garbled. Correct
  means: none of them counts as success unless all of the batch is stored.
- **Import of workflow facts.** Requests commit one by one; a failure leaves a
  prefix committed, and the documented recovery is to replay everything under
  the same keys. Correct means: limits kept, results at the index of their fact,
  nothing reported accepted that is not, replay completes.
- **Realm provisioning.** Each write names the revision the previous one
  produced; answers are lost, requests arrive late, others write. Correct
  means: no foreign write between the steps, truthful receipts and successes, a
  retry that resumes.
- **Admission of events.** `Track` completes the caller's struct in place,
  stamps a label into the caller's map, and queues a copy that shares that map
  until the batch is marshalled, anew for every attempt. Correct means: an event
  keeps its identity and environment whatever its struct is used for, and what
  is sent twice is sent alike.
- **Requests of the facades.** An answer is lost, late, cut off, empty or
  garbled, and the caller runs the method again. Sixteen request routines treat
  these differently. Correct means: a key makes a retry harmless, nil means
  done, an error that says "rejected" is right, a refusal can be quoted, the
  configured company is the one acted on.
- **Producer setup.** Several requests, each of which may fail after earlier ones
  took effect, run again over what exists. Correct means: the client comes last,
  and only a client that this very call created is returned.
- **Pure checks** (field validation, bounds, backoff arithmetic): boundaries
  that unit tests reach; abstracted to "valid or not", see section 8.

The full list of hazards, each at its line and with the properties that cover
it (or why none does), is in `PROJECT.json`.

## 2. Modules

| module | what it is |
|---|---|
| `EventQueue` | the queue's operations on a sequence, and what each discards |
| `BatchResponse` | the answers one POST of a batch can meet, the error the client makes of each, and what the API then has stored |
| `CustdClient` | the event path: callers, flusher, queue, retry loop, API |
| `CustdClientProperties` | its invariants, action and liveness properties; extends `CustdClient` |
| `Outbox` | the promise of the event path without queue, batches or goroutines |
| `EventQueueTheorems` | lemmas about the queue's operators |
| `CustdClientProofs` | theorems about `CustdClient` |
| `EventOrderProofs` | the order in which events leave |
| `OutboxProofs` | `CustdClient` implements `Outbox` |
| `EventAdmission`, `EventAdmissionProperties` | what `Track` does to an event before it is queued, and what is on the wire |
| `EventSnapshots` | the promise of admission without structs, maps or queue: an event is fixed when it is tracked |
| `EventAdmissionProofs` | theorems about `EventAdmission` |
| `AdminTransport` | the request routines, and what each makes of an answer |
| `AdminOperations` | every method that makes one request: its routine, key, decoding, local checks |
| `AdminCall`, `AdminCallProperties` | running any of them, or `SetupProducer`, once or again, against the service |
| `AdminCallProofs` | theorems about `AdminCall` |
| `RealmProvision`, `RealmProvisionProperties` | `ProvisionRealm` against the auth-project service |
| `Provision` | the promise of `ProvisionRealm` without requests, answers, keys or retries: three writes, each once, in order, back to back |
| `RealmProvisionProofs` | theorems about `RealmProvision` |
| `WorkflowBatch`, `WorkflowBatchProperties` | `AppendBatch` against the timing service |
| `ImportLedger` | the promise of `AppendBatch` without bytes, bodies or indexes: facts committed front to back, each told of in its place |
| `WorkflowBatchProofs` | theorems about `WorkflowBatch` |
| `MCCustdClient`, `MCEventAdmission`, `MCAdminCall`, `MCRealmProvision`, `MCWorkflowBatch` | instances for TLC |

Four components so have an abstract specification beside the detailed one:
`Outbox`, `EventSnapshots`, `Provision` and `ImportLedger`. Each is the component as
its user thinks of it, in a dozen lines of actions; the module of the
component's properties instantiates it with a refinement mapping, a run
checks its `Spec` as a property, and a theorem proves the implementation.
(`AdminCall` has none: its promise is per call, and `NilMeansDone`, `KeyedOnce` and
`RejectedOrMisread` state it directly.)

`EventAdmission` and `CustdClient` meet at the queue, whose operators (`EventQueue`)
both use: the first follows the content of events through one flush at a time,
the second follows bare events through any number of overlapping ones.

### CustdClient

| state | code |
|---|---|
| `queue` | `q.events`; an event is its rank in the order in which the queue took it, so "older" is `<` |
| `pc[p]` | where goroutine `p` is: `idle`, `flush` (entering Flush), `sending`, `backoff`, `failed` (about to requeue), `wgWait` and `onceWait` in `Close`; `select` and `exited` for the flusher |
| `batch[p]`, `attempt[p]` | the local `batch` of `Flush`, the counter of `withRetry` |
| `closer`, `closeDone` | who runs the body of `closeOnce` (from then on `done` is closed), and whether it has returned |
| `tick` | the one-element buffer of `ticker.C` |
| `acked`, `dropped`, `overlapped` | history only |
| `stored` | what the ingest API holds, keyed by `eventUuid` |

Actions are cut where another goroutine can get in between: the enqueue of
`Track`, the dequeue of `Flush`, the end of each attempt, each wait. The requeue
and the return that follows it are one action, since the code does both without
releasing anything a second goroutine could observe in between. The mutex `mu` guards nothing
but the dequeue, which is atomic already, so it is not a variable. Each attempt
chooses an answer of `BatchResponse!Answers` and a set of events the API stored
that is compatible with it. `Abandon` is the context that ends in `sleepWithContext`,
and may fire whenever a caller is in a backoff; the flusher uses `context.Background()`.
Left out: the content of events, headers, compression, logs, and events that
validation rejects (they change nothing).

### EventAdmission

| state | code |
|---|---|
| `envelopes[e]` | an `EventEnvelope` of the application: its identifiers (one number for the three), declared `Environment`, label map, whether required fields are there, and `state`: being written, ready, refused by `Track` or queued |
| `contents[m]` | what is in label map `m`: whether the caller's labels are legal, and the reserved label |
| `clientEnvironment` | `ClientConfig.Environment` |
| `queue`, `batch` | copies of envelopes, each with a reference to its label map |
| `wire` | every serialised event that was sent |

`Prepare` is the application writing an event into a struct, with a new map, none,
or the one it holds. `Track` is `client.go:56-86` up to the queue: `Filled`,
`Accepted`, `Effective`, `Stamped`, then the copy; `Reject` keeps the identifiers it
filled in. `Attempt` marshals the batch as it is at that moment and delivers it,
keeps it for another attempt or requeues it. With `SharedMaps = FALSE` a map serves
one event until the struct is used for the next; with `TRUE` the application
may give a map to several events, which nothing in the SDK's documentation
forbids. One flush runs at a time.

### AdminTransport, AdminOperations, AdminCall

A *route* is a request routine as a record of what tells it apart: whether
`actingCompanyPath` rewrites its path, which answers reach the
`MetadataRecorder` and the returned `ResponseMetadata`, how the body is read
(whole, bounded, verified by size and checksum, streamed, or with the read error
ignored), and whether a failure says that the request may have landed.
`Verdict` and `Identified` are the code's order of reading, status check and
decoding; `Results` gives every result of one answer. The sixteen routes stand for
`requestJSON`, `requestRawJSON`, `requestBytes`, `requestJSONWithMetadata`,
`requestAuthorityJSON` and their siblings in `admin.go`, `admin_extended.go`,
`admin_usage.go`, `provisioning.go`, `raw_ingest.go`, `reporting.go`,
`measurement.go`, `parser.go`.

A *kind* is what a method asks of its route: does the service change, is there an
idempotency key and must there be one, what must the answer contain, are there
arguments it refuses before sending. `AdminOperations` lists all methods by
service in the order of the files, one line for each kind; `map` names the method
blocks each line stands for.

| state of `AdminCall` | code |
|---|---|
| `plan` | the requests of one call: one, or those of `SetupProducer` (`setup.go:93-164`), where only the tenant tolerates a conflict and the client's key is minted per call |
| `given` | what the caller fixes for all its calls: transport, company, arguments, key |
| `phase`, `step` | where the running call is |
| `requests` | every request sent, with the call, the step, the company it names, its key and its fate in the service |
| `results` | what each call returned: error class, the status it came from, metadata, what was kept of the body |
| `recorder` | the request identifier in the `MetadataRecorder` of the caller's context |

`Call` is the part before the first request, with the local checks; `Send` one
`Do`; `Reply` and `NoReply` the rest of the routine and the decision whether the
plan goes on (`Ends`). The service is external: `Serve(i)` may happen before the
answer, after the call was given up, or never; a key it has seen is a replay, a
name that is taken is a conflict, and `CreatedElsewhere` takes names for others.
`StatusesOf` lets a gateway answer in the server's place whatever became of the
request: with a status of `RetryOnStatuses`, or with an "inconclusive" one, which
proves nothing either and which that list does not name. A key is a replay only on a
route that reads it: `OffboardEnvironment` sends the header, its route has none.
A conflict answer to a method without a name is not generated, nor are calls that
overlap: each call returns before the caller's next one, while its request may
still be under way.

### RealmProvision

`pc[p]` is the step a call is at; `got[p]` the revisions it read from answers;
`receipt[p]` the steps reported and `FailedStep`; `expected[b]` the
`ExpectedRevision` sent with base key `b`. A base key stands for its length in
characters. The service is external: `revision`, `observed` (the revision its
provider observation describes) and `recorded` (the revision recorded under each
derived key) follow the comments at `admin_auth_project_realm.go:72-91` and the
stateful server of `admin_auth_project_realm_test.go:13-160`. A step ends in one of
three ways: `Answered` (an empty body decodes to revision 0, as `admin.go:714`
does), `Refused` (a conflict), or `GivesUp`: anything else, after which the
request sits in `late` and may still be served at any later time. `OtherWrite` is
another administrator.

### WorkflowBatch

A fact is an idempotency key and an encoded length. `Cuts` is the loop of
`workflowTimingChunks` as a recursive function; `Valid` is
`validateWorkflowTimingBatchResult`; `Merged` the accumulation in `AppendBatch`.
A request ends `Appended` (an answer that passes `Valid`), `Unaccounted` (a 2xx
that does not) or `Failed` (committed or not). From `error` the caller may
call `AppendBatch` again: the replay. The service is external and idempotent per key.

## 3. Runs

| run | instance | question and answer |
|---|---|---|
| `safety` | 2 callers + flusher, batch 2, queue 2, 2 attempts, 3 events | type, loss, duplication, capacity, false acknowledgement, order, the flusher gone before `Close` flushes, no circular wait, overflow that discards the oldest until flushes overlap, flushes that come nearer to their end with every step, and that `CustdClient` implements `Outbox`: all hold |
| `liveness` | 2 callers, 2 events, batch 2, scheduling fairness | every call returns; the flusher ends after `Close`; with an API that recovers, every event is settled, also one that leaves the batch short: by the ticker alone |
| `drops_oldest` | batch 1, queue 2 | **violated**: a newer event is dropped while an older one is kept |
| `close_flushes` | 1 caller, batch 1 | **violated**: `Close` returns nil with events queued |
| `admission` | 2 structs, 3 label maps, 3 calls of `Track`, queue 2, batch 1 | identity, environment, correctability, and that `EventAdmission` implements `EventSnapshots`: all hold while maps are not shared |
| `shared_labels` | 2 structs that may share a map | **violated**: an event is sent under the other's environment |
| `admin` | every kind of method and `SetupProducer`, 3 calls, 1 schema | effect of keys, truth of nil and of "rejected", order of the setup, quotable refusals: all hold |
| `acting_company` | 2 calls for an acting company | **violated**: exports and downloads do not name it |
| `raw_rejected` | 1 upload | **violated**: an upload that may still land is told as an ordinary error |
| `realm` | 2 calls, base keys of 111 and 112 characters, 1 other write, a provider that may fail to record | adjacency of the steps, receipts, length of the keys, that only others block a provision, and that `RealmProvision` implements `Provision`: all hold |
| `realm_retry` | 1 caller, nobody else writing | retrying under one key converges |
| `workflow` | all imports of at most 4 facts, 2 lengths, 3 keys (1 refused), 2 facts or 8 bytes a request | limits, alignment, durability, order of commits, and that `WorkflowBatch` implements `ImportLedger`: all hold; replay completes |

Why these bounds are enough for the cases that matter. In `safety` three events
against a queue of two and batches of two give: two flushes in flight at once, a
queue that overflows while a batch is out, a batch that returns to a full queue, a
retry, an overflow at enqueue and one at requeue, with and without overlapping
flushes, and a `Close` at every point among them. In `liveness` an odd event never
fills a batch, so only ticks get it out. `admission` needs three calls of `Track`
for a struct that is queued, reused and tracked again while its first copy is
still in the queue, two structs for an event between them, and three maps so that
a new one can always be had; its symmetry permutes structs and maps, and its
view leaves out what is in a map that nothing refers to any more, which no
action reads. `admin` needs three calls for one that is lost, one that replays it
and one that comes after both; one schema is enough to tell the order of
tenant, schemas and client. In `realm` two calls under one
key with one foreign write already give every overtaking: replayed answers, an answer from the
other call's record, a late request after a retry. `workflow`'s limits are small
so that both the number and the size cut imports of four facts, also exactly
on the limit. `MaxEvents`, `MaxTracks`, `Attempts` (of a caller), `OtherWrites` and `MaxInput`
are the only bounds on counters.

Some properties are stated and proved (section 5) and in no run, because what a run could
add is checked already: what a refinement covers (`DropOnlyWhenFull` by
`ImplementsOutbox`, `SuccessMeansAllSteps` and `SuccessMeansReconciled` by
`ImplementsProvision`, `RetransmissionsAgree` and `OnlyValidSent` by
`ImplementsSnapshots`), what the ranks of `WaitsAreWellFounded` rest on
(`CloseRunsOnce`), what needs larger instances and follows from a checked invariant
(`AckedInOrder`: its proof rests on `OldestFirst`, and it takes a queue larger than a
batch and more events for an acknowledgement out of order), and `InsecureSendsNothing`, which is about
another value of a constant, `SecureTransport = FALSE`.

Every property of a run that passes has a mutant in `PROJECT.json`: a change to one definition, of
the kind a slip in the code would make, that breaks it in the run listed. Mutants
sit before the definition they change, marked `\* mutant`.

The deadlock check is off where the model really ends: in `workflow` after a
call that returned nil, in `admin`, `acting_company`, `raw_rejected`, `admission` and
`shared_labels` when the caller has made the calls it may make. All other runs
check for deadlock.

## 4. Fairness

- `CustdClient!Fairness`: a goroutine that can run does; an attempt ends (the
  SDK's own HTTP client times out after 10 s; a custom doer must do likewise);
  waits end once their condition holds; the ticker ticks. `FlusherExits` gets
  strong fairness because Go's `select` picks at random among ready cases, so a
  tick cannot beat `done` for ever. No caller owes a call.
- `EventuallySettled` assumes in its own statement an API that does not refuse for
  ever (`Recovering`: an attempt made again and again is accepted again and
  again) and that nobody closes the client. Without the first, a batch with one
  refused event blocks the front of the queue until overflow, see the hazard at
  `client.go:100`; after `Close` nothing flushes any more.
- `RealmProvision!Fairness`: the caller keeps retrying, and each kind of request
  it makes again and again is answered again and again.
  `RetryConverges` needs two more assumptions, stated in the run: no competing writer, and a
  registration run that records what it observes. Without them a retry with
  the same base key replays a reconcile that did not help.
- `WorkflowBatch!FairSpec`: the caller replays, and each request that is made again
  and again is answered properly again and again. The assumption is per request
  because a replay starts over at the first one.

## 5. What is proved

`CustdClientProofs`, for every set of callers, every batch and queue size, every number of
attempts and events, under `CallersAssumption` and `ConfigAssumption`:

| theorem | statement |
|---|---|
| `TypeCorrect` | `Spec => []TypeOK` |
| `QueueWithinCapacity` | `Spec => []CapacityRespected` |
| `NoLoss` | `Spec => []NoEventLost` |
| `NoDuplicate` | `Spec => []OnePlace` |
| `AcknowledgedIsStored` | `Spec => []AckedStored` |
| `CloseWaitsForFlusher` | `Spec => []FlusherGoneBeforeLastFlush` |
| `ClosedOnce` | `Spec => CloseRunsOnce` |
| `DropsNeedFullQueue` | `Spec => DropOnlyWhenFull` |
| `InsecureIsSilent` | `Spec => []InsecureSendsNothing` |
| `NoCircularWait` | `Spec => []WaitsAreWellFounded` |
| `FlushEndsInBound` | `Spec => FlushIsBounded` |
| `OrderKeptWithoutOverlap` (`EventOrderProofs`) | `Spec => []OldestFirst` |
| `AcknowledgedInOrder` (`EventOrderProofs`) | `Spec => []AckedInOrder` |
| `OverflowDropsOldest` (`EventOrderProofs`) | `Spec => DropsOldestWithoutOverlap` |
| `Implementation` (`OutboxProofs`) | `Spec => ImplementsOutbox` |

The argument has two layers. `TypeInv` is `TypeOK` with what it lacks to be
inductive: only a goroutine between dequeue and the end of its flush holds a
batch, whoever is in a backoff has an attempt left, and the queue is within its
capacity (an enqueue evicts one event, which suffices only then). `PlaceInv`
states loss and duplication together: neither is inductive without the other,
since an event that could be in two places could be dropped from one. Each
action moves events between places, and `NoMove`, `TrackMoves`, `TakeMoves` and
`ReturnMoves` say once for each kind of move that the places stay disjoint and
complete. What the queue's slices do is in `EventQueueTheorems`: `DequeueSplits`,
`RequeueSplits` and `EnqueueSplits` say that each operation splits a duplicate-free
sequence into duplicate-free, disjoint parts, all from one lemma `Cut`.
`NilMeansStored` covers the answers: a nil error means that the API stored the
whole batch. `NothingSent` adds to an insecure URL what makes silence inductive:
nobody is in a backoff or has an attempt behind it.

`OldestFirst` needs more than its own statement: `InOrder` says that the queue
rises, that every batch rises and ends below the queue, and that at most one
batch is out. A requeue then puts back exactly what belongs in front
(`RequeueRises`), and the bound on the queue cuts a prefix, which leaves a rising
rest. `RisingConcat` reduces "the batch followed by the queue rises" to its parts.
The same invariant gives the two theorems after it. `AckedInOrder`: a delivered batch
was the only one out and older than the queue, and `StillWaiting` (whatever waits
after a step waited before it, or is the event just tracked) gets the rest from
the conservation of events alone. `DropsOldestWithoutOverlap`: what
`enqueue` evicts and what `requeue` cuts off is the front of a rising sequence
(`EvictedIsOldest`, `TruncatedIsOldest`); the run `drops_oldest` shows that the
hypothesis is needed.

`NoCircularWait` and `FlushEndsInBound` are the safety halves of `CallsReturn` and
`FlusherEnds`, for any number of goroutines: a call can only wait for the flusher
or for the first `Close`, neither ever waits for it, and a flush has a measure,
`StepsLeft`, that each of its steps lowers and that nobody else's step touches
(`MoveKeepsWaits`, `FlushStepNearer`). What is left to fairness is that each
single step is taken.

`Implementation` is the refinement of the event promise: accepted is what was
tracked, held is what is queued or in a batch, delivered is `acked`, lost is
`dropped`, stored is `stored`. `Track` maps to `Accept`, an attempt, however it ends,
to `Deliver`, a requeue to `Lose`, and every other step changes none of these.
`Outbox` allows a loss only by overflow, so the proof has to know that a queue
at its bound holds that many different events: `FullHolds`, from `PlaceInv` (no
event is in the queue twice) and `InjectiveSize`.

`EventAdmissionProofs`, for any structs, maps and environments, any number of calls,
and any size of queue and batch, under `NoLabelsAssumption`, `QueueAssumption` and
`EnvironmentsAssumption`, and for applications that do not share a map between
events (`SharedMaps = FALSE`; for others the run `shared_labels` shows
`EnvironmentIsOwn` violated):

| theorem | statement |
|---|---|
| `AdmissionTypeCorrect` | `Spec => []TypeOK` |
| `EnvironmentKept` | `Spec => []EnvironmentIsOwn` |
| `IdentityKept` | `Spec => []OneIdentity` |
| `TransmissionsAgree` | `Spec => []RetransmissionsAgree` |
| `RefusedStaysCorrectable` | `Spec => []RefusedCorrectable` |
| `SentIsValid` | `Spec => []OnlyValidSent` |
| `AdmissionImplementsSnapshots` | `Spec => ImplementsSnapshots` |

What is on the wire never changes, so these are about what a copy can still turn
into before it is sent. The copy shares its map with a struct the application
goes on using, and the invariant says what that sharing leaves possible. `Owned`:
a map belongs to one struct, and a struct that has the map of a waiting copy
still is that event. `Stamps`: the map of a waiting copy holds exactly the stamp
that the copy's declaration asks for, so that every attempt serialises it alike
(`SerialisedAs`). `Identified`: an identity belongs to one declaration among all
that waits or was sent, and a struct that has it was queued under it. `Sent`:
what was sent follows from its identity and declaration, which makes two
transmissions equal. `FilledIds` is the step that needs most of it: the identity
`Track` gives is new, or the struct's own.

`AdmissionImplementsSnapshots` puts this together: what waits, as `EventSnapshots` sees
it, is what the queued and taken copies would be serialised to now. `AsSentIs` says that
this depends on identity and declaration alone, so that a step of the
application (`Prepare`, or a `Track` that refuses) is a stutter although it
writes to structs and maps; an admitted copy is a new event or one that waits or was
sent already (`AdmitIsTrack`); everything else only sends or forgets.

`AdminCallProofs`, for any number of calls and schemas and any set of
companies, under `AttemptsAssumption`, `SchemasAssumption` and
`CompaniesAssumption`:

| theorem | statement |
|---|---|
| `AdminTypeCorrect` | `Spec => []TypeOK` |
| `KeyedEffectsOnce` | `Spec => []KeyedOnce` |
| `RawErrorsExplained` | `Spec => []RejectedOrMisread` |
| `NilIsDone` | `Spec => []NilMeansDone` |
| `ClientIsLast` | `Spec => []ClientComesLast` |
| `RefusalsAreQuotable` | `Spec => []RefusalQuotable` |

The invariant `IInv` has seven parts. `Typed` and `Counted` are types and
bookkeeping. `OncePerStep`: a call sends each step once, and no step beyond the one
it is at, so the last request is the one being answered. `KeysKept`: a request's
key is determined by its step and call, and only a caller's key is ever
replayed, since a minted one is seen once. `Progress`: `Settled` holds every
step before the current one of the running call and every step of a call that
returned nil; with the fact that a step is sent only after those before it are
settled, this gives the order of the setup. `Once`: at most one effective
request carries the caller's key, if its route reads it. `RejectedOrMisread` is
inductive as it stands: the fate of a request that was refused is final, and an
ordinary error of an upload comes from a rejection, or from a status that
`checkRawStatus` takes for one. The documented promise, `RejectedNotLanded`, is this
without the second case; it fails in `raw_rejected`, and holds of an instance of the SDK
whose `RetryOnStatuses` names every status that proves nothing.
The heart is `ServeKeeps`: whatever arrives, however late, changes the fate of one
request from "sent", and fates are final, so what is settled stays
settled (`SettledStays`). `RefusalQuotable` is about calls that are over, so its
invariant `QuoteInv` says which request is a call's last: it stays the last
(`QuotesStay`), since only the running call sends and it has no result yet.

`RealmProvisionProofs`, for every set of calls and base keys, any number of other
writes, and a provider that may fail to record, under `BaseKeysAssumption` and
`BoundsAssumption`:

| theorem | statement |
|---|---|
| `RealmTypeCorrect` | `Spec => []TypeOK` |
| `StepsAreConsecutive` | `Spec => []ConsecutiveRevisions` |
| `ReceiptsAreTruthful` | `Spec => []ReceiptTruthful` |
| `SuccessIsComplete` | `Spec => []SuccessMeansAllSteps` |
| `DerivedKeysLegal` | `Spec => []KeysLegal` |
| `SuccessIsReconciled` | `Spec => SuccessMeansReconciled` |
| `RealmImplementsProvision` | `Spec => ImplementsProvision` |
| `RefusalsAreOthers` | `Spec => []OnlyOthersBlock` |

`ConsecutiveRevisions` speaks of what the service recorded, so it is inductive
only together with what is still under way: `CallInv` (a call is at a step only
when the steps before it are recorded, and what it will name is the recorded
revision, or 0 after an empty answer) and `Plausible` for every late request.
`RevisionInv` is their conjunction. `ServeAdvances` is the heart of it: a
plausible request that names 0 conflicts, because something was recorded before and
revisions only grow; one that names a recorded revision is served only while
that revision is current, which is adjacency. `MovesOn` (recorded operations never
change) carries the rest. `ReceiptInv` adds that the receipt of a running call
lists exactly the steps before the one it is at, and that its base key was
accepted.

For the refinement, `done` counts the writes recorded under a base key and `told`
those in a call's receipt. `SeenInv` adds that an apply, sent or late, names what
was read under its base key, so that the apply's revision is the one after it. With
adjacency this makes the revision of the next write `seen + done`, which is the
guard of `Provision!Write`; `ServeIsWrite` says that whatever the service serves,
from a running call or late, is that write or a replay. `OnlyOthersBlock` is the
safety half of `RetryConverges`. Its invariant, `AloneInv`, counts: if nobody has
written but under one base key, that key was read at revision 0 and the
revision is the number of its writes, which is what its next step names unless an
empty answer has hidden it. The steps come from `ServeIsWrite` again.

`WorkflowBatchProofs`, for imports of any number of facts of any length, any limits
on facts and bytes, any number of failures and replays, under `InputsAssumption`
and `LimitsAssumption`:

| theorem | statement |
|---|---|
| `TypeCorrect` | `Spec => []TypeOK` |
| `RequestsAreBounded` | `Spec => []RequestsBounded` |
| `RequestsAreFull` | `Spec => []RequestsFull` |
| `ResultsAreAligned` | `Spec => []ResultsAligned` |
| `AcceptedSurvives` | `Spec => []AcceptedIsDurable` |
| `CommitsInOrder` | `Spec => []CommittedInOrder` |
| `ImportImplementsLedger` | `Spec => ImplementsLedger` |

The first three are about a loop, and the library's induction theorems take an
operator as a parameter, which the provers cannot instantiate. The module has
an induction of its own that speaks of a set instead (`Induction`), obtained
from the fact that finite sets are well founded by strict inclusion, since the
numbers up to n are such a set. From it follow `Recursion` (a function given by
its first value and by each value from the one before it exists) and `Uniqueness`,
and so `CutsLoop`: `Cuts` is the last of a series of states of the loop, each a
`CutStep` from the one before. `Sound` is the loop's invariant: the requests before
the last are closed, and the size the loop keeps for the last one is its body
and one comma more (`BodyBytesGrows`, again by `Uniqueness`). That comma is why no
request exceeds the limit, and why `RequestsFull` has `>=` and not `>`.

The state invariant `IInv` adds where the call is (`Positioned`: the next request
begins after the facts that were answered), what it reported (`Reported`), and
what the service holds (`Committed`: the facts of the first requests, never fewer
than were answered, since a replay cuts the same import in the same places). Its
heart is `ValidIsHonest`: of the answers in `Answers`, the one
that `validateWorkflowTimingBatchResult` lets pass is the true one. The counters
stay right when answers are merged because counting is additive (`CountConcat`).

`ImportImplementsLedger` forgets requests and counters: `told` is what the rows say of
the first facts, `ledger` the service's. `CurrentIsNext` says that the request
being sent is some of the facts that follow those told of, at most `MaxFacts`,
and that it commits what `ImportLedger!Commit` does; `AppendedIsTell` that each row of a
valid answer tells its fact's true fate, duplicates within the request and
of earlier ones included, and that the call succeeds with the last fact and not
before.

## 6. Only model-checked

Liveness (`CallsReturn`, `FlusherEnds`, `EventuallySettled`, `RetryConverges`,
`ReplayCompletes`): fairness and ENABLED are beyond the prover. Of
some, what does not need fairness is proved: no wait is circular and a flush ends
within a bound (`NoCircularWait`, `FlushEndsInBound`), a provision's own work
never blocks it (`RefusalsAreOthers`). Every other property of a run that
passes is a theorem.

## 7. Where the code and its comments disagree

Shown by a run:

- `queue.go:48-49` says that a requeue drops the oldest events. When flushes
  overlap, the batch that fails last lands in front of older ones and loses
  its own, newer events first (`drops_oldest`).
- `client.go:88` and `client.go:106` say that `Flush` sends all queued events
  and `Close` flushes what remains. Both send one batch (`close_flushes`).
- `config.go:20` says that the configured company is what admin requests target.
  `requestBytes` (`admin.go:667`), the offboarding download and the usage export
  do not name it (`acting_company`).
- `raw_ingest.go:137-141` says that an upload whose status does not prove a rejection is
  reported as unknown. `checkRawStatus` asks `RetryOnStatuses` instead, which names
  none of 501 and 520 to 524, and not 504 if a caller leaves it out: such an
  answer is an ordinary error (`raw_rejected`).
- `types.go:41-46` says what environment an event is sent under. Events that share
  a label map are sent under the one that was stamped first, or later
  (`shared_labels`).

Met while reading, outside the models' abstraction or without a promise to hold
them against:

- `workflow_timings.go:530` calls its extra comma harmless; a fact whose request
  would be exactly 1 MiB is refused with the whole import.
- `workflowTimingKey` and `workflowTimingStepKey` (`workflow_timings.go:430-438`)
  join their parts with an unescaped ":", so that different parts can make one
  key; `workflowTimingResourcePath` (692-700) escapes a segment that is already
  escaped.
- `client.go:344` promises the recorder "every answer"; several routines never
  record, and after a call that met no answer the recorder still names an
  earlier request. `RefusalQuotable` states what does hold.
- `provisioning.go:263` drops the error of reading the body, and `admin.go:714`
  takes an empty 2xx for a zero value.
- Methods that rotate a secret without a key (`admin.go:350`) rotate twice when they
  are run again after a lost answer.
- `isAlreadyExistsError` (`setup.go:336-357`) tolerates any 409 on the tenant, and
  `SetupProducer` mints a key per call, so a call after a lost answer leaves the
  first client behind, or meets its name.
- The usage export reads a header with exact case (`admin_usage.go`);
  `CheckApplicationAuthority`, `GetHealth` and the issuer's fetch carry no audit
  labels although `client.go:374` speaks of every request.
- `ClientConfig.Environment` is validated nowhere, against the rules of the
  repository's README (line 136).
- `retry.go:161`: jitter is added after the cap, so a delay can exceed `MaxDelay`.

## 8. Not modelled, and the plan

- Configuration defaults: independent assignments made once. Their results are the
  assumptions on the modules' constants.
- The length of a backoff: floating point arithmetic that changes no state.
  `Backoff` as a step is in `CustdClient`.
- Pure value checks: reporting-pack contracts, the accounting of a measurement
  batch, analytics query ranges, timeplan definition arithmetic, usage windows,
  key formats. In `AdminCall` each is an argument that is valid or not, or a body
  that is taken or not. They would be operators compared with a copy of
  themselves; their boundaries are the unit tests' business.
- Paths, audit headers, compression and the 17th label, which influence no outcome of
  a request here.
- The data race of goroutines that share a label map: `EventAdmission` makes `Track`
  and a marshal atomic. Maps shared in sequence are the run `shared_labels`.
- `InspectIssuer`: two reads from a third party, the second at an address that the
  first names; no state of the SDK or the API changes.
- Dogfood events, version, commands and examples: linear code without state. DTOs,
  constants, wording, logs.

Left to do: overlapping calls of one method in `AdminCall`; the content of
events composed with overlapping flushes; that the cuts of `workflowTimingChunks` are as
few as possible, which is an induction over two cuttings at once.
