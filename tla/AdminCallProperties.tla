------------------------ MODULE AdminCallProperties ------------------------
(* What the SDK's requests promise their caller. *)
EXTENDS AdminCall

Over(c) == c \in DOMAIN results /\ results[c].error # "running"
SentBy(c, s) == {i \in DOMAIN requests : requests[i].call = c /\ requests[i].step = s}

\* Every variable keeps its type: requests and results are counted by call,
\* a result names only requests that were sent, the recorder too.
TypeOK ==
    /\ plan \in Plans
    /\ phase \in {"idle", "ready", "waiting"}
    /\ step \in 0 .. Len(plan) /\ (step = 0) = (phase = "idle")
    /\ Running \in 0 .. Attempts
    /\ \A i \in DOMAIN requests :
          /\ requests[i].call \in 1 .. Running
          /\ requests[i].step \in DOMAIN plan
          /\ requests[i].fate \in {"sent", "done", "replayed", "clash", "refused"}
    /\ \A c \in 1 .. Running : results[c].reported \in 0 .. Len(requests)
    /\ recorder \in 0 .. Len(requests)
    /\ others \subseteq {"tenant", "client"}

\* A method whose route reads the caller's key takes effect once, however often
\* it is run, whichever answers were lost and however late a request arrives.
KeyedOnce ==
    given.key /\ plan[1].kind.key # "unread" => \A i, j \in Effective : i = j

\* A call that returns no error has had every request of its plan taken: each
\* took effect, was recognised as a repeat or, for the tenant alone, met one
\* that was there.  The client whose secret SetupProducer returns was created
\* by this very call, so a call after a lost answer never returns one.
NilMeansDone ==
    \A c \in DOMAIN results : results[c].error = "nil" =>
        \A s \in DOMAIN plan : \E i \in SentBy(c, s) :
            \/ requests[i].fate \in IF plan[s].fresh THEN {"done"} ELSE {"done", "replayed"}
            \/ plan[s].tolerant /\ requests[i].fate = "clash"

\* SetupProducer's client is created only after its tenant is there and every
\* schema of the same call is registered, also when a request arrives late.
ClientComesLast ==
    \A i \in Effective : plan[requests[i].step].name = "client" =>
        \A s \in DOMAIN plan \ {requests[i].step} : \E j \in SentBy(requests[i].call, s) :
            requests[j].fate \in {"done"} \union (IF plan[s].tolerant THEN {"clash"} ELSE {})

LastSent(c) == CHOOSE i \in DOMAIN requests :
    /\ requests[i].call = c
    /\ \A j \in DOMAIN requests : requests[j].call = c => j <= i

\* A refusal that was read can be quoted: where the method returns
\* ResponseMetadata it names the refused request, where it records, the
\* recorder does.  Only a call whose answer was never read leaves the recorder
\* on an earlier call's identifier.
RefusalQuotable ==
    \A c \in DOMAIN results :
        LET r == results[c]
            route == plan[1].route
        IN  r.error \in {"error", "conflict"} /\ r.kept \notin {"none", "unreadable"} =>
              /\ route.returns = "answers" => r.reported = LastSent(c)
              /\ route.records = "answers" /\ c = Running => recorder = LastSent(c)

\* The uploads of IngestRawLines that were not taken and never will be.
NotLanded(c) == \A i \in SentBy(c, 1) : requests[i].fate \in {"refused", "clash"}

\* IngestRawLines tells an upload that landed, or still may, as an ordinary
\* error on one occasion only: the answer was read, and its status is neither a
\* success nor in RetryOnStatuses although it proves no rejection.  A lost, cut,
\* unusable or retryable answer is always RawAcceptanceUnknownError.
RejectedOrMisread ==
    plan[1].route = RawUpload =>
        \A c \in DOMAIN results : results[c].error \in {"error", "conflict"} =>
            NotLanded(c) \/ results[c].status = "inconclusive"

----------------------------------------------------------------------------
(* Claims of the source that the code does not keep.                       *)

\* raw_ingest.go: RawAcceptanceUnknownError reports every upload whose answer
\* "carried a status that does not prove rejection", so that an ordinary error
\* is returned only for an upload that did not land and will not.
RejectedNotLanded ==
    plan[1].route = RawUpload =>
        \A c \in DOMAIN results : results[c].error \in {"error", "conflict"} => NotLanded(c)

\* config.go: ActingCompanySlug "names the client company a system
\* administrator's admin requests target".
CompanyTargeted ==
    \A i \in DOMAIN requests :
        given.tenant = "acting" /\ plan[requests[i].step].route.space = "admin"
            => requests[i].company = "acting"
=============================================================================
