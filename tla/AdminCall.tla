------------------------------ MODULE AdminCall ------------------------------
(***************************************************************************)
(* A caller runs one method of the SDK, meets an answer, a broken answer   *)
(* or none, and may run it again: with the key it gave the first time if   *)
(* the method takes one.  A call is a plan of requests: one for a method   *)
(* of AdminOperations, several for SetupProducer, which makes the tenant,  *)
(* registers the schemas and only then creates the OAuth client.           *)
(*                                                                         *)
(* The service is external.  It may take a request before the call ends,   *)
(* long after it (the answer is lost, the request is not) or never; it     *)
(* answers a repeated key as a replay and a taken name with 409; and other *)
(* administrators may create the same tenant or client at any time.        *)
(***************************************************************************)
EXTENDS AdminOperations, Sequences, FiniteSets

CONSTANTS
    Attempts,      \* how often the caller runs the method
    SchemaFiles,      \* schemas in SetupProducer's directory
    Companies      \* subset of {"own", "acting", "named"}: whom the caller works for

ASSUME AttemptsAssumption  == Attempts \in Nat \ {0}
ASSUME SchemasAssumption   == SchemaFiles \in Nat
ASSUME CompaniesAssumption == Companies \subseteq {"own", "acting", "named"}

VARIABLES
    plan,        \* the requests a call makes, in order
    given,       \* what the caller fixed: transport, company, arguments, key
    phase,       \* "idle", "ready" to send or "waiting" for an answer
    step,        \* the request of the plan the running call is at
    requests,    \* every request sent: its call, step, company, key and fate
    results,     \* the result of every call that has begun
    recorder,    \* the MetadataRecorder of the caller's context
    others       \* the names others have created

vars == <<plan, given, phase, step, requests, results, recorder, others>>

----------------------------------------------------------------------------
(***************************************************************************)
(* Plans.  name: what the request creates, if that can clash; fresh: the   *)
(* call mints the key itself; tolerant: a conflict counts as done.         *)
(***************************************************************************)
Step(route, kind) ==
    [route |-> route, kind |-> kind, name |-> "none", fresh |-> FALSE, tolerant |-> FALSE]

CreateTenant == [Step(Admin, Write) EXCEPT !.name = "tenant", !.tolerant = TRUE]
CreateClient == [Step(Admin, Keyed) EXCEPT !.name = "client", !.fresh = TRUE]
Register     == [i \in 1 .. SchemaFiles |-> Step(Admin, Write)]

\* mutant: the client is created before its schemas are registered
SetupPlanClientFirst(ensureTenant) ==
    (IF ensureTenant THEN <<CreateTenant>> ELSE <<>>) \o <<CreateClient>> \o Register

SetupPlan(ensureTenant) ==
    (IF ensureTenant THEN <<CreateTenant>> ELSE <<>>) \o Register \o <<CreateClient>>

Plans == {<<Step(k.route, k.kind)>> : k \in Kinds} \union {SetupPlan(e) : e \in BOOLEAN}

Setup == \E i \in DOMAIN plan : plan[i].name = "client"

\* Refused before any request: arguments the method checks, a missing key.
RefusedLocally ==
    \/ ~given.valid
    \/ \E i \in DOMAIN plan : plan[i].kind.key = "required" /\ ~plan[i].fresh /\ ~given.key

----------------------------------------------------------------------------
Running == Len(results)      \* the call that is running, or the last one

NoKey == <<"none", 0>>

\* mutant: the header helper drops the key
KeySentNever(s) == NoKey

\* The key a request of step s carries.  A minted key belongs to its call.
KeySent(s) ==
    IF s.fresh THEN <<"minted", Running>>
    ELSE IF s.kind.key # "none" /\ given.key THEN <<"given", 0>> ELSE NoKey

Pending == [error |-> "running", status |-> "none", reported |-> NoId, recorded |-> NoId, kept |-> "none"]

Init ==
    /\ plan \in Plans
    /\ given \in [native : BOOLEAN, tenant : Companies, valid : BOOLEAN, key : BOOLEAN]
    /\ ~given.valid => Setup \/ plan[1].kind.checked
    /\ given.key => \E i \in DOMAIN plan : plan[i].kind.key # "none" /\ ~plan[i].fresh
    /\ phase = "idle" /\ step = 0
    /\ requests = <<>> /\ results = <<>>
    /\ recorder = NoId /\ others = {}

Call ==
    /\ phase = "idle" /\ Running < Attempts
    /\ IF RefusedLocally
       THEN /\ results' = Append(results, [Pending EXCEPT !.error = "local"])
            /\ UNCHANGED <<phase, step>>
       ELSE /\ results' = Append(results, Pending)
            /\ phase' = "ready" /\ step' = 1
    /\ UNCHANGED <<plan, given, requests, recorder, others>>

Send ==
    /\ phase = "ready"
    /\ phase' = "waiting"
    /\ requests' = Append(requests,
           [call |-> Running, step |-> step, fate |-> "sent",
            company |-> Company(plan[step].route, given.tenant), key |-> KeySent(plan[step])])
    /\ UNCHANGED <<plan, given, step, results, recorder, others>>

\* mutant: a conflict is tolerated at every step
AdvancesOnConflict(s, error) == error \in {"nil", "conflict"}

\* Does the plan go on after this result of step s?
Advances(s, error) == error = "nil" \/ (error = "conflict" /\ s.tolerant)

\* mutant: the step moves on although the plan is over
EndsPastPlan(r) ==
    /\ phase' = "ready" /\ step' = step + 1
    /\ UNCHANGED <<plan, given, requests, results, recorder, others>>

\* The running step ends with result r.
Ends(r) ==
    LET on == Advances(plan[step], r.error)
        more == on /\ step < Len(plan)
    IN  /\ phase' = IF more THEN "ready" ELSE "idle"
        /\ step' = IF more THEN step + 1 ELSE 0
        /\ results' = IF more THEN results
                      ELSE [results EXCEPT ![Running] =
                              IF on THEN [r EXCEPT !.error = "nil"] ELSE r]
        /\ recorder' = IF r.recorded # NoId THEN r.recorded ELSE recorder
        /\ UNCHANGED <<plan, given, requests, others>>

----------------------------------------------------------------------------
(***************************************************************************)
(* The service and the network.                                            *)
(***************************************************************************)
Effective == {i \in DOMAIN requests : requests[i].fate = "done"}

NamesTaken == others \union {plan[requests[i].step].name : i \in Effective}

\* The service has taken a request with this key, and its route reads keys.
Known(r) ==
    /\ r.key # NoKey /\ plan[r.step].kind.key # "unread"
    /\ \E i \in Effective : requests[i].key = r.key /\ requests[i].step = r.step

Fates(r) ==
    IF Known(r) THEN {"replayed"}
    ELSE IF plan[r.step].name \in NamesTaken \ {"none"} THEN {"clash"} ELSE {"done", "refused"}

Serve(i) ==
    /\ requests[i].fate = "sent"
    /\ \E fate \in Fates(requests[i]) : requests' = [requests EXCEPT ![i].fate = fate]
    /\ UNCHANGED <<plan, given, phase, step, results, recorder, others>>

\* What is answered to a request of this fate, by the server or by a gateway
\* that gives up on a request whatever became of it or will.
Decided(fate) ==
    CASE fate \in {"done", "replayed"} -> {"success"}
      [] fate = "clash"                -> {"conflict"}
      [] fate = "refused"              -> {"refused"}
      [] OTHER                         -> {}

StatusesOf(fate) == Decided(fate) \union {"retryable", "inconclusive"}

BodiesOf(status) ==
    {b \in Bodies : /\ b = "cut" => given.native
                    /\ status # "success" => b \in {"whole", "cut"}}

Reply ==
    /\ phase = "waiting"
    /\ LET id == Len(requests) IN
       \E status \in StatusesOf(requests[id].fate) : \E body \in BodiesOf(status) :
       \E r \in Results(plan[step].route, plan[step].kind.decode, status, body, id) : Ends(r)

NoReply ==
    /\ phase = "waiting"
    /\ Ends(Unanswered(plan[step].route))

CreatedElsewhere(name) ==
    /\ Setup /\ name \notin NamesTaken
    /\ others' = others \union {name}
    /\ UNCHANGED <<plan, given, phase, step, requests, results, recorder>>

Next ==
    \/ Call \/ Send \/ Reply \/ NoReply
    \/ \E i \in DOMAIN requests : Serve(i)
    \/ \E name \in {"tenant", "client"} : CreatedElsewhere(name)

Spec == Init /\ [][Next]_vars
=============================================================================
