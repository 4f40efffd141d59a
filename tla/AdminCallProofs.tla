--------------------------- MODULE AdminCallProofs ---------------------------
(***************************************************************************)
(* Proofs about AdminCall, for any number of calls and of schemas.         *)
(***************************************************************************)
EXTENDS AdminCallProperties, TLAPS

SetupSteps == {CreateTenant, CreateClient, Step(Admin, Write)}

\* The three kinds of step of SetupProducer.
LEMMA SetupStepKinds ==
    /\ CreateTenant.name = "tenant" /\ CreateTenant.fresh = FALSE
    /\ CreateTenant.tolerant = TRUE /\ CreateTenant.kind.key = "none"
    /\ CreateClient.name = "client" /\ CreateClient.fresh = TRUE
    /\ CreateClient.tolerant = FALSE /\ CreateClient.kind.key = "required"
    /\ Step(Admin, Write).name = "none" /\ Step(Admin, Write).fresh = FALSE
    /\ Step(Admin, Write).tolerant = FALSE /\ Step(Admin, Write).kind.key = "none"
  BY DEF CreateTenant, CreateClient, Step, Keyed, Write, Read

\* SetupProducer's plan ends with the client and has no other step that mints a
\* key or takes one.
LEMMA SetupPlanShape ==
    ASSUME NEW e \in BOOLEAN
    PROVE  LET p == SetupPlan(e) IN
           /\ p \in Seq(SetupSteps) /\ Len(p) >= 1
           /\ p[Len(p)] = CreateClient
           /\ \A s \in 1 .. Len(p) - 1 : p[s] \in {CreateTenant, Step(Admin, Write)}
  <1> DEFINE early == {CreateTenant, Step(Admin, Write)}
             front == (IF e THEN <<CreateTenant>> ELSE <<>>) \o Register
  <1>1. Register \in Seq(early)
    BY SchemasAssumption DEF Register
  <1>2. front \in Seq(early)
    <2>1. (IF e THEN <<CreateTenant>> ELSE <<>>) \in Seq(early)
      <3>1. CASE e
        BY <3>1
      <3>2. CASE ~e
        BY <3>2
      <3> QED
        BY <3>1, <3>2
    <2> QED
      BY <1>1, <2>1
  <1>3. SetupPlan(e) = Append(front, CreateClient)
    BY <1>2 DEF SetupPlan
  <1> QED
    BY <1>2, <1>3 DEF SetupSteps

\* Either a plan is one request of a method that mints no key, creates no named
\* thing and tolerates no conflict, or it is SetupProducer's.
LEMMA PlanShape ==
    ASSUME NEW p \in Plans
    PROVE  /\ Len(p) \in Nat \ {0} /\ DOMAIN p = 1 .. Len(p)
           /\ \/ /\ Len(p) = 1 /\ p[1].name = "none"
                 /\ p[1].fresh = FALSE /\ p[1].tolerant = FALSE
              \/ /\ p[Len(p)] = CreateClient
                 /\ \A s \in 1 .. Len(p) - 1 : p[s] \in {CreateTenant, Step(Admin, Write)}
  <1>1. CASE \E e \in BOOLEAN : p = SetupPlan(e)
    BY <1>1, SetupPlanShape
  <1>2. CASE \E k \in Kinds : p = <<Step(k.route, k.kind)>>
    BY <1>2 DEF Step
  <1> QED
    BY <1>1, <1>2 DEF Plans

-----------------------------------------------------------------------------
(***************************************************************************)
(* The inductive invariant.                                                *)
(***************************************************************************)
FateSet   == {"sent", "done", "replayed", "clash", "refused"}
TenantSet == {"own", "acting", "named"}
ErrorSet  == {"running", "local", "nil", "conflict", "error", "unknown"}
KeptSet   == Bodies \union {"none", "unreadable"}

RequestSet == [call : Nat, step : Nat, fate : FateSet, company : TenantSet,
               key : {"none", "minted", "given"} \X Nat]
StatusSet  == Statuses \union {"none"}

ResultSet  == [error : ErrorSet, status : StatusSet, reported : Nat, recorded : Nat, kept : KeptSet]

Typed ==
    /\ plan \in Plans
    /\ given \in [native : BOOLEAN, tenant : Companies, valid : BOOLEAN, key : BOOLEAN]
    /\ phase \in {"idle", "ready", "waiting"}
    /\ step \in 0 .. Len(plan) /\ (step = 0) = (phase = "idle")
    /\ requests \in Seq(RequestSet) /\ results \in Seq(ResultSet)
    /\ Len(results) <= Attempts
    /\ recorder \in 0 .. Len(requests) /\ others \subseteq {"tenant", "client"}

\* Requests belong to calls that have begun, results name requests sent.
Counted ==
    /\ \A i \in DOMAIN requests :
          requests[i].call \in 1 .. Running /\ requests[i].step \in DOMAIN plan
    /\ \A c \in DOMAIN results : results[c].reported \in 0 .. Len(requests)
    /\ phase # "idle" => Running >= 1 /\ results[Running].error = "running"

\* A call sends each step at most once, and at most up to where it is.
OncePerStep ==
    /\ \A i, j \in DOMAIN requests :
          requests[i].call = requests[j].call /\ requests[i].step = requests[j].step => i = j
    /\ phase = "ready" =>
          \A i \in DOMAIN requests : requests[i].call = Running => requests[i].step < step
    /\ phase = "waiting" =>
          /\ requests # <<>>
          /\ requests[Len(requests)].call = Running /\ requests[Len(requests)].step = step
          /\ \A i \in DOMAIN requests : requests[i].call = Running => requests[i].step <= step

\* The key of a request is the one its step and its call determine; a minted
\* key is never replayed.
KeyOf(s, c, keyed) ==
    IF s.fresh THEN <<"minted", c>>
    ELSE IF s.kind.key # "none" /\ keyed THEN <<"given", 0>> ELSE NoKey

KeysKept ==
    \A i \in DOMAIN requests :
        /\ requests[i].key = KeyOf(plan[requests[i].step], requests[i].call, given.key)
        /\ requests[i].fate = "replayed" =>
              ~plan[requests[i].step].fresh /\ requests[i].key # NoKey

\* The steps that are behind us, each with its call.
Settles(s, fate) ==
    \/ fate \in IF s.fresh THEN {"done"} ELSE {"done", "replayed"}
    \/ s.tolerant /\ fate = "clash"

Settled ==
    {<<requests[i].call, requests[i].step>> :
        i \in {j \in DOMAIN requests : Settles(plan[requests[j].step], requests[j].fate)}}

Progress ==
    /\ \A i \in DOMAIN requests :
          \A s \in 1 .. requests[i].step - 1 : <<requests[i].call, s>> \in Settled
    /\ phase # "idle" => \A s \in 1 .. step - 1 : <<Running, s>> \in Settled
    /\ \A c \in DOMAIN results :
          results[c].error = "nil" => \A s \in DOMAIN plan : <<c, s>> \in Settled

\* With a key from the caller the plan is one request, and it takes effect once
\* if its route reads the key.
Once ==
    given.key =>
        /\ Len(plan) = 1 /\ plan[1].kind.key # "none" /\ plan[1].fresh = FALSE
        /\ KeyedOnce

IInv == Typed /\ Counted /\ OncePerStep /\ KeysKept /\ Progress /\ Once /\ RejectedOrMisread

-----------------------------------------------------------------------------
\* What an answer with a readable status can make of a call.
LEMMA ResultShape ==
    ASSUME NEW route, NEW decode, NEW status \in Statuses, NEW body \in Bodies,
           NEW id \in Nat, NEW r \in Results(route, decode, status, body, id)
    PROVE  /\ r \in ResultSet /\ r.reported \in {NoId, id} /\ r.recorded \in {NoId, id}
           /\ r.error \in {"nil", "conflict", "error", "unknown"}
           /\ r.error = "nil" => status = "success"
           /\ r.error = "conflict" => status = "conflict"
           /\ r.error = "error" => status \in {"refused", "inconclusive"} \/ ~route.mayLand
           /\ r.status = status
  <1>1. PICK read \in BodyRead(route, body) :
          r = [error    |-> Verdict(route, decode, status, read),
               status   |-> status,
               reported |-> IF Identified(route.returns, status, read) THEN id ELSE NoId,
               recorded |-> IF Identified(route.records, status, read) THEN id ELSE NoId,
               kept     |-> read]
    BY DEF Results
  <1>2. read \in KeptSet
    BY DEF BodyRead, KeptSet, Bodies
  <1>3. Failure(route) \in {"unknown", "error"}
        /\ (Failure(route) = "error" => ~route.mayLand)
    BY DEF Failure
  <1>4. /\ Verdict(route, decode, status, read) \in {"nil", "conflict", "error", "unknown"}
        /\ Verdict(route, decode, status, read) = "nil" => status = "success"
        /\ Verdict(route, decode, status, read) = "conflict" => status = "conflict"
        /\ Verdict(route, decode, status, read) = "error" =>
              status \in {"refused", "inconclusive"} \/ ~route.mayLand
    BY <1>3 DEF Verdict, Statuses
  <1> QED
    BY <1>1, <1>2, <1>4 DEF ResultSet, ErrorSet, StatusSet, NoId

\* The result of a call that met no answer: it names no request, and it is an
\* ordinary error only where the route does not say that it may have landed.
LEMMA UnansweredShape ==
    ASSUME NEW route
    PROVE  /\ Unanswered(route) \in ResultSet
           /\ Unanswered(route).reported = NoId /\ Unanswered(route).recorded = NoId
           /\ Unanswered(route).error \in {"error", "unknown"}
           /\ Unanswered(route).error = "error" => ~route.mayLand
  BY DEF Unanswered, Failure, ResultSet, ErrorSet, StatusSet, KeptSet, NoId

\* A request belongs to a numbered step of the plan.
LEMMA StepsAreNumbers == Typed => \A i \in DOMAIN requests : requests[i].step \in Nat
  <1> SUFFICES ASSUME Typed, NEW i \in DOMAIN requests PROVE requests[i].step \in Nat
    OBVIOUS
  <1>1. requests[i] \in RequestSet
    BY DEF Typed
  <1> QED
    BY <1>1 DEF RequestSet

\* What a step is done with stays done, as requests are added and served.
Grows ==
    /\ plan' = plan
    /\ \A i \in DOMAIN requests :
          /\ i \in DOMAIN requests'
          /\ requests'[i].call = requests[i].call /\ requests'[i].step = requests[i].step
          /\ requests[i].fate # "sent" => requests'[i].fate = requests[i].fate

\* What is settled stays so, whatever is sent or served later.
LEMMA SettledStays == Grows => Settled \subseteq Settled'
  <1> SUFFICES ASSUME Grows, NEW d \in Settled PROVE d \in Settled'
    OBVIOUS
  <1>1. PICK i \in DOMAIN requests : /\ d = <<requests[i].call, requests[i].step>>
                                    /\ Settles(plan[requests[i].step], requests[i].fate)
    BY DEF Settled
  <1>2. requests[i].fate # "sent"
    BY <1>1 DEF Settles
  <1>3. /\ i \in DOMAIN requests' /\ d = <<requests'[i].call, requests'[i].step>>
        /\ Settles(plan'[requests'[i].step], requests'[i].fate)
    BY <1>1, <1>2 DEF Grows
  <1> QED
    BY <1>3 DEF Settled

-----------------------------------------------------------------------------
(***************************************************************************)
(* The invariant holds at first.                                           *)
(***************************************************************************)
LEMMA KeyedPlan ==
    ASSUME NEW p \in Plans, \E i \in DOMAIN p : p[i].kind.key # "none" /\ ~p[i].fresh
    PROVE  Len(p) = 1 /\ p[1].kind.key # "none" /\ p[1].fresh = FALSE
  <1>1. PICK i \in 1 .. Len(p) : p[i].kind.key # "none" /\ ~p[i].fresh
    BY PlanShape
  <1>2. CASE /\ p[Len(p)] = CreateClient
             /\ \A s \in 1 .. Len(p) - 1 : p[s] \in {CreateTenant, Step(Admin, Write)}
    <2>1. i \in 1 .. Len(p) - 1 \/ i = Len(p)
      BY <1>1, PlanShape
    <2> QED
      BY <1>1, <1>2, <2>1, SetupStepKinds
  <1>3. CASE Len(p) = 1 /\ p[1].fresh = FALSE
    BY <1>1, <1>3
  <1> QED
    BY <1>2, <1>3, PlanShape

\* Before the first call nothing was sent.
LEMMA InitInv == Init => IInv
  <1> SUFFICES ASSUME Init PROVE IInv
    OBVIOUS
  <1>1. Typed
    BY PlanShape, AttemptsAssumption DEF Init, Typed, NoId
  <1>2. Counted /\ OncePerStep /\ KeysKept
    BY DEF Init, Counted, OncePerStep, KeysKept
  <1>3. Progress
    BY DEF Init, Progress
  <1>4. Once
    <2>1. KeyedOnce
      BY DEF Init, KeyedOnce, Effective
    <2> QED
      BY <2>1, KeyedPlan DEF Init, Once
  <1>5. RejectedOrMisread
    BY DEF Init, RejectedOrMisread
  <1> QED
    BY <1>1, <1>2, <1>3, <1>4, <1>5 DEF IInv

-----------------------------------------------------------------------------
(***************************************************************************)
(* A call begins.                                                          *)
(***************************************************************************)
LEMMA CallKeeps == IInv /\ Call => IInv'
  <1> SUFFICES ASSUME IInv, Call PROVE IInv'
    OBVIOUS
  <1> USE DEF IInv
  <1>1. /\ phase = "idle" /\ step = 0 /\ Len(results) < Attempts
        /\ UNCHANGED <<plan, given, requests, recorder, others>>
    BY DEF Call, Typed, Running
  <1>2. /\ plan' = plan /\ given' = given /\ requests' = requests
        /\ recorder' = recorder /\ others' = others
    BY <1>1
  <1>3. PICK r \in ResultSet : /\ r.error \in {"running", "local"} /\ r.reported = NoId
                              /\ results' = Append(results, r)
                              /\ \/ phase' = phase /\ step' = step
                                 \/ phase' = "ready" /\ step' = 1 /\ r.error = "running"
    BY DEF Call, Pending, ResultSet, ErrorSet, StatusSet, KeptSet, NoId
  <1>4. /\ Len(results) \in Nat /\ Len(results') = Len(results) + 1
        /\ results'[Len(results')] = r
        /\ \A c \in DOMAIN results : c \in DOMAIN results' /\ results'[c] = results[c]
        /\ \A c \in DOMAIN results' : c \in DOMAIN results \/ c = Len(results) + 1
    BY <1>3 DEF Typed
  <1>5. Typed'
    <2>1. results' \in Seq(ResultSet) /\ Len(results') <= Attempts
      BY <1>1, <1>3, <1>4, AttemptsAssumption DEF Typed
    <2>2. /\ phase' \in {"idle", "ready", "waiting"}
          /\ step' \in 0 .. Len(plan) /\ (step' = 0) = (phase' = "idle")
      <3>1. CASE phase' = phase /\ step' = step
        BY <3>1 DEF Typed
      <3>2. CASE phase' = "ready" /\ step' = 1
        <4>1. Len(plan) \in Nat \ {0}
          BY PlanShape DEF Typed
        <4>2. step' \in 0 .. Len(plan) /\ step' # 0 /\ phase' # "idle"
          BY <3>2, <4>1
        <4> QED
          BY <3>2, <4>2
      <3> QED
        BY <1>3, <3>1, <3>2
    <2> QED
      BY <1>2, <2>1, <2>2 DEF Typed
  <1>6. Counted'
    BY <1>1, <1>2, <1>3, <1>4 DEF Counted, Running, NoId, Typed
  <1>7. OncePerStep'
    <2>1. \A i \in DOMAIN requests : requests[i].call # Running'
      BY <1>4 DEF Counted, Running
    <2> QED
      BY <1>1, <1>2, <1>3, <2>1 DEF OncePerStep
  <1>8. KeysKept'
    BY <1>2 DEF KeysKept
  <1>9. Grows
    BY <1>2 DEF Grows
  <1>10. Progress'
    <2>1. Settled \subseteq Settled'
      BY <1>9, SettledStays
    <2>2. phase' # "idle" => step' - 1 = 0
      BY <1>1, <1>3
    <2> QED
      BY <1>2, <1>3, <1>4, <2>1, <2>2 DEF Progress
  <1>11. Once'
    BY <1>2 DEF Once, KeyedOnce, Effective
  <1>12. RejectedOrMisread'
    BY <1>2, <1>3, <1>4 DEF RejectedOrMisread, NotLanded, SentBy
  <1> QED
    BY <1>5, <1>6, <1>7, <1>8, <1>10, <1>11, <1>12

-----------------------------------------------------------------------------
(***************************************************************************)
(* A request is sent.                                                      *)
(***************************************************************************)
LEMMA SendKeeps == IInv /\ Send => IInv'
  <1> SUFFICES ASSUME IInv, Send PROVE IInv'
    OBVIOUS
  <1> USE DEF IInv
  <1> DEFINE r == [call |-> Running, step |-> step, fate |-> "sent",
                   company |-> Company(plan[step].route, given.tenant),
                   key |-> KeySent(plan[step])]
             n == Len(requests) + 1
  <1>1. /\ phase = "ready" /\ phase' = "waiting" /\ requests' = Append(requests, r)
        /\ plan' = plan /\ given' = given /\ step' = step /\ results' = results
        /\ recorder' = recorder /\ others' = others
    <2>1. UNCHANGED <<plan, given, step, results, recorder, others>>
      BY DEF Send
    <2> QED
      BY <2>1 DEF Send
  <1>2. Len(plan) \in Nat \ {0} /\ DOMAIN plan = 1 .. Len(plan)
    BY PlanShape DEF Typed
  <1>3. step \in DOMAIN plan /\ step \in Nat /\ Running \in Nat /\ Running >= 1
    BY <1>1, <1>2 DEF Typed, Counted, Running
  <1>4. /\ KeySent(plan[step]) \in {"none", "minted", "given"} \X Nat
        /\ KeySent(plan[step]) = KeyOf(plan[step], Running, given.key)
    BY <1>3 DEF KeySent, KeyOf, NoKey
  <1>5. Company(plan[step].route, given.tenant) \in TenantSet
    BY CompaniesAssumption DEF Company, TenantSet, Typed
  <1>6. r \in RequestSet
    BY <1>3, <1>4, <1>5 DEF RequestSet, FateSet
  <1>7. /\ n \in Nat /\ Len(requests') = n /\ DOMAIN requests' = 1 .. n /\ requests'[n] = r
        /\ requests' \in Seq(RequestSet) /\ n \notin DOMAIN requests /\ DOMAIN requests = 1 .. n - 1
        /\ \A i \in DOMAIN requests : i \in DOMAIN requests' /\ requests'[i] = requests[i]
        /\ \A i \in DOMAIN requests' : i \in DOMAIN requests \/ i = n
    BY <1>1, <1>6 DEF Typed
  <1>8. r.call = Running /\ r.step = step /\ r.fate = "sent" /\ r.key = KeyOf(plan[step], Running, given.key)
    BY <1>4
  <1> HIDE DEF r
  <1>9. Typed'
    BY <1>1, <1>3, <1>7 DEF Typed
  <1>10. Counted'
    <2>1. \A c \in DOMAIN results : results[c].reported \in 0 .. n
      BY <1>7 DEF Counted
    <2> QED
      BY <1>1, <1>3, <1>7, <1>8, <2>1 DEF Counted, Running
  <1>11. OncePerStep'
    <2>1. \A i \in DOMAIN requests : requests[i].call = Running => requests[i].step < step
      BY <1>1 DEF OncePerStep
    <2>2. \A i \in DOMAIN requests : ~(requests[i].call = r.call /\ requests[i].step = r.step)
      BY <1>3, <1>8, <2>1
    <2>3. \A i, j \in DOMAIN requests' :
            requests'[i].call = requests'[j].call /\ requests'[i].step = requests'[j].step => i = j
      BY <1>7, <2>2 DEF OncePerStep
    <2>4. \A i \in DOMAIN requests' : requests'[i].call = Running => requests'[i].step <= step
      <3>1. \A i \in DOMAIN requests : requests[i].step \in Nat
        BY StepsAreNumbers
      <3>2. \A i \in DOMAIN requests : requests[i].call = Running => requests[i].step <= step
        BY <1>3, <2>1, <3>1
      <3>3. requests'[n].step <= step
        BY <1>3, <1>7, <1>8
      <3> QED
        BY <1>7, <3>2, <3>3
    <2>5. requests' # <<>>
      BY <1>7
    <2> QED
      BY <1>1, <1>7, <1>8, <2>3, <2>4, <2>5 DEF OncePerStep, Running
  <1>12. KeysKept'
    BY <1>1, <1>7, <1>8 DEF KeysKept
  <1>13. Progress'
    <2>1. Settled \subseteq Settled'
      BY <1>1, <1>7, SettledStays DEF Grows
    <2> QED
      BY <1>1, <1>7, <1>8, <2>1 DEF Progress, Running
  <1>14. Once'
    <2>1. Effective' = Effective
      BY <1>7, <1>8 DEF Effective
    <2> QED
      BY <1>1, <2>1 DEF Once, KeyedOnce
  <1>15. RejectedOrMisread'
    <2>1. \A c \in DOMAIN results : results[c].error \in {"error", "conflict"} => c # Running
      BY <1>1 DEF Counted
    <2> QED
      BY <1>1, <1>7, <1>8, <2>1 DEF RejectedOrMisread, NotLanded, SentBy
  <1> QED
    BY <1>9, <1>10, <1>11, <1>12, <1>13, <1>14, <1>15

-----------------------------------------------------------------------------
(***************************************************************************)
(* The service handles a request, perhaps long after its call.             *)
(***************************************************************************)
LEMMA ServeKeeps == ASSUME IInv, NEW i \in DOMAIN requests, Serve(i) PROVE IInv'
  <1> USE DEF IInv
  <1>1. PICK fate \in Fates(requests[i]) : requests' = [requests EXCEPT ![i].fate = fate]
    BY DEF Serve
  <1>2. /\ requests[i].fate = "sent"
        /\ plan' = plan /\ given' = given /\ phase' = phase /\ step' = step
        /\ results' = results /\ recorder' = recorder /\ others' = others
    <2>1. UNCHANGED <<plan, given, phase, step, results, recorder, others>>
      BY DEF Serve
    <2> QED
      BY <2>1 DEF Serve
  <1>3. fate \in FateSet
    BY DEF Fates, FateSet
  <1>4. /\ requests' \in Seq(RequestSet) /\ DOMAIN requests' = DOMAIN requests
        /\ Len(requests') = Len(requests)
        /\ \A j \in DOMAIN requests : j # i => requests'[j] = requests[j]
        /\ requests'[i] = [requests[i] EXCEPT !.fate = fate]
    <2> DEFINE q == [requests[i] EXCEPT !.fate = fate]
    <2>1. requests[i] \in RequestSet
      BY DEF Typed
    <2>2. q \in RequestSet
      BY <1>3, <2>1 DEF RequestSet
    <2>3. requests' = [requests EXCEPT ![i] = q]
      BY <1>1
    <2> HIDE DEF q
    <2>4. /\ requests' \in Seq(RequestSet) /\ DOMAIN requests' = DOMAIN requests
          /\ Len(requests') = Len(requests) /\ requests'[i] = q
          /\ \A j \in DOMAIN requests : j # i => requests'[j] = requests[j]
      BY <2>2, <2>3 DEF Typed
    <2> QED
      BY <2>4 DEF q
  <1>5. /\ requests'[i].fate = fate
        /\ \A j \in DOMAIN requests :
              /\ requests'[j].call = requests[j].call /\ requests'[j].step = requests[j].step
              /\ requests'[j].key = requests[j].key
              /\ j # i => requests'[j].fate = requests[j].fate
    <2>1. requests[i] \in RequestSet
      BY DEF Typed
    <2>2. LET q == [requests[i] EXCEPT !.fate = fate] IN
          /\ q.fate = fate /\ q.call = requests[i].call /\ q.step = requests[i].step
          /\ q.key = requests[i].key
      BY <2>1 DEF RequestSet
    <2> QED
      BY <1>4, <2>2
  <1>6. Typed'
    BY <1>2, <1>4 DEF Typed
  <1>7. Counted'
    BY <1>2, <1>4, <1>5 DEF Counted, Running
  <1>8. OncePerStep'
    <2>1. requests = <<>> <=> requests' = <<>>
      BY <1>4 DEF Typed
    <2>2. requests # <<>> => Len(requests) \in DOMAIN requests
      BY DEF Typed
    <2> QED
      BY <1>2, <1>4, <1>5, <2>1, <2>2 DEF OncePerStep, Running
  <1>9. fate = "replayed" => /\ requests[i].key # NoKey
                             /\ \E j \in Effective : /\ requests[j].key = requests[i].key
                                                     /\ requests[j].step = requests[i].step
    BY DEF Fates, Known
  <1>10. fate = "replayed" => ~plan[requests[i].step].fresh
    <2> SUFFICES ASSUME fate = "replayed", plan[requests[i].step].fresh PROVE FALSE
      OBVIOUS
    <2>1. PICK j \in DOMAIN requests : /\ requests[j].fate = "done"
                                      /\ requests[j].key = requests[i].key
                                      /\ requests[j].step = requests[i].step
      BY <1>9 DEF Effective
    <2>2. /\ requests[i].key = <<"minted", requests[i].call>>
          /\ requests[j].key = <<"minted", requests[j].call>>
      BY <1>9, <2>1 DEF KeysKept, KeyOf
    <2>3. requests[i].call = requests[j].call
      BY <2>1, <2>2
    <2> QED
      BY <1>2, <2>1, <2>3 DEF OncePerStep
  <1>11. KeysKept'
    <2> SUFFICES ASSUME NEW j \in DOMAIN requests
                 PROVE  /\ requests'[j].key = KeyOf(plan[requests[j].step], requests[j].call, given.key)
                        /\ requests'[j].fate = "replayed" =>
                             ~plan[requests[j].step].fresh /\ requests'[j].key # NoKey
      BY <1>2, <1>4, <1>5 DEF KeysKept
    <2>1. /\ requests'[j].key = requests[j].key
          /\ requests[j].key = KeyOf(plan[requests[j].step], requests[j].call, given.key)
      BY <1>5 DEF KeysKept
    <2>2. CASE j = i
      BY <1>5, <1>9, <1>10, <2>1, <2>2
    <2>3. CASE j # i
      BY <1>5, <2>1, <2>3 DEF KeysKept
    <2> QED
      BY <2>1, <2>2, <2>3
  <1>12. Progress'
    <2>1. Settled \subseteq Settled'
      BY <1>2, <1>4, <1>5, SettledStays DEF Grows
    <2> QED
      BY <1>2, <1>4, <1>5, <2>1 DEF Progress, Running
  <1>13. Once'
    <2> SUFFICES ASSUME given.key PROVE Once'
      BY <1>2 DEF Once
    <2>1. Len(plan) = 1 /\ plan[1].kind.key # "none" /\ plan[1].fresh = FALSE
      BY DEF Once
    <2>2. \A j \in DOMAIN requests : requests[j].step = 1 /\ requests[j].key = <<"given", 0>>
      <3>1. \A j \in DOMAIN requests : requests[j].step = 1
        BY <2>1, PlanShape DEF Counted, Typed
      <3> QED
        BY <2>1, <3>1 DEF KeysKept, KeyOf
    <2>3. fate = "done" /\ plan[1].kind.key # "unread" => Effective = {}
      <3>1. <<"given", 0>> # NoKey
        BY DEF NoKey
      <3>2. \A j \in Effective : /\ requests[j].key = requests[i].key
                                 /\ requests[j].step = requests[i].step
        BY <2>2 DEF Effective
      <3>3. Effective # {} /\ plan[1].kind.key # "unread" => Fates(requests[i]) = {"replayed"}
        BY <2>2, <3>1, <3>2 DEF Fates, Known
      <3> QED
        BY <3>3
    <2>4. \A j \in Effective' : j \in Effective \/ (j = i /\ fate = "done")
      BY <1>4, <1>5 DEF Effective
    <2>5. KeyedOnce'
      BY <1>2, <2>3, <2>4 DEF KeyedOnce, Once
    <2> QED
      BY <1>2, <2>1, <2>5 DEF Once
  <1>14. RejectedOrMisread'
    BY <1>2, <1>4, <1>5 DEF RejectedOrMisread, NotLanded, SentBy
  <1> QED
    BY <1>6, <1>7, <1>8, <1>11, <1>12, <1>13, <1>14

\* A name that others take changes the fate of no request.
LEMMA CreatedElsewhereKeeps ==
    ASSUME IInv, NEW name \in {"tenant", "client"}, CreatedElsewhere(name)
    PROVE  IInv'
  <1>1. /\ plan' = plan /\ given' = given /\ phase' = phase /\ step' = step
        /\ requests' = requests /\ results' = results /\ recorder' = recorder
        /\ others' = others \union {name}
    <2>1. UNCHANGED <<plan, given, phase, step, requests, results, recorder>>
      BY DEF CreatedElsewhere
    <2> QED
      BY <2>1 DEF CreatedElsewhere
  <1>2. Typed'
    BY <1>1 DEF IInv, Typed
  <1>3. Counted' /\ OncePerStep'
    BY <1>1 DEF IInv, Counted, OncePerStep, Running
  <1>4. KeysKept' /\ Once' /\ RejectedOrMisread'
    BY <1>1 DEF IInv, KeysKept, KeyOf, Once, KeyedOnce, Effective, RejectedOrMisread, NotLanded, SentBy
  <1>5. Progress'
    BY <1>1 DEF IInv, Progress, Settled, Running
  <1> QED
    BY <1>2, <1>3, <1>4, <1>5 DEF IInv

-----------------------------------------------------------------------------
(***************************************************************************)
(* An answer, or none, ends a step.                                        *)
(***************************************************************************)
LEMMA RawPlan ==
    ASSUME NEW p \in Plans, p[1].route = RawUpload
    PROVE  Len(p) = 1
  <1>1. RawUpload.mayLand = TRUE /\ Admin.mayLand = FALSE
    BY DEF RawUpload, NonAdmin, Admin, Route
  <1>2. \A s \in SetupSteps : s.route = Admin
    <2>1. CreateTenant.route = Admin /\ CreateClient.route = Admin /\ Step(Admin, Write).route = Admin
      BY DEF CreateTenant, CreateClient, Step
    <2> QED
      BY <2>1 DEF SetupSteps
  <1>3. CASE /\ p[Len(p)] = CreateClient
             /\ \A s \in 1 .. Len(p) - 1 : p[s] \in {CreateTenant, Step(Admin, Write)}
    <2>1. 1 \in 1 .. Len(p) - 1 \/ 1 = Len(p)
      <3>1. Len(p) \in Nat \ {0}
        BY PlanShape
      <3>2. \A m \in Nat \ {0} : 1 \in 1 .. m - 1 \/ 1 = m
        OBVIOUS
      <3> QED
        BY <3>1, <3>2
    <2>2. p[1] \in SetupSteps
      BY <1>3, <2>1 DEF SetupSteps
    <2> QED
      BY <1>1, <1>2, <2>2
  <1> QED
    BY <1>3, PlanShape

\* The end of a step, with a result that is true of its request.
LEMMA EndsKeeps ==
    ASSUME IInv, phase = "waiting", NEW r \in ResultSet, Ends(r),
           r.reported \in {NoId, Len(requests)}, r.recorded \in {NoId, Len(requests)},
           r.error \in {"nil", "conflict", "error", "unknown"},
           r.error = "nil" => requests[Len(requests)].fate \in {"done", "replayed"},
           r.error = "conflict" => requests[Len(requests)].fate = "clash",
           r.error = "error" => \/ requests[Len(requests)].fate = "refused"
                                \/ r.status = "inconclusive"
                                \/ ~plan[step].route.mayLand
    PROVE  IInv'
  <1> USE DEF IInv
  <1> DEFINE n    == Len(requests)
             on   == Advances(plan[step], r.error)
             more == on /\ step < Len(plan)
             q    == IF on THEN [r EXCEPT !.error = "nil"] ELSE r
  <1>1. /\ phase' = IF more THEN "ready" ELSE "idle"
        /\ step' = IF more THEN step + 1 ELSE 0
        /\ results' = IF more THEN results ELSE [results EXCEPT ![Running] = q]
        /\ recorder' \in {recorder, n} /\ (recorder' = n => r.recorded = n \/ recorder = n)
        /\ plan' = plan /\ given' = given /\ requests' = requests /\ others' = others
    <2>1. UNCHANGED <<plan, given, requests, others>>
      BY DEF Ends
    <2> QED
      BY <2>1 DEF Ends
  <1>2. /\ Len(plan) \in Nat \ {0} /\ DOMAIN plan = 1 .. Len(plan)
        /\ step \in 1 .. Len(plan) /\ step \in Nat
    BY PlanShape DEF Typed
  <1>3. /\ n \in DOMAIN requests /\ n \in Nat /\ n >= 1
        /\ requests[n].call = Running /\ requests[n].step = step
        /\ \A i \in DOMAIN requests : requests[i].call = Running => requests[i].step <= step
        /\ Running \in DOMAIN results /\ Running \in Nat
    BY DEF Typed, OncePerStep, Counted, Running
  <1>4. q \in ResultSet /\ q.reported \in 0 .. n
    <2>1. r.reported \in 0 .. n
      BY <1>3 DEF NoId
    <2> QED
      BY <2>1 DEF ResultSet, ErrorSet
  <1>5. q.error = "nil" => on
    BY DEF Advances
  <1>6. on => <<Running, step>> \in Settled
    <2> SUFFICES ASSUME on PROVE Settles(plan[step], requests[n].fate)
      BY <1>3 DEF Settled
    <2>1. CASE r.error = "nil"
      <3>1. requests[n].fate = "replayed" => ~plan[step].fresh
        BY <1>3 DEF KeysKept
      <3> QED
        BY <2>1, <3>1 DEF Settles
    <2>2. CASE r.error = "conflict" /\ plan[step].tolerant
      BY <2>2 DEF Settles
    <2> QED
      BY <2>1, <2>2 DEF Advances
  <1>7. /\ ~more => /\ results' \in Seq(ResultSet) /\ Len(results') = Len(results)
                    /\ DOMAIN results' = DOMAIN results /\ results'[Running] = q
                    /\ \A c \in DOMAIN results : c # Running => results'[c] = results[c]
        /\ more => results' = results
    <2> HIDE DEF q, more
    <2> QED
      BY <1>1, <1>3, <1>4 DEF Typed
  <1>8. Running' = Running /\ Settled' = Settled
    BY <1>1, <1>7 DEF Running, Settled
  <1> HIDE DEF q, on
  <1>9. Typed'
    <2>1. results' \in Seq(ResultSet) /\ Len(results') <= Attempts
      BY <1>7 DEF Typed
    <2>2. recorder' \in 0 .. n
      BY <1>1, <1>3 DEF Typed
    <2>3. step' \in 0 .. Len(plan) /\ (step' = 0) = (phase' = "idle")
      <3>1. CASE more
        BY <1>1, <1>2, <3>1
      <3>2. CASE ~more
        BY <1>1, <1>2, <3>2
      <3> QED
        BY <3>1, <3>2
    <2> QED
      BY <1>1, <2>1, <2>2, <2>3 DEF Typed
  <1>10. Counted'
    <2>1. CASE more
      BY <1>1, <1>7, <1>8, <2>1 DEF Counted
    <2>2. CASE ~more
      BY <1>1, <1>4, <1>7, <1>8, <2>2 DEF Counted
    <2> QED
      BY <2>1, <2>2
  <1>11. OncePerStep'
    <2>1. CASE more
      <3>1. \A i \in DOMAIN requests : requests[i].step \in Nat
        BY StepsAreNumbers
      <3>2. \A i \in DOMAIN requests : requests[i].call = Running => requests[i].step < step + 1
        BY <1>2, <1>3, <3>1
      <3> QED
        BY <1>1, <1>8, <2>1, <3>2 DEF OncePerStep
    <2>2. CASE ~more
      BY <1>1, <2>2 DEF OncePerStep
    <2> QED
      BY <2>1, <2>2
  <1>12. KeysKept'
    BY <1>1 DEF KeysKept
  <1>13. Progress'
    <2>1. on => \A s \in 1 .. step : <<Running, s>> \in Settled
      <3>1. \A s \in 1 .. step - 1 : <<Running, s>> \in Settled
        BY DEF Progress
      <3>2. \A s \in 1 .. step : s \in 1 .. step - 1 \/ s = step
        BY <1>2
      <3> QED
        BY <1>6, <3>1, <3>2
    <2>2. CASE more
      <3>1. (step + 1) - 1 = step
        BY <1>2
      <3> QED
        BY <1>1, <1>7, <1>8, <2>1, <2>2, <3>1 DEF Progress
    <2>3. CASE ~more
      <3>1. q.error = "nil" => \A s \in DOMAIN plan : <<Running, s>> \in Settled
        <4>1. q.error = "nil" => step = Len(plan)
          BY <1>2, <1>5, <2>3
        <4> QED
          BY <1>2, <1>5, <2>1, <4>1
      <3> QED
        BY <1>1, <1>7, <1>8, <2>3, <3>1 DEF Progress
    <2> QED
      BY <2>2, <2>3
  <1>14. Once'
    BY <1>1 DEF Once, KeyedOnce, Effective
  <1>15. RejectedOrMisread'
    <2> SUFFICES ASSUME plan[1].route = RawUpload, ~more PROVE RejectedOrMisread'
      BY <1>1, <1>7 DEF RejectedOrMisread, NotLanded, SentBy
    <2>1. step = 1 /\ plan[step].route.mayLand = TRUE
      <3>1. Len(plan) = 1
        BY RawPlan DEF Typed
      <3>2. RawUpload.mayLand = TRUE
        BY DEF RawUpload, NonAdmin, Route
      <3> QED
        BY <1>2, <3>1, <3>2
    <2>2. \A i \in SentBy(Running, 1) : i = n
      BY <1>3, <2>1 DEF SentBy, OncePerStep
    <2>3. q.error \in {"error", "conflict"} =>
            requests[n].fate \in {"refused", "clash"} \/ q.status = "inconclusive"
      <3>1. q.error \in {"error", "conflict"} => q = r
        BY DEF q, ResultSet
      <3> QED
        BY <2>1, <3>1
    <2> QED
      BY <1>1, <1>7, <2>2, <2>3 DEF RejectedOrMisread, NotLanded, SentBy
  <1> QED
    BY <1>9, <1>10, <1>11, <1>12, <1>13, <1>14, <1>15

\* What the fate of a request allows the server to answer.
LEMMA FateOfStatus ==
    ASSUME NEW fate \in FateSet, NEW status \in StatusesOf(fate)
    PROVE  /\ status \in Statuses
           /\ status = "success" => fate \in {"done", "replayed"}
           /\ status = "conflict" => fate = "clash"
           /\ status = "refused" => fate = "refused"
  <1>1. CASE fate \in {"done", "replayed"}
    BY <1>1 DEF StatusesOf, Decided, Statuses
  <1>2. CASE fate = "clash"
    BY <1>2 DEF StatusesOf, Decided, Statuses
  <1>3. CASE fate = "refused"
    BY <1>3 DEF StatusesOf, Decided, Statuses
  <1>4. CASE fate = "sent"
    BY <1>4 DEF StatusesOf, Decided, Statuses
  <1> QED
    BY <1>1, <1>2, <1>3, <1>4 DEF FateSet

\* An answer ends a step with a result that is true of its request.
LEMMA ReplyKeeps == IInv /\ Reply => IInv'
  <1> SUFFICES ASSUME IInv, Reply PROVE IInv'
    OBVIOUS
  <1> DEFINE id == Len(requests)
  <1>1. phase = "waiting" /\ id \in Nat /\ id \in DOMAIN requests /\ requests[id] \in RequestSet
    BY DEF Reply, IInv, OncePerStep, Typed
  <1>2. PICK status \in StatusesOf(requests[id].fate) : \E body \in BodiesOf(status) :
          \E r \in Results(plan[step].route, plan[step].kind.decode, status, body, id) : Ends(r)
    BY DEF Reply
  <1> PICK body \in BodiesOf(status) :
          \E r \in Results(plan[step].route, plan[step].kind.decode, status, body, id) : Ends(r)
    BY <1>2
  <1>3. PICK r \in Results(plan[step].route, plan[step].kind.decode, status, body, id) : Ends(r)
    BY <1>2
  <1>4. requests[id].fate \in FateSet
    BY <1>1 DEF RequestSet
  <1>5. /\ status \in Statuses
        /\ status = "success" => requests[id].fate \in {"done", "replayed"}
        /\ status = "conflict" => requests[id].fate = "clash"
        /\ status = "refused" => requests[id].fate = "refused"
    BY <1>2, <1>4, FateOfStatus
  <1>6. body \in Bodies
    BY <1>2 DEF BodiesOf
  <1>7. /\ r \in ResultSet /\ r.reported \in {NoId, id} /\ r.recorded \in {NoId, id}
        /\ r.error \in {"nil", "conflict", "error", "unknown"}
        /\ r.error = "nil" => status = "success"
        /\ r.error = "conflict" => status = "conflict"
        /\ r.error = "error" => status \in {"refused", "inconclusive"} \/ ~plan[step].route.mayLand
        /\ r.status = status
    BY <1>1, <1>3, <1>5, <1>6, ResultShape
  <1> QED
    BY <1>1, <1>3, <1>5, <1>7, EndsKeeps

\* So does no answer at all.
LEMMA NoReplyKeeps == IInv /\ NoReply => IInv'
  <1> SUFFICES ASSUME IInv, NoReply PROVE IInv'
    OBVIOUS
  <1> DEFINE r == Unanswered(plan[step].route)
  <1>1. phase = "waiting" /\ Ends(r)
    BY DEF NoReply
  <1>2. /\ r \in ResultSet /\ r.reported = NoId /\ r.recorded = NoId
        /\ r.error \in {"error", "unknown"}
        /\ r.error = "error" => ~plan[step].route.mayLand
    BY UnansweredShape
  <1> HIDE DEF r
  <1> QED
    BY <1>1, <1>2, EndsKeeps

-----------------------------------------------------------------------------
\* The invariant is inductive.
LEMMA NextKeeps == IInv /\ [Next]_vars => IInv'
  <1> SUFFICES ASSUME IInv, [Next]_vars PROVE IInv'
    OBVIOUS
  <1>1. CASE UNCHANGED vars
    <2>1. /\ plan' = plan /\ given' = given /\ phase' = phase /\ step' = step
          /\ requests' = requests /\ results' = results /\ recorder' = recorder
          /\ others' = others
      BY <1>1 DEF vars
    <2>2. Typed' /\ Counted' /\ OncePerStep' /\ KeysKept'
      BY <2>1 DEF IInv, Typed, Counted, OncePerStep, KeysKept, Running
    <2>3. Progress' /\ Once' /\ RejectedOrMisread'
      BY <2>1 DEF IInv, Progress, Settled, Running, Once, KeyedOnce, Effective,
                  RejectedOrMisread, NotLanded, SentBy
    <2> QED
      BY <2>2, <2>3 DEF IInv
  <1>2. CASE Call
    BY <1>2, CallKeeps
  <1>3. CASE Send
    BY <1>3, SendKeeps
  <1>4. CASE Reply
    BY <1>4, ReplyKeeps
  <1>5. CASE NoReply
    BY <1>5, NoReplyKeeps
  <1>6. CASE \E i \in DOMAIN requests : Serve(i)
    BY <1>6, ServeKeeps
  <1>7. CASE \E name \in {"tenant", "client"} : CreatedElsewhere(name)
    BY <1>7, CreatedElsewhereKeeps
  <1> QED
    BY <1>1, <1>2, <1>3, <1>4, <1>5, <1>6, <1>7 DEF Next

\* The conjunction of facts behind the theorems below.
THEOREM AdminInvariant == Spec => []IInv
  BY InitInv, NextKeeps, PTL DEF Spec

-----------------------------------------------------------------------------
(***************************************************************************)
(* What follows.                                                           *)
(***************************************************************************)
LEMMA SettledSent ==
    ASSUME NEW c, NEW s, <<c, s>> \in Settled
    PROVE  \E i \in SentBy(c, s) : Settles(plan[s], requests[i].fate)
  BY DEF Settled, SentBy

\* The invariant has the types.
LEMMA InvTypes == IInv => TypeOK
  <1> SUFFICES ASSUME IInv PROVE TypeOK
    OBVIOUS
  <1>1. \A i \in DOMAIN requests : requests[i].fate \in FateSet
    <2> SUFFICES ASSUME NEW i \in DOMAIN requests PROVE requests[i].fate \in FateSet
      OBVIOUS
    <2>1. requests[i] \in RequestSet
      BY DEF IInv, Typed
    <2> QED
      BY <2>1 DEF RequestSet
  <1>2. DOMAIN results = 1 .. Running /\ Running \in 0 .. Attempts
    BY AttemptsAssumption DEF IInv, Typed, Running
  <1> QED
    BY <1>1, <1>2 DEF IInv, Typed, Counted, TypeOK, FateSet

\* Every variable keeps its type, for any number of calls and of schemas: a
\* result and the recorder name only requests that were sent (recordMetadata).
THEOREM AdminTypeCorrect == Spec => []TypeOK
  BY AdminInvariant, InvTypes, PTL

\* A method whose route reads the key it was given takes effect at most once,
\* however often it is called with it and however late its requests arrive.
THEOREM KeyedEffectsOnce == Spec => []KeyedOnce
  <1>1. IInv => KeyedOnce
    BY DEF IInv, Once, KeyedOnce
  <1> QED
    BY <1>1, AdminInvariant, PTL

\* IngestRawLines' plain error means an upload that did not land and never will,
\* with one exception: a status that checkRawStatus takes for a rejection since
\* RetryOnStatuses does not name it.  An answer that was lost, cut, unusable or
\* retryable always becomes RawAcceptanceUnknownError.
THEOREM RawErrorsExplained == Spec => []RejectedOrMisread
  <1>1. IInv => RejectedOrMisread
    BY DEF IInv
  <1> QED
    BY <1>1, AdminInvariant, PTL

\* A nil error means that every request of the plan was taken, and that
\* SetupProducer's client is the one its own call created.
THEOREM NilIsDone == Spec => []NilMeansDone
  <1>1. IInv => NilMeansDone
    <2> SUFFICES ASSUME IInv, NEW c \in DOMAIN results, results[c].error = "nil",
                        NEW s \in DOMAIN plan
                 PROVE  \E i \in SentBy(c, s) : Settles(plan[s], requests[i].fate)
      BY DEF NilMeansDone, Settles
    <2>1. <<c, s>> \in Settled
      BY DEF IInv, Progress
    <2> QED
      BY <2>1, SettledSent
  <1> QED
    BY <1>1, AdminInvariant, PTL

\* SetupProducer's client takes effect only after its tenant and schemas.
THEOREM ClientIsLast == Spec => []ClientComesLast
  <1>1. IInv => ClientComesLast
    <2> SUFFICES ASSUME IInv, NEW i \in Effective, plan[requests[i].step].name = "client",
                        NEW s \in DOMAIN plan \ {requests[i].step}
                 PROVE  \E j \in SentBy(requests[i].call, s) :
                          requests[j].fate \in {"done"} \union (IF plan[s].tolerant THEN {"clash"} ELSE {})
      BY DEF ClientComesLast
    <2>1. i \in DOMAIN requests /\ requests[i].step \in DOMAIN plan
      BY DEF Effective, IInv, Counted
    <2>2. /\ Len(plan) \in Nat \ {0} /\ DOMAIN plan = 1 .. Len(plan)
          /\ \A k \in 1 .. Len(plan) - 1 : plan[k] \in {CreateTenant, Step(Admin, Write)}
          /\ requests[i].step = Len(plan)
      <3>1. plan \in Plans
        BY DEF IInv, Typed
      <3>2. Len(plan) \in Nat \ {0} /\ DOMAIN plan = 1 .. Len(plan)
        BY <3>1, PlanShape
      <3>3. CASE Len(plan) = 1 /\ plan[1].name = "none"
        BY <2>1, <3>2, <3>3
      <3>4. CASE \A k \in 1 .. Len(plan) - 1 : plan[k] \in {CreateTenant, Step(Admin, Write)}
        <4>1. requests[i].step \notin 1 .. Len(plan) - 1
          BY <3>4, SetupStepKinds
        <4> QED
          BY <2>1, <3>2, <3>4, <4>1
      <3> QED
        BY <3>1, <3>2, <3>3, <3>4, PlanShape
    <2>3. s \in 1 .. requests[i].step - 1
      BY <2>2
    <2>4. PICK j \in SentBy(requests[i].call, s) : Settles(plan[s], requests[j].fate)
      <3>1. <<requests[i].call, s>> \in Settled
        BY <2>1, <2>3 DEF IInv, Progress
      <3> QED
        BY <3>1, SettledSent
    <2>5. plan[s].fresh = FALSE /\ plan[s].kind.key = "none"
      BY <2>2, <2>3, SetupStepKinds
    <2>6. requests[j].fate # "replayed"
      BY <2>5 DEF IInv, KeysKept, KeyOf, SentBy
    <2> QED
      BY <2>4, <2>6 DEF Settles
  <1> QED
    BY <1>1, AdminInvariant, PTL
-----------------------------------------------------------------------------
(***************************************************************************)
(* Quoting a refusal.  The last request of a call stays its last request   *)
(* once the call is over, and the recorder is left alone until the next.   *)
(***************************************************************************)
ReadRefusal(r) == r.error \in {"error", "conflict"} /\ r.kept \notin {"none", "unreadable"}

IsLast(n, c) ==
    /\ n \in DOMAIN requests /\ requests[n].call = c
    /\ \A j \in DOMAIN requests : requests[j].call = c => j <= n

Quotable(c, n) ==
    /\ plan[1].route.returns = "answers" => results[c].reported = n
    /\ plan[1].route.records = "answers" /\ c = Running => recorder = n

Quoted(c) == ReadRefusal(results[c]) => \E n \in Nat : IsLast(n, c) /\ Quotable(c, n)

QuoteInv == \A c \in DOMAIN results : Quoted(c)

\* Every request of a call takes one route.
LEMMA OneRoute == ASSUME NEW p \in Plans, NEW s \in DOMAIN p PROVE p[s].route = p[1].route
  <1>1. /\ Len(p) \in Nat \ {0} /\ s \in 1 .. Len(p) /\ 1 \in 1 .. Len(p)
    BY PlanShape
  <1>2. CASE Len(p) = 1
    BY <1>1, <1>2
  <1>3. CASE /\ p[Len(p)] = CreateClient
             /\ \A k \in 1 .. Len(p) - 1 : p[k] \in {CreateTenant, Step(Admin, Write)}
    <2>1. CreateTenant.route = Admin /\ CreateClient.route = Admin /\ Step(Admin, Write).route = Admin
      BY DEF CreateTenant, CreateClient, Step
    <2>2. \A k \in 1 .. Len(p) : k = Len(p) \/ k \in 1 .. Len(p) - 1
      BY <1>1
    <2>3. \A k \in 1 .. Len(p) : p[k].route = Admin
      BY <1>3, <2>1, <2>2
    <2> QED
      BY <1>1, <2>3
  <1> QED
    BY <1>2, <1>3, PlanShape

\* Steps that end no call leave what can be quoted as it is: a request that is
\* sent belongs to the running call, which has no result yet.
LEMMA QuotesStay ==
    ASSUME Typed, QuoteInv, plan' = plan, results' = results, recorder' = recorder,
           DOMAIN requests \subseteq DOMAIN requests',
           \A j \in DOMAIN requests : requests'[j].call = requests[j].call,
           \A j \in DOMAIN requests' \ DOMAIN requests :
              requests'[j].call = Running /\ results[Running].error = "running"
    PROVE  QuoteInv'
  <1> SUFFICES ASSUME NEW c \in DOMAIN results, ReadRefusal(results[c])
               PROVE  \E n \in Nat : IsLast(n, c)' /\ Quotable(c, n)'
    BY DEF QuoteInv, Quoted, ReadRefusal
  <1>1. PICK n \in Nat : IsLast(n, c) /\ Quotable(c, n)
    BY DEF QuoteInv, Quoted
  <1>2. \A j \in DOMAIN requests' \ DOMAIN requests : requests'[j].call # c
    BY DEF ReadRefusal
  <1>3. IsLast(n, c)'
    BY <1>1, <1>2 DEF IsLast
  <1>4. Quotable(c, n)'
    BY <1>1 DEF Quotable, Running
  <1> QED
    BY <1>3, <1>4

\* A new call leaves the refusals of earlier calls quotable.
LEMMA CallQuotes == IInv /\ QuoteInv /\ Call => QuoteInv'
  <1> SUFFICES ASSUME IInv, QuoteInv, Call PROVE QuoteInv'
    OBVIOUS
  <1>1. /\ plan' = plan /\ requests' = requests /\ recorder' = recorder
        /\ \E r \in {Pending, [Pending EXCEPT !.error = "local"]} : results' = Append(results, r)
    BY DEF Call
  <1>2. PICK r \in {Pending, [Pending EXCEPT !.error = "local"]} : results' = Append(results, r)
    BY <1>1
  <1>3. ~ReadRefusal(r)
    BY <1>2 DEF Pending, ReadRefusal
  <1>4. results \in Seq(ResultSet) /\ r \in ResultSet
    BY <1>2 DEF IInv, Typed, Pending, ResultSet, ErrorSet, StatusSet, KeptSet, NoId
  <1>5. /\ Running \in Nat /\ Running' = Running + 1
        /\ DOMAIN results = 1 .. Running /\ DOMAIN results' = 1 .. Running'
        /\ results'[Running'] = r
        /\ \A c \in DOMAIN results : results'[c] = results[c]
    BY <1>2, <1>4 DEF Running
  <1> SUFFICES ASSUME NEW c \in DOMAIN results', ReadRefusal(results'[c])
               PROVE  \E n \in Nat : IsLast(n, c)' /\ Quotable(c, n)'
    BY DEF QuoteInv, Quoted, ReadRefusal
  <1>6. c \in DOMAIN results /\ c # Running' /\ results'[c] = results[c]
    BY <1>3, <1>5
  <1>7. PICK n \in Nat : IsLast(n, c) /\ Quotable(c, n)
    BY <1>6 DEF QuoteInv, Quoted
  <1>8. IsLast(n, c)'
    BY <1>1, <1>7 DEF IsLast
  <1>9. Quotable(c, n)'
    BY <1>1, <1>6, <1>7 DEF Quotable
  <1> QED
    BY <1>8, <1>9

\* The call that ends quotes its last request, if its result is a refusal that was read.
LEMMA EndsQuotes ==
    ASSUME IInv, QuoteInv, phase = "waiting", NEW r \in ResultSet, Ends(r),
           ReadRefusal(r) => /\ plan[step].route.returns = "answers" => r.reported = Len(requests)
                             /\ plan[step].route.records = "answers" => r.recorded = Len(requests)
    PROVE  QuoteInv'
  <1> DEFINE on   == Advances(plan[step], r.error)
             more == on /\ step < Len(plan)
             q    == IF on THEN [r EXCEPT !.error = "nil"] ELSE r
  <1>1. /\ plan' = plan /\ requests' = requests
        /\ recorder' = (IF r.recorded # NoId THEN r.recorded ELSE recorder)
        /\ results' = (IF more THEN results ELSE [results EXCEPT ![Running] = q])
    BY DEF Ends
  <1>2. /\ results \in Seq(ResultSet) /\ Running \in DOMAIN results /\ Running \in Nat
        /\ results[Running].error = "running"
    BY DEF IInv, Typed, Counted, Running
  <1>n. PICK n \in Nat : n = Len(requests)
    BY DEF IInv, Typed
  <1>last. n # NoId /\ requests[n].call = Running /\ DOMAIN requests = 1 .. n
    BY <1>n DEF IInv, Typed, OncePerStep, NoId
  <1>3. plan[step].route = plan[1].route
    <2>1. plan \in Plans /\ DOMAIN plan = 1 .. Len(plan) /\ Len(plan) \in Nat \ {0}
      BY PlanShape DEF IInv, Typed
    <2>2. step \in DOMAIN plan
      BY <2>1 DEF IInv, Typed
    <2> QED
      BY <2>1, <2>2, OneRoute
  <1>4. ReadRefusal(q) => q = r
    BY DEF ReadRefusal
  <1> HIDE DEF q, more
  <1>5. /\ Running' = Running /\ DOMAIN results' = DOMAIN results
        /\ \A c \in DOMAIN results : c # Running => results'[c] = results[c]
        /\ results'[Running] \in {results[Running], q}
    <2>1. CASE more
      BY <1>1, <1>2, <2>1 DEF Running
    <2>2. CASE ~more
      BY <1>1, <1>2, <2>2 DEF Running
    <2> QED
      BY <2>1, <2>2
  <1> SUFFICES ASSUME NEW c \in DOMAIN results, ReadRefusal(results'[c])
               PROVE  \E m \in Nat : IsLast(m, c)' /\ Quotable(c, m)'
    BY <1>5 DEF QuoteInv, Quoted, ReadRefusal
  <1>6. CASE c # Running
    <2>1. PICK m \in Nat : IsLast(m, c) /\ Quotable(c, m)
      BY <1>5, <1>6 DEF QuoteInv, Quoted
    <2>2. IsLast(m, c)'
      BY <1>1, <2>1 DEF IsLast
    <2>3. Quotable(c, m)'
      BY <1>1, <1>5, <1>6, <2>1 DEF Quotable
    <2> QED
      BY <2>2, <2>3
  <1>7. CASE c = Running
    <2>1. results'[Running] = r /\ ReadRefusal(r)
      BY <1>2, <1>4, <1>5, <1>7 DEF ReadRefusal
    <2>2. IsLast(n, c)'
      BY <1>1, <1>last, <1>7 DEF IsLast, NoId
    <2>3. Quotable(c, n)'
      BY <1>1, <1>3, <1>n, <1>last, <1>7, <2>1 DEF Quotable
    <2> QED
      BY <2>2, <2>3
  <1> QED
    BY <1>6, <1>7

\* A refusal that was read is quotable at once.
LEMMA ReplyQuotes == IInv /\ QuoteInv /\ Reply => QuoteInv'
  <1> SUFFICES ASSUME IInv, QuoteInv, Reply PROVE QuoteInv'
    OBVIOUS
  <1> DEFINE id == Len(requests)
             route == plan[step].route
             decode == plan[step].kind.decode
  <1>1. phase = "waiting" /\ id \in Nat /\ id \in DOMAIN requests /\ requests[id] \in RequestSet
    BY DEF Reply, IInv, OncePerStep, Typed
  <1>2. PICK status \in StatusesOf(requests[id].fate) : \E body \in BodiesOf(status) :
          \E r \in Results(route, decode, status, body, id) : Ends(r)
    BY DEF Reply
  <1> PICK body \in BodiesOf(status) :
          \E r \in Results(route, decode, status, body, id) : Ends(r)
    BY <1>2
  <1>3. PICK r \in Results(route, decode, status, body, id) : Ends(r)
    BY <1>2
  <1>4. status \in Statuses /\ body \in Bodies
    <2>1. requests[id].fate \in FateSet
      BY <1>1 DEF RequestSet
    <2> QED
      BY <1>2, <2>1, FateOfStatus DEF BodiesOf
  <1>5. r \in ResultSet
    BY <1>1, <1>3, <1>4, ResultShape
  <1>6. ReadRefusal(r) => /\ route.returns = "answers" => r.reported = id
                          /\ route.records = "answers" => r.recorded = id
    <2> HIDE DEF id, route, decode
    <2>1. PICK read \in BodyRead(route, body) :
            r = [error    |-> Verdict(route, decode, status, read),
                 status   |-> status,
                 reported |-> IF Identified(route.returns, status, read) THEN id ELSE NoId,
                 recorded |-> IF Identified(route.records, status, read) THEN id ELSE NoId,
                 kept     |-> read]
      BY <1>3 DEF Results
    <2>2. r.kept = read
      BY <2>1
    <2>3. read # "unreadable" => \A when : when = "answers" => Identified(when, status, read)
      BY DEF Identified
    <2> QED
      BY <2>1, <2>2, <2>3 DEF ReadRefusal
  <1> QED
    BY <1>1, <1>3, <1>5, <1>6, EndsQuotes

\* Every step keeps the refusals quotable.
LEMMA NextQuotes == IInv /\ QuoteInv /\ [Next]_vars => QuoteInv'
  <1> SUFFICES ASSUME IInv, QuoteInv, [Next]_vars PROVE QuoteInv'
    OBVIOUS
  <1>types. Typed /\ Counted
    BY DEF IInv
  <1>1. CASE UNCHANGED vars
    BY <1>1, <1>types, QuotesStay DEF vars
  <1>2. CASE Call
    BY <1>2, CallQuotes
  <1>3. CASE Send
    <2>1. plan' = plan /\ results' = results /\ recorder' = recorder /\ phase = "ready"
      BY <1>3 DEF Send
    <2>2. PICK r : r.call = Running /\ requests' = Append(requests, r)
      BY <1>3 DEF Send
    <2>3. requests \in Seq(RequestSet) /\ results[Running].error = "running"
      BY <1>types, <2>1 DEF Typed, Counted
    <2>4. /\ DOMAIN requests \subseteq DOMAIN requests'
          /\ \A j \in DOMAIN requests : requests'[j] = requests[j]
          /\ \A j \in DOMAIN requests' \ DOMAIN requests : requests'[j] = r
      BY <2>2, <2>3
    <2> QED
      BY <1>types, <2>1, <2>2, <2>3, <2>4, QuotesStay
  <1>4. CASE Reply
    BY <1>4, ReplyQuotes
  <1>5. CASE NoReply
    <2> DEFINE r == Unanswered(plan[step].route)
    <2>1. phase = "waiting" /\ Ends(r)
      BY <1>5 DEF NoReply
    <2>2. r \in ResultSet /\ r.kept = "none"
      BY UnansweredShape DEF Unanswered
    <2>3. ~ReadRefusal(r)
      BY <2>2 DEF ReadRefusal
    <2> HIDE DEF r
    <2> QED
      BY <2>1, <2>2, <2>3, EndsQuotes
  <1>6. CASE \E i \in DOMAIN requests : Serve(i)
    <2>1. PICK i \in DOMAIN requests : Serve(i)
      BY <1>6
    <2>2. plan' = plan /\ results' = results /\ recorder' = recorder
      BY <2>1 DEF Serve
    <2>3. PICK fate : requests' = [requests EXCEPT ![i].fate = fate]
      BY <2>1 DEF Serve
    <2>4. requests[i] \in RequestSet /\ requests \in Seq(RequestSet)
      BY <1>types, <2>1 DEF Typed
    <2>5. /\ DOMAIN requests' = DOMAIN requests
          /\ \A j \in DOMAIN requests : requests'[j].call = requests[j].call
      BY <2>3, <2>4 DEF RequestSet
    <2> QED
      BY <1>types, <2>2, <2>5, QuotesStay
  <1>7. CASE \E name \in {"tenant", "client"} : CreatedElsewhere(name)
    <2>1. plan' = plan /\ results' = results /\ recorder' = recorder /\ requests' = requests
      BY <1>7 DEF CreatedElsewhere
    <2> QED
      BY <1>types, <2>1, QuotesStay
  <1> QED
    BY <1>1, <1>2, <1>3, <1>4, <1>5, <1>6, <1>7 DEF Next

\* A refusal that was read can be quoted under its request's identifier, from
\* the result or the recorder, whichever the method fills (recordMetadata).
THEOREM RefusalsAreQuotable == Spec => []RefusalQuotable
  <1>1. Init => QuoteInv
    BY DEF Init, QuoteInv
  <1>2. IInv /\ QuoteInv => RefusalQuotable
    <2> SUFFICES ASSUME IInv, QuoteInv, NEW c \in DOMAIN results, ReadRefusal(results[c])
                 PROVE  Quotable(c, LastSent(c))
      BY DEF RefusalQuotable, ReadRefusal, Quotable
    <2>1. PICK n \in Nat : IsLast(n, c) /\ Quotable(c, n)
      BY DEF QuoteInv, Quoted
    <2>2. LastSent(c) = n
      <3>1. DOMAIN requests \subseteq Nat
        BY DEF IInv, Typed
      <3>2. \A i \in DOMAIN requests :
              requests[i].call = c /\ (\A j \in DOMAIN requests : requests[j].call = c => j <= i)
              => i = n
        BY <2>1, <3>1 DEF IsLast
      <3> QED
        BY <2>1, <3>2 DEF LastSent, IsLast
    <2> QED
      BY <2>1, <2>2
  <1> QED
    BY <1>1, <1>2, NextQuotes, AdminInvariant, PTL DEF Spec
=============================================================================
