-------------------------- MODULE RealmProvisionProofs --------------------------
(***************************************************************************)
(* Theorems about RealmProvision, for any number of calls, base keys and   *)
(* writes of other administrators.                                         *)
(***************************************************************************)
EXTENDS RealmProvisionProperties, TLAPS

\* A request names the revision that the step before it has recorded under the
\* same base key, or 0 if that was lost with an empty body.
Plausible(r) ==
  /\ r.step = "directory_enable" =>
       /\ Recorded(r.base, "apply") # 0
       /\ r.named \in {0, Recorded(r.base, "apply")}
  /\ r.step = "client_reconcile" =>
       /\ Recorded(r.base, "directory_enable") # 0
       /\ r.named \in {0, Recorded(r.base, "directory_enable")}

\* A call is at a step only when the steps before it are recorded, and what it
\* will name is plausible.
CallInv(p) ==
  /\ pc[p] \in {"directory_enable", "client_reconcile", "status"} =>
       Recorded(base[p], "apply") # 0
  /\ pc[p] \in {"client_reconcile", "status"} =>
       Recorded(base[p], "directory_enable") # 0
  /\ pc[p] = "status" => Recorded(base[p], "client_reconcile") # 0
  /\ pc[p] = "directory_enable" =>
       got[p]["apply"] \in {0, Recorded(base[p], "apply")}
  /\ pc[p] = "client_reconcile" =>
       got[p]["directory_enable"] \in {0, Recorded(base[p], "directory_enable")}

\* Adjacency is inductive only together with what the calls will name and what
\* the late requests name.
RevisionInv ==
  /\ TypeOK
  /\ ConsecutiveRevisions
  /\ \A p \in Callers : CallInv(p)
  /\ \A r \in late : Plausible(r)

-------------------------------------------------------------------------------
(* The service.                                                            *)

\* The state of the service moves on: revisions do not go back and a recorded
\* operation is never changed.
MovesOn ==
  /\ revision' \in Nat /\ revision <= revision'
  /\ observed' \in 0..revision'
  /\ recorded' \in [BaseKeys \X Writes -> 0..revision']
  /\ \A b \in BaseKeys : \A s \in Writes :
       Recorded(b, s) # 0 => Recorded(b, s)' = Recorded(b, s)

\* Serving a plausible request leaves its step recorded and keeps the steps of
\* every base key adjacent: a request for revision 0 cannot be served any more,
\* and one for a recorded revision only while that is the current one.
LEMMA ServeAdvances ==
  ASSUME TypeOK, ConsecutiveRevisions,
         NEW r \in Requests, Plausible(r), ~Conflict(r), Serve(r)
  PROVE  /\ MovesOn
         /\ Recorded(r.base, r.step)' # 0
         /\ ConsecutiveRevisions'
PROOF
<1> USE DEF Requests
<1>t. /\ revision \in Nat /\ observed \in 0..revision
      /\ recorded \in [BaseKeys \X Writes -> 0..revision]
      /\ \A b \in BaseKeys : \A s \in Writes : Recorded(b, s) \in 0..revision
  BY DEF TypeOK, Recorded
<1>1. CASE Known(r)
  <2>1. revision' = revision /\ observed' = observed /\ recorded' = recorded
    BY <1>1 DEF Serve, service
  <2>2. Recorded(r.base, r.step) # 0
    BY <1>1 DEF Known, KeyOf, Recorded
  <2>3. MovesOn
    BY <2>1, <1>t DEF MovesOn, Recorded
  <2>4. ConsecutiveRevisions'
    BY <2>1 DEF ConsecutiveRevisions, Adjacent, Recorded
  <2> QED BY <2>1, <2>2, <2>3, <2>4 DEF Recorded
<1>2. CASE ~Known(r)
  <2>1. /\ Write(r) /\ Recorded(r.base, r.step) = 0
    BY <1>2 DEF Serve, Known, KeyOf, Recorded
  <2>2. /\ r.named = revision
        /\ recorded' = [recorded EXCEPT ![<<r.base, r.step>>] = revision']
    BY <2>1 DEF Write, KeyOf
  <2>3. r.step # "apply" => revision # 0
    BY <1>t DEF Plausible, Writes
  <2>4. /\ revision' = IF r.step = "client_reconcile" THEN revision ELSE revision + 1
        /\ revision' \in Nat /\ revision <= revision' /\ revision' # 0
    <3>1. revision' = IF r.step = "client_reconcile" THEN revision ELSE revision + 1
      BY <2>1 DEF Write
    <3> QED BY <3>1, <2>3, <1>t
  <2>5. observed' \in 0..revision'
    <3>1. CASE r.step = "apply"
      <4>1. observed' \in {observed, revision'}
        BY <2>1, <3>1 DEF Write
      <4> QED BY <4>1, <2>4, <1>t
    <3>2. CASE r.step = "directory_enable"
      <4>1. observed' = observed
        BY <2>1, <3>2 DEF Write
      <4> QED BY <4>1, <2>4, <1>t
    <3>3. CASE r.step = "client_reconcile"
      <4>1. observed' \in {observed, revision}
        BY <2>1, <3>3 DEF Write, Observes
      <4> QED BY <4>1, <2>4, <1>t
    <3> QED BY <3>1, <3>2, <3>3 DEF Writes
  <2>6. recorded' \in [BaseKeys \X Writes -> 0..revision']
    BY <2>2, <2>4, <1>t
  <2>7. /\ Recorded(r.base, r.step)' = revision'
        /\ \A b \in BaseKeys : \A s \in Writes :
             (b # r.base \/ s # r.step) => Recorded(b, s)' = Recorded(b, s)
    BY <2>2, <1>t DEF Recorded
  <2>8. MovesOn
    BY <2>1, <2>4, <2>5, <2>6, <2>7 DEF MovesOn
  <2>9. ConsecutiveRevisions'
    <3> SUFFICES ASSUME NEW b \in BaseKeys  PROVE Adjacent(b)'
      BY DEF ConsecutiveRevisions
    <3>1. Adjacent(b)
      BY DEF ConsecutiveRevisions
    <3>2. CASE b # r.base
      BY <3>1, <3>2, <2>7 DEF Writes, Adjacent
    <3>3. CASE b = r.base /\ r.step = "apply"
      <4>1. Recorded(b, "directory_enable") = 0 /\ Recorded(b, "client_reconcile") = 0
        BY <3>1, <3>3, <2>1 DEF Adjacent
      <4> QED BY <4>1, <3>3, <2>7 DEF Writes, Adjacent
    <3>4. CASE b = r.base /\ r.step = "directory_enable"
      <4>1. Recorded(b, "client_reconcile") = 0
        BY <3>1, <3>4, <2>1 DEF Adjacent
      <4>2. Recorded(b, "apply") = revision /\ revision # 0
        BY <3>4, <2>2, <2>3 DEF Plausible
      <4> QED BY <4>1, <4>2, <3>4, <2>4, <2>7 DEF Writes, Adjacent
    <3>5. CASE b = r.base /\ r.step = "client_reconcile"
      <4>1. Recorded(b, "directory_enable") = revision /\ revision # 0
        BY <3>5, <2>2, <2>3 DEF Plausible
      <4> QED BY <4>1, <3>1, <3>5, <2>4, <2>7 DEF Writes, Adjacent
    <3> QED BY <3>2, <3>3, <3>4, <3>5 DEF Writes
  <2> QED BY <2>4, <2>7, <2>8, <2>9
<1> QED BY <1>1, <1>2

-------------------------------------------------------------------------------
(* The callers.                                                            *)

\* Nothing is recorded at first.
LEMMA InitRevisionInv == Init => RevisionInv
PROOF
<1> SUFFICES ASSUME Init  PROVE RevisionInv
  OBVIOUS
<1>1. TypeOK
  <2>1. /\ pc \in [Callers -> Steps \cup {"idle"}]
        /\ base \in [Callers -> BaseKeys]
        /\ outcome \in [Callers -> {"none", "nil", "error"}]
    BY DEF Init
  <2>2. got \in [Callers -> [Writes -> Nat]]
    BY DEF Init, NothingGot
  <2>3. receipt \in [Callers -> [steps : SUBSET Steps, failed : Steps \cup {""}]]
    BY DEF Init, NoReceipt
  <2>4. /\ expected \in [BaseKeys -> Nat] /\ ready \subseteq BaseKeys
        /\ revision \in Nat /\ observed \in 0..revision
        /\ others \in 0..OtherWrites /\ late \subseteq Requests
    BY BoundsAssumption DEF Init
  <2>5. recorded \in [BaseKeys \X Writes -> 0..revision]
    BY DEF Init
  <2> QED BY <2>1, <2>2, <2>3, <2>4, <2>5 DEF TypeOK
<1>2. ConsecutiveRevisions
  BY DEF Init, ConsecutiveRevisions, Adjacent, Recorded, Writes
<1>3. \A p \in Callers : CallInv(p)
  BY DEF Init, CallInv
<1> QED BY <1>1, <1>2, <1>3 DEF Init, RevisionInv

\* The request that a call makes is a plausible one.
LEMMA CallsPlausible ==
  ASSUME RevisionInv, NEW p \in Callers, NEW s \in Writes, pc[p] = s
  PROVE  Request(p, s) \in Requests /\ Plausible(Request(p, s))
PROOF
<1>1. /\ base[p] \in BaseKeys /\ CallInv(p)
      /\ expected[base[p]] \in Nat
      /\ got[p]["apply"] \in Nat /\ got[p]["directory_enable"] \in Nat
  <2>1. base[p] \in BaseKeys /\ CallInv(p) /\ expected[base[p]] \in Nat
    BY DEF RevisionInv, TypeOK
  <2>2. \A t \in Writes : got[p][t] \in Nat
    <3>1. got[p] \in [Writes -> Nat]
      BY DEF RevisionInv, TypeOK
    <3> QED BY <3>1
  <2> QED BY <2>1, <2>2 DEF Writes
<1>2. CASE s = "apply"
  BY <1>1, <1>2 DEF Request, Named, Requests, Plausible, Writes
<1>3. CASE s = "directory_enable"
  BY <1>1, <1>3 DEF Request, Named, Requests, Plausible, Writes, CallInv
<1>4. CASE s = "client_reconcile"
  BY <1>1, <1>4 DEF Request, Named, Requests, Plausible, Writes, CallInv
<1> QED BY <1>2, <1>3, <1>4 DEF Writes

\* Whatever the service does, what a caller or a late request relies on stays.
LEMMA MovesOnKeeps ==
  ASSUME RevisionInv, MovesOn
  PROVE  /\ \A r \in late : Plausible(r)'
         /\ \A r \in Requests : Plausible(r) => Plausible(r)'
         /\ \A p \in Callers :
              pc'[p] = pc[p] /\ base'[p] = base[p] /\ got'[p] = got[p] => CallInv(p)'
PROOF
<1>1. \A r \in Requests : Plausible(r) => Plausible(r)'
  BY DEF MovesOn, Plausible, Requests, Writes
<1>2. \A r \in late : Plausible(r)'
  BY <1>1 DEF RevisionInv, TypeOK
<1>3. ASSUME NEW p \in Callers,
             pc'[p] = pc[p], base'[p] = base[p], got'[p] = got[p]
      PROVE  CallInv(p)'
  <2>1. base[p] \in BaseKeys /\ CallInv(p)
    BY DEF RevisionInv, TypeOK
  <2>2. \A s \in Writes : Recorded(base[p], s) # 0 =>
          Recorded(base[p], s)' = Recorded(base[p], s)
    BY <2>1, <1>3 DEF MovesOn, Recorded
  <2> QED BY <2>1, <2>2, <1>3 DEF CallInv, Writes, Recorded
<1> QED BY <1>1, <1>2, <1>3

\* A service that does nothing keeps what it has recorded.
LEMMA StandsStill ==
  ASSUME TypeOK, UNCHANGED service
  PROVE  MovesOn
PROOF
<1>1. /\ revision \in Nat /\ observed \in 0..revision
      /\ recorded \in [BaseKeys \X Writes -> 0..revision]
      /\ revision' = revision /\ observed' = observed /\ recorded' = recorded
  BY DEF TypeOK, service
<1> QED BY <1>1 DEF MovesOn, Recorded

\* A call that ends without an answer, or begins.
LEMMA ClientOnly ==
  ASSUME RevisionInv, TypeOK', UNCHANGED service,
         NEW p \in Callers,
         pc' = [pc EXCEPT ![p] = "idle"] \/ pc' = [pc EXCEPT ![p] = "apply"],
         \A q \in Callers \ {p} : base'[q] = base[q] /\ got'[q] = got[q],
         \A r \in late' : r \in late \/ (r \in Requests /\ Plausible(r))
  PROVE  RevisionInv'
PROOF
<1>1. MovesOn
  BY StandsStill DEF RevisionInv
<1>2. ConsecutiveRevisions'
  BY DEF RevisionInv, ConsecutiveRevisions, Adjacent, Recorded, service
<1>3. \A q \in Callers : CallInv(q)'
  <2> TAKE q \in Callers
  <2>1. CASE q = p
    <3>1. pc'[p] \in {"idle", "apply"}
      BY DEF RevisionInv, TypeOK
    <3> QED BY <2>1, <3>1 DEF CallInv
  <2>2. CASE q # p
    <3>1. pc'[q] = pc[q] /\ base'[q] = base[q] /\ got'[q] = got[q]
      BY <2>2 DEF RevisionInv, TypeOK
    <3> QED BY <1>1, <3>1, MovesOnKeeps
  <2> QED BY <2>1, <2>2
<1>4. \A r \in late' : Plausible(r)'
  BY <1>1, MovesOnKeeps
<1> QED BY <1>2, <1>3, <1>4 DEF RevisionInv

\* ReturnError leaves the types intact.
LEMMA ReturnErrorType ==
  ASSUME TypeOK, NEW p \in Callers, NEW s \in Steps, ReturnError(p, s),
         UNCHANGED service, late' \subseteq Requests
  PROVE  TypeOK'
PROOF
<1>1. /\ pc' \in [Callers -> Steps \cup {"idle"}]
      /\ outcome' \in [Callers -> {"none", "nil", "error"}]
  BY DEF TypeOK, ReturnError
<1>2. got' \in [Callers -> [Writes -> Nat]]
  <2>1. NothingGot \in [Writes -> Nat]
    BY DEF NothingGot
  <2> QED BY <2>1 DEF TypeOK, ReturnError
<1>3. receipt' \in [Callers -> [steps : SUBSET Steps, failed : Steps \cup {""}]]
  BY DEF TypeOK, ReturnError
<1> QED BY <1>1, <1>2, <1>3 DEF TypeOK, ReturnError, service

\* An answered step is recorded, and the caller has its revision or 0.
LEMMA AnsweredRevisionInv ==
  ASSUME RevisionInv, NEW p \in Callers, NEW s \in Writes, NEW full \in BOOLEAN,
         Answered(p, s, full)
  PROVE  RevisionInv'
PROOF
<1>1. PICK r : r = Request(p, s)
  OBVIOUS
<1>2. /\ r \in Requests /\ Plausible(r) /\ ~Conflict(r) /\ Serve(r)
      /\ r.base = base[p] /\ r.step = s
  BY <1>1, CallsPlausible DEF Answered, Request
<1>3. MovesOn /\ Recorded(r.base, r.step)' # 0 /\ ConsecutiveRevisions'
  BY <1>2, ServeAdvances DEF RevisionInv
<1>4. /\ pc[p] = s /\ base' = base /\ base[p] \in BaseKeys
      /\ pc' = [pc EXCEPT ![p] = After(s)]
      /\ UNCHANGED <<outcome, expected, ready, late, others>>
  BY DEF Answered, RevisionInv, TypeOK
<1>5. After(s) \in Steps
  BY DEF After, Steps, Writes
<1>6. PICK n \in Nat : /\ got' = [got EXCEPT ![p][s] = n]
                       /\ n \in {0, Recorded(r.base, s)'}
  <2>1. Recorded(r.base, s)' \in Nat
    BY <1>2, <1>3 DEF MovesOn, Requests, Recorded
  <2>2. recorded'[KeyOf(base[p], s)] = Recorded(r.base, s)'
    BY <1>2 DEF KeyOf, Recorded
  <2> QED BY <2>1, <2>2 DEF Answered
<1>7. TypeOK'
  <2>1. pc' \in [Callers -> Steps \cup {"idle"}]
    BY <1>4, <1>5 DEF RevisionInv, TypeOK
  <2>2. got' \in [Callers -> [Writes -> Nat]]
    BY <1>6 DEF RevisionInv, TypeOK
  <2>3. receipt' \in [Callers -> [steps : SUBSET Steps, failed : Steps \cup {""}]]
    <3>1. receipt' = [receipt EXCEPT ![p].steps = @ \cup {s}] /\ s \in Steps
      BY DEF Answered, Steps
    <3>2. receipt \in [Callers -> [steps : SUBSET Steps, failed : Steps \cup {""}]]
      BY DEF RevisionInv, TypeOK
    <3> HIDE DEF Steps
    <3> QED BY ONLY <3>1, <3>2
  <2> QED BY <1>3, <1>4, <2>1, <2>2, <2>3 DEF MovesOn, RevisionInv, TypeOK
<1>8. \A q \in Callers : CallInv(q)'
  <2> TAKE q \in Callers
  <2>1. CASE q # p
    <3>1. pc'[q] = pc[q] /\ base'[q] = base[q] /\ got'[q] = got[q]
      BY <2>1, <1>4, <1>6 DEF RevisionInv, TypeOK
    <3> QED BY <1>3, <3>1, MovesOnKeeps
  <2>2. CASE q = p
    <3>1. pc'[p] = After(s) /\ got'[p][s] = n
      BY <1>4, <1>6 DEF RevisionInv, TypeOK
    <3>2. Recorded(base[p], s)' # 0 /\ n \in {0, Recorded(base[p], s)'}
      BY <1>2, <1>3, <1>4, <1>6 DEF Recorded
    <3>3. \A t \in Writes : Recorded(base[p], t) # 0 => Recorded(base[p], t)' # 0
      BY <1>3, <1>4 DEF MovesOn, Recorded
    <3>4. CallInv(p)
      BY DEF RevisionInv
    <3> QED BY <2>2, <1>4, <3>1, <3>2, <3>3, <3>4 DEF CallInv, After, Writes, Recorded
  <2> QED BY <2>1, <2>2
<1>9. \A r1 \in late' : Plausible(r1)'
  BY <1>3, <1>4, MovesOnKeeps
<1> QED BY <1>3, <1>7, <1>8, <1>9 DEF RevisionInv

\* A request that was given up arrives after all.
LEMMA ArriveMoves ==
  ASSUME RevisionInv, NEW r \in late, Arrive(r)
  PROVE  MovesOn /\ ConsecutiveRevisions'
PROOF
<1>1. r \in Requests /\ Plausible(r) /\ TypeOK /\ ConsecutiveRevisions
  BY DEF RevisionInv, TypeOK
<1>2. CASE Conflict(r)
  <2>1. UNCHANGED service
    BY <1>2 DEF Arrive
  <2> QED BY <1>1, <2>1, StandsStill
          DEF ConsecutiveRevisions, Adjacent, Recorded, service
<1>3. CASE ~Conflict(r)
  BY <1>1, <1>3, ServeAdvances DEF Arrive
<1> QED BY <1>2, <1>3

\* Another administrator's write records nothing under any base key.
LEMMA OtherWriteMoves ==
  ASSUME RevisionInv, OtherWrite
  PROVE  MovesOn /\ ConsecutiveRevisions'
PROOF
<1>1. /\ revision \in Nat /\ observed \in 0..revision
      /\ recorded \in [BaseKeys \X Writes -> 0..revision]
      /\ revision' = revision + 1 /\ recorded' = recorded
      /\ observed' \in {observed, revision'}
  BY DEF RevisionInv, TypeOK, OtherWrite
<1>2. MovesOn
  BY <1>1 DEF MovesOn, Recorded
<1> QED BY <1>1, <1>2 DEF RevisionInv, ConsecutiveRevisions, Adjacent, Recorded

\* A step that leaves the calls alone.
LEMMA NotACall ==
  ASSUME RevisionInv, TypeOK', MovesOn, ConsecutiveRevisions',
         UNCHANGED client, late' \subseteq late
  PROVE  RevisionInv'
PROOF
<1>1. \A p \in Callers : CallInv(p)'
  BY MovesOnKeeps DEF client
<1>2. \A r \in late' : Plausible(r)'
  BY MovesOnKeeps
<1> QED BY <1>1, <1>2 DEF RevisionInv

\* Every step keeps adjacency and what the pending requests name.
LEMMA NextRevisionInv == RevisionInv /\ [Next]_vars => RevisionInv'
PROOF
<1> SUFFICES ASSUME RevisionInv, [Next]_vars  PROVE RevisionInv'
  OBVIOUS
<1>t. TypeOK
  BY DEF RevisionInv
<1>1. ASSUME NEW p \in Callers, NEW b \in BaseKeys, Call(p, b)  PROVE RevisionInv'
  <2>1. UNCHANGED <<got, expected, ready, service, late, others>>
    BY <1>1 DEF Call
  <2>2. pc' = [pc EXCEPT ![p] = "idle"] \/ pc' = [pc EXCEPT ![p] = "apply"]
    BY <1>1 DEF Call
  <2>3. /\ pc' \in [Callers -> Steps \cup {"idle"}]
        /\ base' \in [Callers -> BaseKeys]
        /\ outcome' \in [Callers -> {"none", "nil", "error"}]
    BY <1>1, <1>t DEF Call, TypeOK, Steps, Writes
  <2>4. receipt' \in [Callers -> [steps : SUBSET Steps, failed : Steps \cup {""}]]
    BY <1>1, <1>t DEF Call, TypeOK, NoReceipt
  <2>5. TypeOK'
    BY <1>t, <2>1, <2>3, <2>4 DEF TypeOK, service
  <2>6. \A q \in Callers \ {p} : base'[q] = base[q] /\ got'[q] = got[q]
    BY <1>1, <1>t DEF Call, TypeOK
  <2> QED BY <2>1, <2>2, <2>5, <2>6, ClientOnly
<1>2. ASSUME NEW p \in Callers, NEW s \in Steps, ReturnError(p, s), UNCHANGED service,
             \A r \in late' : r \in late \/ (r \in Requests /\ Plausible(r))
      PROVE  RevisionInv'
  <2>1. late' \subseteq Requests
    BY <1>2, <1>t DEF TypeOK
  <2>2. TypeOK'
    BY <1>2, <1>t, <2>1, ReturnErrorType
  <2>3. pc' = [pc EXCEPT ![p] = "idle"]
    BY <1>2 DEF ReturnError
  <2>4. \A q \in Callers \ {p} : base'[q] = base[q] /\ got'[q] = got[q]
    BY <1>2, <1>t DEF ReturnError, TypeOK
  <2> QED BY <1>2, <2>2, <2>3, <2>4, ClientOnly
<1>3. ASSUME NEW p \in Callers, NEW s \in Writes, Refused(p, s)  PROVE RevisionInv'
  BY <1>2, <1>3 DEF Refused, Steps
<1>4. ASSUME NEW p \in Callers, NEW s \in Writes, GivesUp(p, s)  PROVE RevisionInv'
  <2>1. pc[p] = s /\ ReturnError(p, s) /\ UNCHANGED service
    BY <1>4 DEF GivesUp
  <2>2. Request(p, s) \in Requests /\ Plausible(Request(p, s))
    BY <2>1, CallsPlausible
  <2>3. \A r \in late' : r \in late \/ (r \in Requests /\ Plausible(r))
    BY <1>4, <2>2 DEF GivesUp
  <2> QED BY <1>2, <2>1, <2>3 DEF Steps
<1>5. ASSUME NEW p \in Callers, NEW s \in Writes, NEW full \in BOOLEAN,
             Answered(p, s, full)
      PROVE  RevisionInv'
  BY <1>5, AnsweredRevisionInv
<1>6. ASSUME NEW p \in Callers, StatusUnread(p)  PROVE RevisionInv'
  BY <1>2, <1>6 DEF StatusUnread, Steps
<1>7. ASSUME NEW p \in Callers, Converged(p) \/ NotConverged(p)  PROVE RevisionInv'
  <2>1. /\ UNCHANGED <<base, expected, ready, service, late, others>>
        /\ pc' = [pc EXCEPT ![p] = "idle"]
        /\ got' = [got EXCEPT ![p] = NothingGot]
    BY <1>7 DEF Converged, NotConverged
  <2>2. /\ pc' \in [Callers -> Steps \cup {"idle"}]
        /\ outcome' \in [Callers -> {"none", "nil", "error"}]
    BY <1>7, <1>t DEF Converged, NotConverged, TypeOK
  <2>3. receipt' \in [Callers -> [steps : SUBSET Steps, failed : Steps \cup {""}]]
    <3>1. CASE Converged(p)
      <4>1. receipt' = [receipt EXCEPT ![p].steps = @ \cup {"status"}]
        BY <3>1 DEF Converged
      <4>2. "status" \in Steps
        BY DEF Steps
      <4>3. receipt \in [Callers -> [steps : SUBSET Steps, failed : Steps \cup {""}]]
        BY <1>t DEF TypeOK
      <4> QED BY ONLY <4>1, <4>2, <4>3
    <3>2. CASE NotConverged(p)
      <4>1. [steps |-> receipt[p].steps \cup {"status"}, failed |-> "status"]
              \in [steps : SUBSET Steps, failed : Steps \cup {""}]
        BY <1>t DEF TypeOK, Steps
      <4> QED BY <3>2, <4>1, <1>t DEF NotConverged, TypeOK
    <3> QED BY <3>1, <3>2, <1>7
  <2>4. NothingGot \in [Writes -> Nat]
    BY DEF NothingGot
  <2>5. got' \in [Callers -> [Writes -> Nat]]
    BY <1>t, <2>1, <2>4 DEF TypeOK
  <2>6. TypeOK'
    BY <1>t, <2>1, <2>2, <2>3, <2>5 DEF TypeOK, service
  <2>7. \A q \in Callers \ {p} : base'[q] = base[q] /\ got'[q] = got[q]
    BY <1>t, <2>1 DEF TypeOK
  <2> QED BY <2>1, <2>6, <2>7, ClientOnly
<1>8. ASSUME NEW b \in BaseKeys, Read(b)  PROVE RevisionInv'
  <2>1. UNCHANGED <<client, service, late, others>>
    BY <1>8 DEF Read
  <2>2. expected' \in [BaseKeys -> Nat] /\ ready' \subseteq BaseKeys
    BY <1>8, <1>t DEF Read, TypeOK
  <2>3. TypeOK'
    BY <1>t, <2>1, <2>2 DEF TypeOK, client, service
  <2>4. MovesOn
    BY <1>t, <2>1, StandsStill
  <2>5. ConsecutiveRevisions'
    BY <2>1 DEF RevisionInv, ConsecutiveRevisions, Adjacent, Recorded, service
  <2> QED BY <2>1, <2>3, <2>4, <2>5, NotACall
<1>9. CASE OtherWrite
  <2>1. UNCHANGED <<client, expected, ready, late>> /\ others' = others + 1 /\ others < OtherWrites
    BY <1>9 DEF OtherWrite
  <2>2. MovesOn /\ ConsecutiveRevisions'
    BY <1>9, OtherWriteMoves
  <2>3. others' \in 0..OtherWrites
    <3>1. others \in 0..OtherWrites /\ OtherWrites \in Nat
      BY <1>t, BoundsAssumption DEF TypeOK
    <3> QED BY <2>1, <3>1
  <2>4. TypeOK'
    BY <1>t, <2>1, <2>2, <2>3 DEF TypeOK, client, MovesOn
  <2> QED BY <2>1, <2>2, <2>4, NotACall
<1>10. ASSUME NEW r \in late, Arrive(r)  PROVE RevisionInv'
  <2>1. UNCHANGED <<client, expected, ready, others>> /\ late' \subseteq late
    BY <1>10 DEF Arrive
  <2>2. MovesOn /\ ConsecutiveRevisions'
    BY <1>10, ArriveMoves
  <2>3. TypeOK'
    BY <1>t, <2>1, <2>2 DEF TypeOK, client, MovesOn
  <2> QED BY <2>1, <2>2, <2>3, NotACall
<1>11. CASE UNCHANGED vars
  <2>1. UNCHANGED <<client, service, expected, ready, late, others>>
    BY <1>11 DEF vars
  <2>2. TypeOK' /\ ConsecutiveRevisions'
    BY <1>t, <2>1 DEF TypeOK, RevisionInv, ConsecutiveRevisions, Adjacent, Recorded,
                      client, service
  <2>3. MovesOn
    BY <1>t, <2>1, StandsStill
  <2> QED BY <2>1, <2>2, <2>3, NotACall
<1> QED BY <1>1, <1>3, <1>4, <1>5, <1>6, <1>7, <1>8, <1>9, <1>10, <1>11
        DEF Next, ProvisionRealm

\* The invariant holds throughout.
LEMMA AlwaysRevisionInv == Spec => []RevisionInv
PROOF
<1> QED BY InitRevisionInv, NextRevisionInv, PTL DEF Spec

\* Types, and an observation that is never ahead of what was written.
THEOREM RealmTypeCorrect == Spec => []TypeOK
PROOF
<1>1. RevisionInv => TypeOK
  BY DEF RevisionInv
<1> QED BY <1>1, AlwaysRevisionInv, PTL

\* ProvisionRealm chains the revisions of its answers: no other write slips in
\* between its steps, whatever is lost, late, repeated or concurrent.
THEOREM StepsAreConsecutive == Spec => []ConsecutiveRevisions
PROOF
<1>1. RevisionInv => ConsecutiveRevisions
  BY DEF RevisionInv
<1> QED BY <1>1, AlwaysRevisionInv, PTL

-------------------------------------------------------------------------------
(* Receipts and successes.                                                 *)

\* The receipt of a running call lists exactly the steps before the one it is
\* at, under a base key that was accepted.
CallReceipt(p) ==
  /\ pc[p] \in Steps =>
       /\ receipt[p].steps = StepsBefore(pc[p]) /\ receipt[p].failed = ""
       /\ BaseKeyAccepted(base[p])
       /\ outcome[p] = "none"
  /\ \A s \in receipt[p].steps \ {"status"} : Recorded(base[p], s) # 0
  /\ receipt[p].failed # "" =>
       /\ receipt[p].steps \ {receipt[p].failed} = StepsBefore(receipt[p].failed)
       /\ receipt[p].failed \in receipt[p].steps => receipt[p].failed = "status"
  /\ outcome[p] = "nil" => \A s \in Writes : Recorded(base[p], s) # 0

ReceiptInv == \A p \in Callers : CallReceipt(p)

\* No step undoes what the service has recorded.
LEMMA NextMovesOn == RevisionInv /\ [Next]_vars => MovesOn
PROOF
<1> SUFFICES ASSUME RevisionInv, [Next]_vars  PROVE MovesOn
  OBVIOUS
<1>t. TypeOK
  BY DEF RevisionInv
<1>1. CASE UNCHANGED service
  BY <1>1, <1>t, StandsStill
<1>2. ASSUME NEW p \in Callers, NEW s \in Writes, NEW full \in BOOLEAN,
             Answered(p, s, full)
      PROVE  MovesOn
  <2>1. PICK r : r = Request(p, s)
    OBVIOUS
  <2>2. r \in Requests /\ Plausible(r) /\ ~Conflict(r) /\ Serve(r)
    BY <1>2, <2>1, CallsPlausible DEF Answered
  <2> QED BY <2>2, ServeAdvances DEF RevisionInv
<1>3. CASE OtherWrite
  BY <1>3, OtherWriteMoves
<1>4. ASSUME NEW r \in late, Arrive(r)  PROVE MovesOn
  BY <1>4, ArriveMoves
<1>5. ASSUME NEW p \in Callers, NEW s \in Writes, Refused(p, s) \/ GivesUp(p, s)
      PROVE  MovesOn
  <2>1. UNCHANGED service
    BY <1>5 DEF Refused, GivesUp
  <2> QED BY <2>1, <1>1
<1>6. ASSUME NEW p \in Callers, StatusUnread(p) \/ Converged(p) \/ NotConverged(p)
      PROVE  MovesOn
  <2>1. UNCHANGED service
    BY <1>6 DEF StatusUnread, Converged, NotConverged
  <2> QED BY <2>1, <1>1
<1>7. ASSUME NEW b \in BaseKeys, Read(b) \/ \E p \in Callers : Call(p, b)
      PROVE  MovesOn
  <2>1. UNCHANGED service
    BY <1>7 DEF Read, Call
  <2> QED BY <2>1, <1>1
<1>8. CASE UNCHANGED vars
  <2>1. UNCHANGED service
    BY <1>8 DEF vars
  <2> QED BY <2>1, <1>1
<1> QED BY <1>2, <1>3, <1>4, <1>5, <1>6, <1>7, <1>8 DEF Next, ProvisionRealm

\* What a receipt reports stays true while its call does nothing.
LEMMA ReceiptKept ==
  ASSUME TypeOK, MovesOn, NEW p \in Callers, CallReceipt(p),
         pc'[p] = pc[p], base'[p] = base[p], receipt'[p] = receipt[p],
         outcome'[p] = outcome[p]
  PROVE  CallReceipt(p)'
PROOF
<1>1. base[p] \in BaseKeys /\ receipt[p].steps \subseteq Steps
  BY DEF TypeOK
<1>2. \A s \in Writes : Recorded(base[p], s) # 0 => Recorded(base[p], s)' # 0
  BY <1>1 DEF MovesOn, Recorded
<1>3. receipt[p].steps \ {"status"} \subseteq Writes
  BY <1>1 DEF Steps
<1> QED BY <1>2, <1>3 DEF CallReceipt, Recorded

\* A call that ends with an error: the receipt is as it was, with the step at
\* which it stopped.
LEMMA ReturnErrorReceipt ==
  ASSUME TypeOK, MovesOn, NEW p \in Callers, CallReceipt(p),
         NEW s \in Steps, pc[p] = s, ReturnError(p, s)
  PROVE  CallReceipt(p)'
PROOF
<1>1. /\ base[p] \in BaseKeys /\ base' = base
      /\ pc'[p] = "idle" /\ outcome'[p] = "error"
      /\ receipt' = [receipt EXCEPT ![p].failed = s]
      /\ receipt[p] \in [steps : SUBSET Steps, failed : Steps \cup {""}]
  BY DEF TypeOK, ReturnError
<1>2. receipt[p].steps = StepsBefore(s)
  BY DEF CallReceipt
<1>3. receipt'[p].steps = StepsBefore(s) /\ receipt'[p].failed = s
  BY <1>1, <1>2 DEF TypeOK
<1>4. StepsBefore(s) \subseteq Writes /\ s \notin StepsBefore(s)
  BY DEF StepsBefore, Steps, Writes
<1>5. \A t \in StepsBefore(s) : Recorded(base[p], t) # 0
  <2>1. \A t \in receipt[p].steps \ {"status"} : Recorded(base[p], t) # 0
    BY DEF CallReceipt
  <2>2. "status" \notin StepsBefore(s)
    BY <1>4 DEF Writes
  <2> QED BY <1>2, <2>1, <2>2
<1>6. \A t \in StepsBefore(s) : Recorded(base[p], t)' # 0
  BY <1>1, <1>4, <1>5 DEF MovesOn, Recorded
<1>7. /\ receipt'[p].steps \ {receipt'[p].failed} = StepsBefore(receipt'[p].failed)
      /\ receipt'[p].failed \notin receipt'[p].steps
      /\ receipt'[p].steps \ {"status"} \subseteq StepsBefore(s)
  BY <1>3, <1>4
<1>8. "idle" \notin Steps
  BY DEF Steps, Writes
<1>9. StepsBefore(receipt[p].failed)' = StepsBefore(receipt'[p].failed)
  BY DEF StepsBefore
<1>10. \A t \in receipt'[p].steps \ {"status"} : Recorded(base[p], t)' # 0
  BY <1>6, <1>7
<1> QED BY <1>1, <1>7, <1>8, <1>9, <1>10 DEF CallReceipt, Recorded

\* An answered step joins the receipt of its call.
LEMMA AnsweredReceipt ==
  ASSUME TypeOK, RevisionInv', MovesOn, NEW p \in Callers, CallReceipt(p),
         NEW s \in Writes, NEW full \in BOOLEAN, Answered(p, s, full)
  PROVE  CallReceipt(p)'
PROOF
<1>1. /\ pc[p] = s /\ base' = base /\ outcome' = outcome
      /\ pc'[p] = After(s)
      /\ receipt'[p].steps = receipt[p].steps \cup {s}
      /\ receipt'[p].failed = receipt[p].failed
  BY DEF Answered, TypeOK
<1>2. /\ receipt[p].steps = StepsBefore(s) /\ receipt[p].failed = ""
      /\ outcome[p] = "none" /\ BaseKeyAccepted(base[p])
  BY <1>1 DEF CallReceipt, Steps
<1>3. receipt'[p].steps = StepsBefore(After(s)) /\ After(s) \in Steps
  BY <1>1, <1>2 DEF StepsBefore, After, Writes, Steps
<1>4. CallInv(p)'
  BY DEF RevisionInv
<1>5. \A t \in StepsBefore(After(s)) : Recorded(base[p], t)' # 0
  BY <1>1, <1>4 DEF CallInv, After, StepsBefore, Writes, Recorded
<1> QED BY <1>1, <1>2, <1>3, <1>5 DEF CallReceipt, Recorded

\* Reading the status ends a call with its three writes recorded.
LEMMA StatusReceipt ==
  ASSUME RevisionInv, MovesOn, NEW p \in Callers, CallReceipt(p),
         Converged(p) \/ NotConverged(p)
  PROVE  CallReceipt(p)'
PROOF
<1>1. TypeOK /\ CallInv(p)
  BY DEF RevisionInv
<1>2. /\ pc[p] = "status" /\ base' = base /\ pc'[p] = "idle"
      /\ base[p] \in BaseKeys
      /\ receipt'[p].steps = receipt[p].steps \cup {"status"}
      /\ receipt'[p].failed \in {"status", receipt[p].failed}
  <2>1. CASE Converged(p)
    BY <1>1, <2>1 DEF Converged, TypeOK
  <2>2. CASE NotConverged(p)
    BY <1>1, <2>2 DEF NotConverged, TypeOK
  <2> QED BY <2>1, <2>2
<1>3. receipt[p].steps = Writes /\ receipt[p].failed = ""
  BY <1>2 DEF CallReceipt, Steps, StepsBefore
<1>4. \A s \in Writes : Recorded(base[p], s)' # 0
  BY <1>1, <1>2 DEF CallInv, Writes, MovesOn, Recorded
<1> QED BY <1>2, <1>3, <1>4 DEF CallReceipt, Steps, StepsBefore, Writes, Recorded

\* Every step keeps the receipts of running calls exact.
LEMMA NextReceiptInv ==
  RevisionInv /\ ReceiptInv /\ [Next]_vars => ReceiptInv'
PROOF
<1> SUFFICES ASSUME RevisionInv, ReceiptInv, [Next]_vars, NEW q \in Callers
             PROVE  CallReceipt(q)'
  BY DEF ReceiptInv
<1>t. TypeOK /\ MovesOn /\ RevisionInv' /\ CallReceipt(q)
  BY NextMovesOn, NextRevisionInv DEF RevisionInv, ReceiptInv
<1>k. ASSUME pc'[q] = pc[q], base'[q] = base[q], receipt'[q] = receipt[q],
             outcome'[q] = outcome[q]
      PROVE  CallReceipt(q)'
  BY <1>k, <1>t, ReceiptKept
<1>1. ASSUME NEW p \in Callers, NEW b \in BaseKeys, Call(p, b)  PROVE CallReceipt(q)'
  <2>1. CASE q # p
    BY <1>1, <1>k, <1>t, <2>1 DEF Call, TypeOK
  <2>2. CASE q = p
    <3>1. /\ base'[p] = b
          /\ pc'[p] = IF BaseKeyAccepted(b) THEN "apply" ELSE "idle"
          /\ outcome'[p] = IF BaseKeyAccepted(b) THEN "none" ELSE "error"
          /\ receipt'[p] = NoReceipt
      BY <1>1, <1>t DEF Call, TypeOK
    <3>2. NoReceipt.steps = {} /\ NoReceipt.failed = ""
      BY DEF NoReceipt
    <3>3. BaseKeyAccepted(base[p])' <=> BaseKeyAccepted(b)
      BY <3>1 DEF BaseKeyAccepted, MinKeyLength, MaxKeyLength, SuffixLength
    <3> QED BY <2>2, <3>1, <3>2, <3>3 DEF CallReceipt, StepsBefore, Steps, Writes
  <2> QED BY <2>1, <2>2
<1>2. ASSUME NEW p \in Callers, NEW s \in Steps, pc[p] = s, ReturnError(p, s)
      PROVE  CallReceipt(q)'
  <2>1. CASE q # p
    BY <1>2, <1>k, <1>t, <2>1 DEF ReturnError, TypeOK
  <2>2. CASE q = p
    BY <1>2, <1>t, <2>2, ReturnErrorReceipt
  <2> QED BY <2>1, <2>2
<1>3. ASSUME NEW p \in Callers, NEW s \in Writes, Refused(p, s) \/ GivesUp(p, s)
      PROVE  CallReceipt(q)'
  BY <1>2, <1>3 DEF Refused, GivesUp, Steps
<1>4. ASSUME NEW p \in Callers, StatusUnread(p)  PROVE CallReceipt(q)'
  BY <1>2, <1>4 DEF StatusUnread, Steps
<1>5. ASSUME NEW p \in Callers, NEW s \in Writes, NEW full \in BOOLEAN,
             Answered(p, s, full)
      PROVE  CallReceipt(q)'
  <2>1. CASE q # p
    BY <1>5, <1>k, <1>t, <2>1 DEF Answered, TypeOK
  <2>2. CASE q = p
    BY <1>5, <1>t, <2>2, AnsweredReceipt
  <2> QED BY <2>1, <2>2
<1>6. ASSUME NEW p \in Callers, Converged(p) \/ NotConverged(p)  PROVE CallReceipt(q)'
  <2>1. CASE q # p
    BY <1>6, <1>k, <1>t, <2>1 DEF Converged, NotConverged, TypeOK
  <2>2. CASE q = p
    BY <1>6, <1>t, <2>2, StatusReceipt
  <2> QED BY <2>1, <2>2
<1>7. ASSUME UNCHANGED client  PROVE CallReceipt(q)'
  BY <1>7, <1>k DEF client
<1>8. ASSUME \/ \E b \in BaseKeys : Read(b)
             \/ OtherWrite
             \/ \E r \in late : Arrive(r)
             \/ UNCHANGED vars
      PROVE  CallReceipt(q)'
  BY <1>7, <1>8 DEF Read, OtherWrite, Arrive, vars
<1> QED BY <1>1, <1>3, <1>4, <1>5, <1>6, <1>8 DEF Next, ProvisionRealm

\* Both invariants hold throughout.
LEMMA AlwaysReceiptInv == Spec => [](RevisionInv /\ ReceiptInv)
PROOF
<1>1. ASSUME Init  PROVE ReceiptInv
  <2> SUFFICES ASSUME NEW p \in Callers  PROVE CallReceipt(p)
    BY DEF ReceiptInv
  <2>1. pc[p] = "idle" /\ outcome[p] = "none" /\ receipt[p] = NoReceipt
    BY <1>1 DEF Init
  <2>2. NoReceipt.steps = {} /\ NoReceipt.failed = ""
    BY DEF NoReceipt
  <2> QED BY <2>1, <2>2 DEF CallReceipt, Steps, Writes
<1> QED BY <1>1, InitRevisionInv, NextRevisionInv, NextReceiptInv, PTL DEF Spec

\* The receipt of a failed ProvisionRealm lists what took effect and names the
\* step to resume from.
THEOREM ReceiptsAreTruthful == Spec => []ReceiptTruthful
PROOF
<1>1. RevisionInv /\ ReceiptInv => ReceiptTruthful
  BY DEF ReceiptInv, CallReceipt, ReceiptTruthful
<1> QED BY <1>1, AlwaysReceiptInv, PTL

\* A nil error means that apply, enable and reconcile took effect under the
\* caller's base key.
THEOREM SuccessIsComplete == Spec => []SuccessMeansAllSteps
PROOF
<1>1. RevisionInv /\ ReceiptInv => SuccessMeansAllSteps
  BY DEF ReceiptInv, CallReceipt, SuccessMeansAllSteps
<1> QED BY <1>1, AlwaysReceiptInv, PTL

\* Every derived key is within the service's bounds.
THEOREM DerivedKeysLegal == Spec => []KeysLegal
PROOF
<1>1. RevisionInv /\ ReceiptInv => KeysLegal
  <2> SUFFICES ASSUME RevisionInv, ReceiptInv, NEW p \in Callers, pc[p] \in Writes
               PROVE  base[p] + SuffixLength(pc[p]) \in MinKeyLength..MaxKeyLength
    BY DEF KeysLegal
  <2>1. base[p] \in Nat /\ BaseKeyAccepted(base[p])
    BY BaseKeysAssumption DEF RevisionInv, TypeOK, ReceiptInv, CallReceipt, Steps
  <2> QED BY <2>1 DEF BaseKeyAccepted, MinKeyLength, MaxKeyLength, SuffixLength
<1> QED BY <1>1, AlwaysReceiptInv, PTL

\* No answer but a status that shows the current revision observed turns a
\* call's outcome into success.
LEMMA OnlyStatusSucceeds ==
  ASSUME TypeOK, Next, NEW p \in Callers, outcome[p] # "nil", outcome'[p] = "nil"
  PROVE  observed = revision /\ revision # 0
PROOF
<1>0. DOMAIN outcome = Callers
  BY DEF TypeOK
<1>1. ASSUME NEW q \in Callers, NEW b \in BaseKeys, Call(q, b) PROVE FALSE
  BY <1>0, <1>1 DEF Call
<1>2. ASSUME NEW q \in Callers, NEW s, ReturnError(q, s) PROVE FALSE
  BY <1>0, <1>2 DEF ReturnError
<1>3. ASSUME NEW q \in Callers, NEW s \in Writes, Refused(q, s) \/ GivesUp(q, s) PROVE FALSE
  BY <1>2, <1>3 DEF Refused, GivesUp
<1>4. ASSUME NEW q \in Callers, StatusUnread(q) PROVE FALSE
  BY <1>2, <1>4 DEF StatusUnread
<1>5. ASSUME NEW q \in Callers, NotConverged(q) PROVE FALSE
  BY <1>0, <1>5 DEF NotConverged
<1>6. ASSUME UNCHANGED outcome PROVE FALSE
  BY <1>6
<1>7. ASSUME NEW q \in Callers, NEW s \in Writes, NEW full \in BOOLEAN, Answered(q, s, full)
      PROVE  FALSE
  BY <1>6, <1>7 DEF Answered
<1>8. ASSUME NEW b \in BaseKeys, Read(b) PROVE FALSE
  BY <1>6, <1>8 DEF Read, client
<1>9. CASE OtherWrite
  BY <1>6, <1>9 DEF OtherWrite, client
<1>10. ASSUME NEW r \in late, Arrive(r) PROVE FALSE
  BY <1>6, <1>10 DEF Arrive, client
<1>11. ASSUME NEW q \in Callers, Converged(q) PROVE observed = revision /\ revision # 0
  BY <1>11 DEF Converged, Reconciled
<1> QED
  BY <1>1, <1>3, <1>4, <1>5, <1>7, <1>8, <1>9, <1>10, <1>11 DEF Next, ProvisionRealm

\* A call returns nil only while the provider is known to hold the current
\* configuration.
THEOREM SuccessIsReconciled == Spec => SuccessMeansReconciled
PROOF
<1>1. TypeOK /\ [Next]_vars =>
        [\A p \in Callers : outcome[p] # "nil" /\ outcome'[p] = "nil" =>
           observed = revision /\ revision # 0]_vars
  BY OnlyStatusSucceeds
<1> QED BY <1>1, RealmTypeCorrect, PTL DEF Spec, SuccessMeansReconciled

-------------------------------------------------------------------------------
(* The promise of module Provision.                                        *)

\* An apply names what its caller has read under the base key, and so writes
\* the revision after it.
AsRead(r) == r.base \in ready /\ (r.step = "apply" => r.named = expected[r.base])

SeenInv ==
  /\ \A p \in Callers : pc[p] # "idle" => base[p] \in ready
  /\ \A r \in late : AsRead(r)
  /\ \A b \in BaseKeys : Recorded(b, "apply") # 0 =>
       b \in ready /\ Recorded(b, "apply") = expected[b] + 1

\* How many steps there are up to a write.
Nth(s) == CASE s = "apply" -> 1 [] s = "directory_enable" -> 2 [] s = "client_reconcile" -> 3

\* What is done under a base key follows from the last of its writes.
LEMMA DoneByLast ==
  ASSUME NEW b
  PROVE  /\ Recorded(b, "client_reconcile") # 0 => Done(b) = 3
         /\ Recorded(b, "client_reconcile") = 0 /\ Recorded(b, "directory_enable") # 0
              => Done(b) = 2
         /\ Recorded(b, "client_reconcile") = 0 /\ Recorded(b, "directory_enable") = 0
            /\ Recorded(b, "apply") # 0 => Done(b) = 1
         /\ Recorded(b, "client_reconcile") = 0 /\ Recorded(b, "directory_enable") = 0
            /\ Recorded(b, "apply") = 0 => Done(b) = 0
PROOF BY DEF Done, Reached, Writes

\* The same of the state after a step.
LEMMA DoneByLastNext ==
  ASSUME NEW b
  PROVE  /\ Recorded(b, "client_reconcile")' # 0 => Done(b)' = 3
         /\ Recorded(b, "client_reconcile")' = 0 /\ Recorded(b, "directory_enable")' # 0
              => Done(b)' = 2
         /\ Recorded(b, "client_reconcile")' = 0 /\ Recorded(b, "directory_enable")' = 0
            /\ Recorded(b, "apply")' # 0 => Done(b)' = 1
PROOF BY DEF Done, Reached, Writes

\* The writes under base keys that are done, as Promise counts them.
AllDone == [b \in BaseKeys |-> Done(b)]

\* A request that the service serves is the next write of its provision, or
\* changes nothing.
LEMMA ServeIsWrite ==
  ASSUME RevisionInv, SeenInv, NEW r \in Requests, Plausible(r), AsRead(r),
         ~Conflict(r), Serve(r)
  PROVE  /\ Promise!Write(r.base) \/ UNCHANGED Promise!environment
         /\ Nth(r.step) <= Done(r.base)'
         /\ \A b \in BaseKeys : Recorded(b, "apply")' # 0 =>
              b \in ready /\ Recorded(b, "apply")' = expected[b] + 1
PROOF
<1> DEFINE b == r.base
<1>t. /\ revision \in Nat /\ observed \in 0..revision
      /\ recorded \in [BaseKeys \X Writes -> 0..revision]
      /\ \A c \in BaseKeys : \A s \in Writes : Recorded(c, s) \in 0..revision
      /\ expected \in [BaseKeys -> Nat]
      /\ b \in BaseKeys /\ r.step \in Writes
      /\ Adjacent(b)
      /\ \A c \in BaseKeys : Recorded(c, "apply") # 0 =>
           c \in ready /\ Recorded(c, "apply") = expected[c] + 1
  BY DEF RevisionInv, TypeOK, Recorded, Requests, ConsecutiveRevisions, SeenInv
<1>1. CASE Known(r)
  <2>1. revision' = revision /\ observed' = observed /\ recorded' = recorded
    BY <1>1 DEF Serve, service
  <2>2. UNCHANGED Promise!environment
    BY <2>1 DEF Promise!environment, Done, Recorded
  <2>3. Recorded(b, r.step)' # 0 /\ Adjacent(b)'
    BY <1>1, <1>t, <2>1 DEF Known, KeyOf, Recorded, Adjacent
  <2>4. Nth(r.step) <= Done(b)'
    BY <2>3, <1>t, DoneByLastNext DEF Nth, Writes, Adjacent
  <2> QED BY <2>1, <2>2, <2>4, <1>t DEF Recorded
<1>2. CASE ~Known(r)
  <2>1. /\ Write(r) /\ Recorded(b, r.step) = 0 /\ r.named = revision
        /\ recorded' = [recorded EXCEPT ![<<b, r.step>>] = revision']
    BY <1>2 DEF Serve, Known, KeyOf, Recorded, Write
  <2>2. revision' \in Nat
    BY <1>t, <2>1 DEF Write
  <2>3. /\ Recorded(b, r.step)' = revision'
        /\ \A c \in BaseKeys : \A s \in Writes : c # b \/ s # r.step =>
             Recorded(c, s)' = Recorded(c, s)
    BY <1>t, <2>1 DEF Recorded
  <2>4. \A c \in BaseKeys : c # b => Done(c)' = Done(c)
    BY <2>3 DEF Done
  <2>5. ASSUME NEW k \in 0..2, Done(b) = k, Done(b)' = k + 1, b \in ready,
               revision = expected[b] + k,
               revision' = IF k < 2 THEN revision + 1 ELSE revision,
               observed' \in {observed, revision'}
        PROVE  Promise!Write(b)
    <3>1. AllDone' = [AllDone EXCEPT ![b] = @ + 1]
      BY <1>t, <2>4, <2>5 DEF AllDone
    <3>2. AllDone[b] = k
      BY <1>t, <2>5 DEF AllDone
    <3> QED BY <2>5, <3>1, <3>2 DEF Promise!Write, AllDone
  <2>6. CASE r.step = "apply"
    <3>1. /\ revision' = revision + 1 /\ observed' \in {observed, revision'}
          /\ b \in ready /\ revision = expected[b]
      BY <2>1, <2>6 DEF Write, AsRead
    <3>2. /\ Recorded(b, "apply") = 0 /\ Recorded(b, "directory_enable") = 0
          /\ Recorded(b, "client_reconcile") = 0
      BY <1>t, <2>1, <2>6 DEF Adjacent
    <3>3. /\ Recorded(b, "apply")' = expected[b] + 1 /\ Recorded(b, "apply")' # 0
          /\ Recorded(b, "directory_enable")' = 0
          /\ Recorded(b, "client_reconcile")' = 0
      BY <1>t, <2>3, <2>6, <3>1, <3>2 DEF Writes
    <3>4. Done(b) = 0 /\ Done(b)' = 1
      BY <3>2, <3>3, DoneByLast, DoneByLastNext
    <3>5. Promise!Write(b)
      <4>1. revision = expected[b] + 0 /\ 0 \in 0..2 /\ Done(b)' = 0 + 1
        BY <1>t, <3>1, <3>4
      <4> QED BY <2>5, <3>1, <3>4, <4>1
    <3>6. \A c \in BaseKeys : c # b => Recorded(c, "apply")' = Recorded(c, "apply")
      BY <2>3 DEF Writes
    <3> QED BY <1>t, <2>6, <3>1, <3>3, <3>4, <3>5, <3>6 DEF Nth
  <2>7. CASE r.step = "directory_enable"
    <3>1. revision' = revision + 1 /\ observed' = observed
      BY <2>1, <2>7 DEF Write
    <3>2. /\ Recorded(b, "apply") # 0 /\ revision = Recorded(b, "apply")
          /\ Recorded(b, "directory_enable") = 0 /\ Recorded(b, "client_reconcile") = 0
      BY <1>t, <2>1, <2>7 DEF Adjacent, Plausible, Writes
    <3>3. \A c \in BaseKeys : Recorded(c, "apply")' = Recorded(c, "apply")
      BY <2>3, <2>7 DEF Writes
    <3>4. /\ Recorded(b, "directory_enable")' # 0 /\ Recorded(b, "client_reconcile")' = 0
      BY <1>t, <2>3, <2>7, <3>1, <3>2 DEF Writes
    <3>5. Done(b) = 1 /\ Done(b)' = 2
      BY <3>2, <3>4, DoneByLast, DoneByLastNext
    <3>6. b \in ready /\ revision = expected[b] + 1
      BY <1>t, <3>2
    <3>7. Promise!Write(b)
      BY <2>5, <3>1, <3>5, <3>6
    <3> QED BY <1>t, <2>7, <3>3, <3>5, <3>7 DEF Nth
  <2>8. CASE r.step = "client_reconcile"
    <3>1. revision' = revision /\ observed' \in {observed, revision'}
      BY <2>1, <2>8 DEF Write, Observes
    <3>2. /\ Recorded(b, "apply") # 0 /\ Recorded(b, "directory_enable") # 0
          /\ revision = Recorded(b, "apply") + 1
          /\ Recorded(b, "client_reconcile") = 0
      BY <1>t, <2>1, <2>8 DEF Adjacent, Plausible, Writes
    <3>3. \A c \in BaseKeys : Recorded(c, "apply")' = Recorded(c, "apply")
      BY <2>3, <2>8 DEF Writes
    <3>4. Recorded(b, "client_reconcile")' # 0
      BY <1>t, <2>3, <2>8, <3>1, <3>2 DEF Writes
    <3>5. Done(b) = 2 /\ Done(b)' = 3
      BY <3>2, <3>4, DoneByLast, DoneByLastNext
    <3>6. b \in ready /\ revision = expected[b] + 2
      BY <1>t, <3>2
    <3>7. Promise!Write(b)
      BY <2>5, <3>1, <3>5, <3>6
    <3> QED BY <1>t, <2>8, <3>3, <3>5, <3>7 DEF Nth
  <2> QED BY <1>t, <2>6, <2>7, <2>8 DEF Writes
<1> QED BY <1>1, <1>2

\* The request of a running call is one as read.
LEMMA CallsAsRead ==
  ASSUME RevisionInv, SeenInv, NEW p \in Callers, NEW s \in Writes, pc[p] = s
  PROVE  AsRead(Request(p, s))
PROOF
<1>1. base[p] \in ready
  BY DEF SeenInv, Writes
<1> QED BY <1>1 DEF AsRead, Request, Named

\* SeenInv is kept by what leaves the service alone.
LEMMA SeenKept ==
  ASSUME RevisionInv, SeenInv, UNCHANGED <<recorded, expected, ready>>,
         \A q \in Callers : pc'[q] # "idle" => base'[q] \in ready,
         \A r \in late' : AsRead(r)
  PROVE  SeenInv'
PROOF
<1>1. \A r \in late' : AsRead(r)'
  BY DEF AsRead
<1> QED BY <1>1 DEF SeenInv, Recorded

\* A call that ends is at no step, the others are where they were.
LEMMA CallEnds ==
  ASSUME RevisionInv, SeenInv, NEW p \in Callers, base' = base,
         pc' = [pc EXCEPT ![p] = "idle"]
  PROVE  \A q \in Callers : pc'[q] # "idle" => base'[q] \in ready
PROOF BY DEF RevisionInv, TypeOK, SeenInv

\* Every step keeps what applies name and write.
LEMMA NextSeenInv == RevisionInv /\ SeenInv /\ [Next]_vars => SeenInv'
PROOF
<1> SUFFICES ASSUME RevisionInv, SeenInv, [Next]_vars  PROVE SeenInv'
  OBVIOUS
<1>t. TypeOK
  BY DEF RevisionInv
<1>l. \A r \in late : AsRead(r)
  BY DEF SeenInv
<1>c. \A q \in Callers : pc[q] # "idle" => base[q] \in ready
  BY DEF SeenInv
<1>1. ASSUME NEW p \in Callers, NEW b \in BaseKeys, Call(p, b)  PROVE SeenInv'
  <2>1. UNCHANGED <<recorded, expected, ready>> /\ late' = late /\ b \in ready
    BY <1>1 DEF Call, service
  <2>2. \A q \in Callers : pc'[q] # "idle" => base'[q] \in ready
    BY <1>1, <1>c, <1>t DEF Call, TypeOK
  <2> QED BY <2>1, <2>2, <1>l, SeenKept
<1>2. ASSUME NEW p \in Callers, NEW s \in Writes, Refused(p, s) \/ GivesUp(p, s)
      PROVE  SeenInv'
  <2>1. /\ UNCHANGED <<base, expected, ready>> /\ UNCHANGED service
        /\ pc' = [pc EXCEPT ![p] = "idle"] /\ pc[p] = s
    BY <1>2 DEF Refused, GivesUp, ReturnError
  <2>2. \A r \in late' : AsRead(r)
    <3>1. late' \in {late, late \cup {Request(p, s)}}
      BY <1>2 DEF Refused, GivesUp
    <3>2. AsRead(Request(p, s))
      BY <2>1, CallsAsRead
    <3> QED BY <3>1, <3>2, <1>l
  <2>3. UNCHANGED recorded
    BY <2>1 DEF service
  <2> QED BY <2>1, <2>2, <2>3, CallEnds, SeenKept
<1>3. ASSUME NEW p \in Callers, StatusUnread(p) \/ Converged(p) \/ NotConverged(p)
      PROVE  SeenInv'
  <2>1. /\ UNCHANGED <<base, expected, ready, late>> /\ UNCHANGED service
        /\ pc' = [pc EXCEPT ![p] = "idle"]
    BY <1>3 DEF StatusUnread, Converged, NotConverged, ReturnError
  <2>2. UNCHANGED recorded
    BY <2>1 DEF service
  <2> QED BY <2>1, <2>2, <1>l, CallEnds, SeenKept
<1>4. ASSUME NEW p \in Callers, NEW s \in Writes, NEW full \in BOOLEAN,
             Answered(p, s, full)
      PROVE  SeenInv'
  <2>1. PICK r : r = Request(p, s)
    OBVIOUS
  <2>2. /\ r \in Requests /\ Plausible(r) /\ AsRead(r) /\ ~Conflict(r) /\ Serve(r)
    BY <1>4, <2>1, CallsPlausible, CallsAsRead DEF Answered
  <2>3. UNCHANGED <<base, expected, ready, late>>
    BY <1>4 DEF Answered
  <2>4. \A b \in BaseKeys : Recorded(b, "apply")' # 0 =>
          b \in ready /\ Recorded(b, "apply")' = expected[b] + 1
    BY <2>2, ServeIsWrite
  <2>5. \A q \in Callers : pc'[q] # "idle" => base'[q] \in ready'
    BY <1>4, <1>c, <1>t, <2>3 DEF Answered, TypeOK, Writes
  <2>6. \A x \in late' : AsRead(x)'
    BY <1>l, <2>3 DEF AsRead
  <2> QED BY <2>3, <2>4, <2>5, <2>6 DEF SeenInv, Recorded
<1>5. ASSUME NEW b \in BaseKeys, Read(b)  PROVE SeenInv'
  <2>1. /\ b \notin ready /\ ready' = ready \cup {b}
        /\ expected' = [expected EXCEPT ![b] = revision]
        /\ UNCHANGED <<pc, base, recorded, late>>
    BY <1>5 DEF Read, client, service
  <2>2. \A c \in ready : c \in ready' /\ expected'[c] = expected[c]
    BY <2>1, <1>t DEF TypeOK
  <2>3. \A x \in late' : AsRead(x)'
    BY <1>l, <2>1, <2>2 DEF AsRead
  <2>4. \A c \in BaseKeys : Recorded(c, "apply")' # 0 =>
          c \in ready' /\ Recorded(c, "apply")' = expected'[c] + 1
    BY <2>1, <2>2 DEF SeenInv, Recorded
  <2>5. \A q \in Callers : pc'[q] # "idle" => base'[q] \in ready'
    BY <1>c, <2>1
  <2> QED BY <2>3, <2>4, <2>5 DEF SeenInv, Recorded
<1>6. CASE OtherWrite \/ UNCHANGED vars
  <2>1. UNCHANGED <<pc, base, recorded, expected, ready, late>>
    BY <1>6 DEF OtherWrite, vars, client, service
  <2> QED BY <2>1, <1>c, <1>l, SeenKept
<1>7. ASSUME NEW r \in late, Arrive(r)  PROVE SeenInv'
  <2>1. UNCHANGED <<pc, base, expected, ready>> /\ late' \subseteq late
    BY <1>7 DEF Arrive, client
  <2>2. r \in Requests /\ Plausible(r) /\ AsRead(r)
    BY <1>l DEF RevisionInv, TypeOK
  <2>3. CASE Conflict(r)
    <3>1. UNCHANGED recorded
      BY <1>7, <2>3 DEF Arrive, service
    <3> QED BY <2>1, <3>1, <1>c, <1>l, SeenKept
  <2>4. CASE ~Conflict(r)
    <3>1. \A b \in BaseKeys : Recorded(b, "apply")' # 0 =>
            b \in ready /\ Recorded(b, "apply")' = expected[b] + 1
      BY <1>7, <2>2, <2>4, ServeIsWrite DEF Arrive
    <3>2. \A x \in late' : AsRead(x)'
      BY <1>l, <2>1 DEF AsRead
    <3> QED BY <2>1, <3>1, <3>2, <1>c DEF SeenInv, Recorded
  <2> QED BY <2>3, <2>4
<1> QED BY <1>1, <1>2, <1>3, <1>4, <1>5, <1>6, <1>7 DEF Next, ProvisionRealm

ProvisionInv == RevisionInv /\ ReceiptInv /\ SeenInv

\* All three invariants hold throughout.
LEMMA AlwaysProvisionInv == Spec => []ProvisionInv
PROOF
<1>1. Init => SeenInv
  BY DEF Init, SeenInv, Recorded, Writes
<1> QED BY <1>1, NextSeenInv, AlwaysReceiptInv, PTL DEF Spec, ProvisionInv

-------------------------------------------------------------------------------
(* Step by step.                                                           *)

AllTold == [p \in Callers |-> Told(p)]

\* Promise sees nothing of a step that keeps all it is mapped to.
LEMMA NothingDone ==
  ASSUME UNCHANGED service
  PROVE  UNCHANGED Promise!environment
PROOF
<1>1. revision' = revision /\ observed' = observed /\ recorded' = recorded
  BY DEF service
<1> QED BY <1>1 DEF Promise!environment, Done, Recorded

\* A receipt that only marks the failed step or the status tells of no write.
LEMMA NothingTold ==
  ASSUME TypeOK, NEW p \in Callers,
         \A q \in Callers \ {p} : receipt'[q] = receipt[q],
         receipt'[p].steps \in {receipt[p].steps, receipt[p].steps \cup {"status"}}
  PROVE  AllTold' = AllTold
PROOF
<1>1. ASSUME NEW q \in Callers  PROVE Told(q)' = Told(q)
  <2>1. CASE q # p
    BY <1>1, <2>1 DEF Told
  <2>2. CASE q = p
    BY <2>2 DEF Told, Reached
  <2> QED BY <2>1, <2>2
<1> QED BY <1>1 DEF AllTold

\* A call that returns an error is one that fails.
LEMMA ErrorIsFail ==
  ASSUME ProvisionInv, NEW p \in Callers, NEW s \in Steps, pc[p] = s,
         ReturnError(p, s), UNCHANGED service
  PROVE  Promise!Fail(p)
PROOF
<1>1. TypeOK /\ outcome[p] = "none"
  BY DEF ProvisionInv, RevisionInv, ReceiptInv, CallReceipt
<1>2. AllTold' = AllTold
  <2>1. /\ \A q \in Callers \ {p} : receipt'[q] = receipt[q]
        /\ receipt'[p].steps = receipt[p].steps
    BY <1>1 DEF ReturnError, TypeOK
  <2> QED BY <1>1, <2>1, NothingTold
<1>3. UNCHANGED <<expected, ready, base>> /\ outcome' = [outcome EXCEPT ![p] = "error"]
  BY DEF ReturnError
<1> QED BY <1>1, <1>2, <1>3, NothingDone DEF Promise!Fail, AllTold

\* An answered step tells its caller of one more write.
LEMMA AnsweredIsTell ==
  ASSUME ProvisionInv, NEW p \in Callers, NEW s \in Writes, NEW full \in BOOLEAN,
         Answered(p, s, full)
  PROVE  Promise!Tell(p)
PROOF
<1>1. PICK r : r = Request(p, s)
  OBVIOUS
<1>t. TypeOK /\ RevisionInv /\ SeenInv
  BY DEF ProvisionInv, RevisionInv
<1>2. /\ r \in Requests /\ Plausible(r) /\ AsRead(r) /\ ~Conflict(r) /\ Serve(r)
      /\ r.base = base[p] /\ r.step = s
  BY <1>1, <1>t, CallsPlausible, CallsAsRead DEF Answered, Request
<1>3. /\ Promise!Write(base[p]) \/ UNCHANGED Promise!environment
      /\ Nth(s) <= Done(base[p])'
  <2>1. /\ Promise!Write(r.base) \/ UNCHANGED Promise!environment
        /\ Nth(r.step) <= Done(r.base)'
    BY <1>2, <1>t, ServeIsWrite
  <2>2. base' = base
    BY DEF Answered
  <2>3. Promise!Write(r.base) => Promise!Write(base[p])
    BY <1>2 DEF Promise!Write
  <2>4. Done(r.base)' = Done(base[p])'
    BY <1>2, <2>2 DEF Done, Recorded
  <2> QED BY <1>2, <2>1, <2>3, <2>4
<1>4. /\ pc[p] = s /\ UNCHANGED <<base, outcome, expected, ready>>
      /\ receipt' = [receipt EXCEPT ![p].steps = @ \cup {s}]
      /\ base[p] \in BaseKeys
  BY <1>t DEF Answered, TypeOK
<1>5. outcome[p] = "none" /\ receipt[p].steps = StepsBefore(s)
  BY <1>4 DEF ProvisionInv, ReceiptInv, CallReceipt, Steps
<1>6. Told(p) + 1 = Nth(s) /\ Told(p) \in Nat
  BY <1>5 DEF Told, Reached, StepsBefore, Nth, Writes
<1>7. Told(p)' = Nth(s)
  <2>1. receipt'[p].steps = StepsBefore(s) \cup {s}
    BY <1>4, <1>5, <1>t DEF TypeOK
  <2> QED BY <2>1 DEF Told, Reached, StepsBefore, Nth, Writes
<1>8. AllTold' = [AllTold EXCEPT ![p] = @ + 1]
  <2>1. \A q \in Callers : q # p => Told(q)' = Told(q)
    BY <1>4, <1>t DEF Told, TypeOK
  <2> QED BY <2>1, <1>6, <1>7 DEF AllTold
<1>9. AllTold[p] < AllDone'[base[p]]
  <2>1. Done(base[p])' \in Nat
    BY DEF Done, Reached
  <2>2. AllTold[p] = Told(p) /\ AllDone'[base[p]] = Done(base[p])'
    BY <1>4 DEF AllTold, AllDone
  <2>3. Told(p) < Done(base[p])'
    BY <1>3, <1>6, <2>1 DEF Nth, Writes
  <2> QED BY <2>2, <2>3
<1> QED BY <1>3, <1>4, <1>5, <1>8, <1>9 DEF Promise!Tell, AllTold, AllDone

\* Nothing is done and nobody was told of anything at first.
LEMMA ProvisionInit == Init => Promise!Init
PROOF
<1> SUFFICES ASSUME Init  PROVE Promise!Init
  OBVIOUS
<1>1. \A b \in BaseKeys : Done(b) = 0
  BY DEF Init, Done, Reached, Recorded, Writes
<1>2. \A p \in Callers : Told(p) = 0
  BY DEF Init, Told, Reached, NoReceipt
<1> QED BY <1>1, <1>2 DEF Init, Promise!Init

\* Every step of the code is a step of the promise or leaves it alone.
LEMMA ProvisionStep ==
  ASSUME ProvisionInv, [Next]_vars
  PROVE  [Promise!Next]_(Promise!vars)
PROOF
<1>t. TypeOK /\ RevisionInv /\ SeenInv
  BY DEF ProvisionInv, RevisionInv
<1>1. ASSUME NEW p \in Callers, NEW b \in BaseKeys, Call(p, b)
      PROVE  Promise!Begin(p, b)
  <2>1. /\ b \in ready /\ base' = [base EXCEPT ![p] = b]
        /\ \E o \in {"none", "error"} : outcome' = [outcome EXCEPT ![p] = o]
        /\ receipt' = [receipt EXCEPT ![p] = NoReceipt]
        /\ UNCHANGED <<expected, ready>> /\ UNCHANGED service
    BY <1>1 DEF Call
  <2>2. AllTold' = [AllTold EXCEPT ![p] = 0]
    BY <2>1, <1>t DEF AllTold, Told, Reached, NoReceipt, TypeOK
  <2> QED BY <2>1, <2>2, NothingDone DEF Promise!Begin, AllTold
<1>2. ASSUME NEW p \in Callers, NEW s \in Writes, Refused(p, s) \/ GivesUp(p, s)
      PROVE  Promise!Fail(p)
  BY <1>2, ErrorIsFail DEF Refused, GivesUp, Steps
<1>3. ASSUME NEW p \in Callers, StatusUnread(p)  PROVE Promise!Fail(p)
  BY <1>3, ErrorIsFail DEF StatusUnread, Steps
<1>4. ASSUME NEW p \in Callers, NEW s \in Writes, NEW full \in BOOLEAN,
             Answered(p, s, full)
      PROVE  Promise!Tell(p)
  BY <1>4, AnsweredIsTell
<1>5. ASSUME NEW p \in Callers, Converged(p) \/ NotConverged(p)
      PROVE  Promise!Fail(p) \/ Promise!Succeed(p)
  <2>1. /\ pc[p] = "status" /\ UNCHANGED <<base, expected, ready>> /\ UNCHANGED service
    BY <1>5 DEF Converged, NotConverged
  <2>2. outcome[p] = "none" /\ receipt[p].steps = Writes
    BY <2>1 DEF ProvisionInv, ReceiptInv, CallReceipt, Steps, StepsBefore
  <2>3. AllTold[p] = 3
    BY <2>2 DEF AllTold, Told, Reached, Writes
  <2>4. /\ \A q \in Callers \ {p} : receipt'[q] = receipt[q]
        /\ receipt'[p].steps = receipt[p].steps \cup {"status"}
    <3>1. CASE Converged(p)
      BY <3>1, <1>t DEF Converged, TypeOK
    <3>2. CASE NotConverged(p)
      BY <3>2, <1>t DEF NotConverged, TypeOK
    <3> QED BY <1>5, <3>1, <3>2
  <2>5. AllTold' = AllTold
    BY <1>t, <2>4, NothingTold
  <2>6. CASE Converged(p)
    <3>1. observed = revision /\ outcome' = [outcome EXCEPT ![p] = "nil"]
      BY <2>6 DEF Converged, Reconciled
    <3> QED BY <2>1, <2>2, <2>3, <2>5, <3>1, NothingDone DEF Promise!Succeed, AllTold
  <2>7. CASE NotConverged(p)
    <3>1. outcome' = [outcome EXCEPT ![p] = "error"]
      BY <2>7 DEF NotConverged
    <3> QED BY <2>1, <2>2, <2>5, <3>1, NothingDone DEF Promise!Fail, AllTold
  <2> QED BY <1>5, <2>6, <2>7
<1>6. ASSUME NEW b \in BaseKeys, Read(b)  PROVE Promise!Read(b)
  <2>1. /\ b \notin ready /\ ready' = ready \cup {b}
        /\ expected' = [expected EXCEPT ![b] = revision]
        /\ UNCHANGED <<base, outcome, receipt>> /\ UNCHANGED service
    BY <1>6 DEF Read, client
  <2> QED BY <2>1, NothingDone DEF Promise!Read, Told
<1>7. CASE OtherWrite
  <2>1. /\ revision' = revision + 1 /\ observed' \in {observed, revision'}
        /\ UNCHANGED <<base, outcome, receipt, recorded, ready, expected>>
    BY <1>7 DEF OtherWrite, client
  <2> QED BY <2>1 DEF Promise!Next, Promise!OthersWrite, Done, Told, Recorded
<1>8. ASSUME NEW r \in late, Arrive(r)
      PROVE  Promise!Silently(r.base) \/ UNCHANGED Promise!vars
  <2>1. UNCHANGED <<base, outcome, receipt, ready, expected>>
    BY <1>8 DEF Arrive, client
  <2>2. Promise!Write(r.base) \/ UNCHANGED Promise!environment
    <3>1. r \in Requests /\ Plausible(r) /\ AsRead(r)
      BY <1>t DEF RevisionInv, TypeOK, SeenInv
    <3>2. CASE Conflict(r)
      BY <1>8, <3>2, NothingDone DEF Arrive
    <3>3. CASE ~Conflict(r)
      BY <1>8, <1>t, <3>1, <3>3, ServeIsWrite DEF Arrive
    <3> QED BY <3>2, <3>3
  <2>3. UNCHANGED <<ready, expected, base, AllTold, outcome>>
    BY <2>1 DEF AllTold, Told
  <2> QED BY <2>2, <2>3 DEF Promise!Silently, Promise!vars, AllTold
<1>9. CASE UNCHANGED vars
  <2>1. UNCHANGED <<base, outcome, receipt, ready, expected>> /\ UNCHANGED service
    BY <1>9 DEF vars, client
  <2> QED BY <2>1, NothingDone DEF Promise!vars, Told
<1>10. \A r \in late : r.base \in BaseKeys
  BY <1>t DEF TypeOK, Requests
<1> QED BY <1>1, <1>2, <1>3, <1>4, <1>5, <1>6, <1>7, <1>8, <1>9, <1>10
        DEF Next, ProvisionRealm, Promise!Next

\* ProvisionRealm implements the promise of module Provision: whatever is lost,
\* late, repeated or concurrent, under one base key the three writes happen at
\* most once, in order, from the revision that the caller has read and with no
\* other write in between, and a call tells only of what has happened.
THEOREM RealmImplementsProvision == Spec => ImplementsProvision
PROOF
<1>1. ProvisionInv /\ [Next]_vars => [Promise!Next]_(Promise!vars)
  BY ProvisionStep
<1> QED BY <1>1, ProvisionInit, AlwaysProvisionInv, PTL
        DEF Spec, ImplementsProvision, Promise!Spec

-------------------------------------------------------------------------------
(* Why a step may be refused.                                              *)

\* Where one base key is the only one that writes, it was read before any
\* write, and the revision counts the writes made under it.
AloneInv ==
  \A b \in BaseKeys : Alone(b) =>
    /\ expected[b] = 0
    /\ revision = IF Done(b) < 2 THEN Done(b) ELSE 2

\* What is done is a number, and goes up only.
LEMMA DoneCounts ==
  ASSUME NEW b
  PROVE  Done(b) \in 0..3 /\ Done(b)' \in 0..3
PROOF BY DEF Done, Reached

\* A write of the promise, or none, leaves the invariant.
LEMMA WriteKeepsAlone ==
  ASSUME AloneInv, NEW b \in BaseKeys,
         Promise!Write(b) \/ UNCHANGED Promise!environment,
         UNCHANGED <<expected, others>>
  PROVE  AloneInv'
PROOF
<1> SUFFICES ASSUME NEW c \in BaseKeys, Alone(c)'
             PROVE  /\ expected'[c] = 0
                    /\ revision' = IF Done(c)' < 2 THEN Done(c)' ELSE 2
  BY DEF AloneInv
<1>1. CASE UNCHANGED Promise!environment
  <2>1. revision' = revision /\ AllDone' = AllDone
    BY <1>1 DEF Promise!environment, AllDone
  <2>2. \A d \in BaseKeys : Done(d)' = Done(d)
    BY <2>1 DEF AllDone
  <2>3. Alone(c)
    BY <2>2 DEF Alone
  <2> QED BY <2>1, <2>2, <2>3 DEF AloneInv
<1>2. CASE Promise!Write(b)
  <2>1. /\ AllDone' = [AllDone EXCEPT ![b] = @ + 1] /\ AllDone[b] < 3
        /\ revision' = IF AllDone[b] < 2 THEN revision + 1 ELSE revision
    BY <1>2 DEF Promise!Write, AllDone
  <2>2. /\ Done(b)' = Done(b) + 1
        /\ \A d \in BaseKeys : d # b => Done(d)' = Done(d)
        /\ revision' = IF Done(b) < 2 THEN revision + 1 ELSE revision
    BY <2>1 DEF AllDone
  <2>3. c = b
    BY <2>2, DoneCounts DEF Alone
  <2>4. Alone(c)
    BY <2>2, <2>3 DEF Alone
  <2> QED BY <2>2, <2>3, <2>4, DoneCounts DEF AloneInv
<1> QED BY <1>1, <1>2

\* A step that writes nothing.
LEMMA AloneKept ==
  ASSUME AloneInv, UNCHANGED <<expected, others>>, UNCHANGED service
  PROVE  AloneInv'
PROOF BY DEF AloneInv, Alone, Done, Recorded, service

\* Every step keeps it: a write under another base key ends being alone.
LEMMA NextAloneInv == ProvisionInv /\ AloneInv /\ [Next]_vars => AloneInv'
PROOF
<1> SUFFICES ASSUME ProvisionInv, AloneInv, [Next]_vars  PROVE AloneInv'
  OBVIOUS
<1>t. TypeOK /\ RevisionInv /\ SeenInv
  BY DEF ProvisionInv, RevisionInv
<1>1. ASSUME NEW p \in Callers, NEW b \in BaseKeys, Call(p, b)  PROVE AloneInv'
  BY <1>1, AloneKept DEF Call
<1>2. ASSUME NEW p \in Callers, NEW s \in Writes, Refused(p, s) \/ GivesUp(p, s)
      PROVE  AloneInv'
  BY <1>2, AloneKept DEF Refused, GivesUp, ReturnError
<1>3. ASSUME NEW p \in Callers, StatusUnread(p) \/ Converged(p) \/ NotConverged(p)
      PROVE  AloneInv'
  BY <1>3, AloneKept DEF StatusUnread, Converged, NotConverged, ReturnError
<1>4. ASSUME NEW p \in Callers, NEW s \in Writes, NEW full \in BOOLEAN,
             Answered(p, s, full)
      PROVE  AloneInv'
  <2>1. PICK r : r = Request(p, s)
    OBVIOUS
  <2>2. /\ r \in Requests /\ Plausible(r) /\ AsRead(r) /\ ~Conflict(r) /\ Serve(r)
        /\ r.base \in BaseKeys
    BY <1>4, <1>t, <2>1, CallsPlausible, CallsAsRead DEF Answered, Requests
  <2>3. UNCHANGED <<expected, others>>
    BY <1>4 DEF Answered
  <2> QED BY <1>t, <2>2, <2>3, ServeIsWrite, WriteKeepsAlone
<1>5. ASSUME NEW b \in BaseKeys, Read(b)  PROVE AloneInv'
  <2>1. /\ b \notin ready /\ expected' = [expected EXCEPT ![b] = revision]
        /\ UNCHANGED <<revision, recorded, others>>
    BY <1>5 DEF Read, service
  <2>2. Done(b) = 0
    <3>1. Recorded(b, "apply") = 0
      BY <1>t, <2>1 DEF SeenInv
    <3>2. Adjacent(b)
      BY <1>t DEF RevisionInv, ConsecutiveRevisions
    <3> QED BY <3>1, <3>2, DoneByLast DEF Adjacent
  <2>3. \A c \in BaseKeys : (Alone(c)' <=> Alone(c)) /\ Done(c)' = Done(c)
    BY <2>1 DEF Alone, Done, Recorded
  <2>4. ASSUME NEW c \in BaseKeys, Alone(c)
        PROVE  expected'[c] = 0 /\ revision' = IF Done(c)' < 2 THEN Done(c)' ELSE 2
    <3>1. expected[c] = 0 /\ revision = IF Done(c) < 2 THEN Done(c) ELSE 2
      BY <2>4 DEF AloneInv
    <3>2. expected'[c] = IF c = b THEN revision ELSE expected[c]
      BY <1>t, <2>1 DEF TypeOK
    <3> QED BY <2>1, <2>2, <2>3, <3>1, <3>2
  <2> QED BY <2>3, <2>4 DEF AloneInv
<1>6. CASE OtherWrite
  <2>1. others \in 0..OtherWrites
    BY <1>t DEF TypeOK
  <2>2. others' # 0
    BY <1>6, <2>1, BoundsAssumption DEF OtherWrite
  <2> QED BY <2>2 DEF AloneInv, Alone
<1>7. ASSUME NEW r \in late, Arrive(r)  PROVE AloneInv'
  <2>1. UNCHANGED <<expected, others>>
    BY <1>7 DEF Arrive
  <2>2. CASE Conflict(r)
    BY <1>7, <2>1, <2>2, AloneKept DEF Arrive
  <2>3. CASE ~Conflict(r)
    <3>1. r \in Requests /\ Plausible(r) /\ AsRead(r) /\ r.base \in BaseKeys
      BY <1>t DEF RevisionInv, TypeOK, SeenInv, Requests
    <3> QED BY <1>7, <1>t, <2>1, <2>3, <3>1, ServeIsWrite, WriteKeepsAlone DEF Arrive
  <2> QED BY <2>2, <2>3
<1>8. CASE UNCHANGED vars
  BY <1>8, AloneKept DEF vars
<1> QED BY <1>1, <1>2, <1>3, <1>4, <1>5, <1>6, <1>7, <1>8 DEF Next, ProvisionRealm

\* A provision that is alone finds the revision that its next step names.
LEMMA AloneIsCurrent ==
  ASSUME ProvisionInv, AloneInv, NEW p \in Callers, NEW s \in Writes, pc[p] = s,
         Alone(base[p]), Conflict(Request(p, s))
  PROVE  s # "apply" /\ got[p][StepBefore(s)] = 0
PROOF
<1> DEFINE b == base[p]
<1>1. /\ b \in BaseKeys /\ Adjacent(b) /\ CallInv(p)
      /\ Recorded(b, "apply") # 0 => Recorded(b, "apply") = expected[b] + 1
  BY DEF ProvisionInv, RevisionInv, TypeOK, ConsecutiveRevisions, SeenInv
<1>2. Recorded(b, s) = 0 /\ revision # Named(p, s)
  BY DEF Conflict, Known, KeyOf, Request, Recorded
<1>3. expected[b] = 0 /\ revision = IF Done(b) < 2 THEN Done(b) ELSE 2
  BY <1>1 DEF AloneInv
<1>4. CASE s = "apply"
  <2>1. Done(b) = 0
    BY <1>1, <1>2, <1>4, DoneByLast DEF Adjacent
  <2>2. Named(p, s) = expected[b]
    BY <1>4 DEF Named
  <2> QED BY <1>2, <1>3, <2>1, <2>2
<1>5. CASE s = "directory_enable"
  <2>1. Done(b) = 1 /\ Recorded(b, "apply") = 1
    BY <1>1, <1>2, <1>3, <1>5, DoneByLast DEF Adjacent, CallInv
  <2>2. Named(p, s) = got[p]["apply"] /\ got[p]["apply"] \in {0, Recorded(b, "apply")}
    BY <1>1, <1>5 DEF Named, CallInv
  <2> QED BY <1>2, <1>3, <1>5, <2>1, <2>2 DEF StepBefore
<1>6. CASE s = "client_reconcile"
  <2>1. Done(b) = 2 /\ Recorded(b, "directory_enable") = 2
    BY <1>1, <1>2, <1>3, <1>6, DoneByLast DEF Adjacent, CallInv
  <2>2. /\ Named(p, s) = got[p]["directory_enable"]
        /\ got[p]["directory_enable"] \in {0, Recorded(b, "directory_enable")}
    BY <1>1, <1>6 DEF Named, CallInv
  <2> QED BY <1>2, <1>3, <1>6, <2>1, <2>2 DEF StepBefore
<1> QED BY <1>4, <1>5, <1>6 DEF Writes

\* However often a provision is repeated, in turn or at once, and however late
\* its requests arrive, its own work never keeps it from going on.
THEOREM RefusalsAreOthers == Spec => []OnlyOthersBlock
PROOF
<1>1. Init => AloneInv
  <2> SUFFICES ASSUME Init, NEW b \in BaseKeys
               PROVE  expected[b] = 0 /\ revision = 0 /\ Done(b) = 0
    BY DEF AloneInv
  <2> QED BY DEF Init, Done, Reached, Recorded, Writes
<1>2. ProvisionInv /\ AloneInv => OnlyOthersBlock
  BY AloneIsCurrent DEF OnlyOthersBlock
<1> QED BY <1>1, <1>2, AlwaysProvisionInv, NextAloneInv, PTL DEF Spec
===============================================================================
