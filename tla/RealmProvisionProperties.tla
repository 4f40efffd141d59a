----------------------- MODULE RealmProvisionProperties -----------------------
(***************************************************************************)
(* What a realm provision must do, and what it may never do.               *)
(***************************************************************************)
EXTENDS RealmProvision

\* The revision that step s has recorded under base key b, or 0.
Recorded(b, s) == recorded[<<b, s>>]

Requests == [base : BaseKeys, step : Writes, named : Nat]

\* Every variable has its type; what is observed is not ahead of what was
\* written.
TypeOK ==
  /\ pc \in [Callers -> Steps \cup {"idle"}]
  /\ base \in [Callers -> BaseKeys]
  /\ got \in [Callers -> [Writes -> Nat]]
  /\ receipt \in [Callers -> [steps : SUBSET Steps, failed : Steps \cup {""}]]
  /\ outcome \in [Callers -> {"none", "nil", "error"}]
  /\ expected \in [BaseKeys -> Nat] /\ ready \subseteq BaseKeys
  /\ revision \in Nat /\ observed \in 0..revision
  /\ recorded \in [BaseKeys \X Writes -> 0..revision]
  /\ late \subseteq Requests
  /\ others \in 0..OtherWrites

Adjacent(b) ==
  /\ Recorded(b, "directory_enable") # 0 =>
       /\ Recorded(b, "apply") # 0
       /\ Recorded(b, "directory_enable") = Recorded(b, "apply") + 1
  /\ Recorded(b, "client_reconcile") # 0 =>
       /\ Recorded(b, "directory_enable") # 0
       /\ Recorded(b, "client_reconcile") = Recorded(b, "directory_enable")

\* The directory is enabled at the very revision that the apply of the same
\* base key wrote, and the clients are reconciled at the one the enable wrote:
\* no write of anybody else ever slips in between the steps of one provision,
\* however often it is retried and however late its requests arrive.
ConsecutiveRevisions == \A b \in BaseKeys : Adjacent(b)

\* A call that returns nil has had every step take effect at the service under
\* its base key: none was skipped by a replay, an empty answer or a retry.
SuccessMeansAllSteps ==
  \A p \in Callers : outcome[p] = "nil" =>
    \A s \in Writes : Recorded(base[p], s) # 0

\* A call returns nil only while the provider is known to hold the current
\* configuration.
SuccessMeansReconciled ==
  [][\A p \in Callers : outcome[p] # "nil" /\ outcome'[p] = "nil" =>
       observed = revision /\ revision # 0]_vars

StepsBefore(s) ==
  CASE s = "apply" -> {}
    [] s = "directory_enable" -> {"apply"}
    [] s = "client_reconcile" -> {"apply", "directory_enable"}
    [] s = "status" -> Writes

\* The receipt of a failed call names the step to resume from: exactly the
\* steps before it are reported, and each write reported did take effect.  A
\* status that was read and found unreconciled is reported and failed.
ReceiptTruthful ==
  \A p \in Callers :
    /\ \A s \in receipt[p].steps \ {"status"} : Recorded(base[p], s) # 0
    /\ receipt[p].failed # "" =>
         /\ receipt[p].steps \ {receipt[p].failed} = StepsBefore(receipt[p].failed)
         /\ receipt[p].failed \in receipt[p].steps => receipt[p].failed = "status"

\* Every key that is sent has a length the service accepts.
KeysLegal ==
  \A p \in Callers : pc[p] \in Writes =>
    base[p] + SuffixLength(pc[p]) \in MinKeyLength..MaxKeyLength

\* How far a provision is, of which these writes are known.
Reached(S) ==
  IF "client_reconcile" \in S THEN 3
  ELSE IF "directory_enable" \in S THEN 2
  ELSE IF "apply" \in S THEN 1 ELSE 0

Done(b) == Reached({s \in Writes : Recorded(b, s) # 0})
Told(p) == Reached(receipt[p].steps)

\* The code implements the promise of module Provision: under one base key the
\* three writes happen once, in order and back to back, beginning at the
\* revision the caller has read, whatever the retries and late requests do.
Promise == INSTANCE Provision WITH
  Calls <- Callers, Provisions <- BaseKeys,
  read <- ready, seen <- expected, works <- base,
  done <- [b \in BaseKeys |-> Done(b)], told <- [p \in Callers |-> Told(p)]

ImplementsProvision == Promise!Spec

\* Nobody has written but under base key b.
Alone(b) == others = 0 /\ \A c \in BaseKeys \ {b} : Done(c) = 0

StepBefore(s) == IF s = "client_reconcile" THEN "directory_enable" ELSE "apply"

\* A step is refused for the revision it names only because somebody else has
\* written, or because the answer to the step before it came without a body:
\* never because of what earlier or concurrent calls under the same base key,
\* or their late requests, have done.
OnlyOthersBlock ==
  \A p \in Callers : \A s \in Writes :
    pc[p] = s /\ Alone(base[p]) /\ Conflict(Request(p, s)) =>
      s # "apply" /\ got[p][StepBefore(s)] = 0

\* Without competing writers, a caller that keeps retrying under one base key
\* gets there: what an earlier call achieved is replayed, never in the way.
RetryConverges == \A p \in Callers : <>(outcome[p] = "nil")
===============================================================================
