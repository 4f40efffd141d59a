---------------------------- MODULE RealmProvision ----------------------------
(***************************************************************************)
(* ProvisionRealm (admin_auth_project_realm.go): three writes and a read   *)
(* against one environment of the auth-project service, each write naming  *)
(* the revision that the one before it produced, each under a key derived  *)
(* from the caller's base Idempotency-Key.  Calls may overlap and may be   *)
(* repeated under the same base key; a request that its caller gave up on  *)
(* may still arrive; other administrators write to the same environment.   *)
(*                                                                         *)
(* A base key is named by its length in characters: two base keys of one   *)
(* model have different lengths.  The service (external) is what the       *)
(* comments of the source and the stateful server of the tests say of it.  *)
(***************************************************************************)
EXTENDS Naturals

CONSTANTS Callers,      \* concurrent or repeated calls of ProvisionRealm
          BaseKeys,     \* base keys the callers may use
          OtherWrites,  \* bound: writes of other administrators
          FaithfulProvider  \* every registration run records its observation

ASSUME BaseKeysAssumption == BaseKeys \subseteq Nat
ASSUME BoundsAssumption == OtherWrites \in Nat /\ FaithfulProvider \in BOOLEAN

Writes == {"apply", "directory_enable", "client_reconcile"}
Steps == Writes \cup {"status"}

VARIABLES
  pc,        \* the step a call is at, or "idle"
  base,      \* its base key
  got,       \* the revisions in the answers it received, 0 if none
  receipt,   \* the receipt it builds: the steps reported and FailedStep
  outcome,   \* how its last call ended: "none", "nil" or "error"
  expected,  \* DesiredStateRequest.ExpectedRevision sent under a base key
  ready,     \* base keys whose caller has read that revision
  revision,  \* service: the environment's authority revision, 0 before any
  observed,  \* service: the revision the provider observation describes
  recorded,  \* service: the revision recorded under a key, 0 if none
  late,      \* requests given up by their caller that may still arrive
  others     \* how many other writes there were

client == <<pc, base, got, receipt, outcome>>
service == <<revision, observed, recorded>>
vars == <<client, expected, ready, service, late, others>>

NoReceipt == [steps |-> {}, failed |-> ""]
NothingGot == [s \in Writes |-> 0]

Init ==
  /\ pc = [p \in Callers |-> "idle"]
  /\ base \in [Callers -> BaseKeys]
  /\ got = [p \in Callers |-> NothingGot]
  /\ receipt = [p \in Callers |-> NoReceipt]
  /\ outcome = [p \in Callers |-> "none"]
  /\ expected = [b \in BaseKeys |-> 0]
  /\ ready = {}
  /\ revision = 0 /\ observed = 0
  /\ recorded = [k \in BaseKeys \X Writes |-> 0]
  /\ late = {}
  /\ others = 0

-------------------------------------------------------------------------------
(* Keys.                                                                   *)

MinKeyLength == 8
MaxKeyLength == 128
SuffixLength(s) == IF s = "apply" THEN 6 ELSE 17

BaseKeyAcceptedUpTo128(b) ==   \* mutant: the suffixes are forgotten
  MinKeyLength <= b /\ b <= MaxKeyLength

\* requireAuthProjectRealmBaseKey, before any request is sent.
BaseKeyAccepted(b) ==
  MinKeyLength <= b /\ b <= MaxKeyLength - SuffixLength("directory_enable")

KeyOf(b, s) == <<b, s>>

-------------------------------------------------------------------------------
(* The service.                                                            *)

\* A registration run records what it observed, unless the provider failed.
Observes(new) == observed' = new \/ (~FaithfulProvider /\ observed' = observed)

\* Apply and directory actions advance the revision; an apply also runs the
\* client registration it implies; a reconcile only records an observation.
Write(r) ==
  /\ r.named = revision
  /\ revision' = IF r.step = "client_reconcile" THEN revision ELSE revision + 1
  /\ recorded' = [recorded EXCEPT ![KeyOf(r.base, r.step)] = revision']
  /\ CASE r.step = "apply" -> observed' \in {observed, revision'}
       [] r.step = "directory_enable" -> observed' = observed
       [] r.step = "client_reconcile" -> Observes(revision)

Known(r) == recorded[KeyOf(r.base, r.step)] # 0

\* A repeated key is answered from its record; a new one must name the
\* current revision.
Serve(r) == IF Known(r) THEN UNCHANGED service ELSE Write(r)
Conflict(r) == ~Known(r) /\ r.named # revision

OtherWrite ==
  /\ others < OtherWrites
  /\ others' = others + 1
  /\ revision' = revision + 1
  /\ observed' \in {observed, revision'}
  /\ UNCHANGED <<client, expected, ready, recorded, late>>

Arrive(r) ==
  /\ late' = late \ {r}
  /\ IF Conflict(r) THEN UNCHANGED service ELSE Serve(r)
  /\ UNCHANGED <<client, expected, ready, others>>

-------------------------------------------------------------------------------
(* The caller.                                                             *)

\* The caller reads the revision that it will name under a new base key.
Read(b) ==
  /\ b \notin ready
  /\ ready' = ready \cup {b}
  /\ expected' = [expected EXCEPT ![b] = revision]
  /\ UNCHANGED <<client, service, late, others>>

\* A refused base key returns an error and no receipt.
Call(p, b) ==
  /\ pc[p] = "idle"
  /\ b \in ready
  /\ base' = [base EXCEPT ![p] = b]
  /\ pc' = [pc EXCEPT ![p] = IF BaseKeyAccepted(b) THEN "apply" ELSE "idle"]
  /\ outcome' = [outcome EXCEPT ![p] = IF BaseKeyAccepted(b) THEN "none" ELSE "error"]
  /\ receipt' = [receipt EXCEPT ![p] = NoReceipt]
  /\ UNCHANGED <<got, expected, ready, service, late, others>>

NamedAsRead(p, s) ==   \* mutant: every step names the caller's read
  expected[base[p]]

NamedCurrent(p, s) ==   \* mutant: every later step names what is current
  IF s = "apply" THEN expected[base[p]] ELSE revision

\* The revision a step names: the caller's read, the apply's, the enable's.
Named(p, s) ==
  CASE s = "apply" -> expected[base[p]]
    [] s = "directory_enable" -> got[p]["apply"]
    [] s = "client_reconcile" -> got[p]["directory_enable"]

Request(p, s) == [base |-> base[p], step |-> s, named |-> Named(p, s)]

AfterForgetsStatus(s) ==   \* mutant: the last write ends the provision
  CASE s = "apply" -> "directory_enable"
    [] s = "directory_enable" -> "client_reconcile"
    [] s = "client_reconcile" -> "done"

After(s) ==
  CASE s = "apply" -> "directory_enable"
    [] s = "directory_enable" -> "client_reconcile"
    [] s = "client_reconcile" -> "status"

\* A 2xx answer.  One with an empty body decodes to a zero revision.
Answered(p, s, full) ==
  /\ pc[p] = s
  /\ ~Conflict(Request(p, s))
  /\ Serve(Request(p, s))
  /\ got' = [got EXCEPT ![p][s] =
              IF full THEN recorded'[KeyOf(base[p], s)] ELSE 0]
  /\ receipt' = [receipt EXCEPT ![p].steps = @ \cup {s}]
  /\ pc' = [pc EXCEPT ![p] = After(s)]
  /\ UNCHANGED <<base, outcome, expected, ready, late, others>>

ReturnErrorEarly(p, s) ==   \* mutant: the failed step is reported as done
  /\ receipt' = [receipt EXCEPT ![p] = [steps |-> @.steps \cup {s}, failed |-> s]]
  /\ outcome' = [outcome EXCEPT ![p] = "error"]
  /\ pc' = [pc EXCEPT ![p] = "idle"]
  /\ got' = [got EXCEPT ![p] = NothingGot]
  /\ UNCHANGED <<base, expected, ready, others>>

ReturnError(p, s) ==
  /\ receipt' = [receipt EXCEPT ![p].failed = s]
  /\ outcome' = [outcome EXCEPT ![p] = "error"]
  /\ pc' = [pc EXCEPT ![p] = "idle"]
  /\ got' = [got EXCEPT ![p] = NothingGot]
  /\ UNCHANGED <<base, expected, ready, others>>

Refused(p, s) ==
  /\ pc[p] = s
  /\ Conflict(Request(p, s))
  /\ ReturnError(p, s)
  /\ UNCHANGED <<service, late>>

\* No usable answer: the transport failed, the context ended, the status or
\* the body was no success.  The request may have been served, may be served
\* later, or never.
GivesUp(p, s) ==
  /\ pc[p] = s
  /\ ReturnError(p, s)
  /\ late' = late \cup {Request(p, s)}
  /\ UNCHANGED service

StatusUnread(p) ==
  /\ pc[p] = "status"
  /\ ReturnError(p, "status")
  /\ UNCHANGED <<service, late>>

Reconciled == observed # 0 /\ observed = revision

Converged(p) ==
  /\ pc[p] = "status"
  /\ Reconciled
  /\ pc' = [pc EXCEPT ![p] = "idle"]
  /\ outcome' = [outcome EXCEPT ![p] = "nil"]
  /\ receipt' = [receipt EXCEPT ![p].steps = @ \cup {"status"}]
  /\ got' = [got EXCEPT ![p] = NothingGot]
  /\ UNCHANGED <<base, expected, ready, service, late, others>>

\* ErrAuthProjectRealmNotConverged, also for a status with an empty body.
NotConverged(p) ==
  /\ pc[p] = "status"
  /\ pc' = [pc EXCEPT ![p] = "idle"]
  /\ outcome' = [outcome EXCEPT ![p] = "error"]
  /\ receipt' = [receipt EXCEPT ![p] =
                   [steps |-> @.steps \cup {"status"}, failed |-> "status"]]
  /\ got' = [got EXCEPT ![p] = NothingGot]
  /\ UNCHANGED <<base, expected, ready, service, late, others>>

ProvisionRealm(p) ==
  \/ \E b \in BaseKeys : Call(p, b)
  \/ \E s \in Writes : Refused(p, s) \/ GivesUp(p, s)
                       \/ \E full \in BOOLEAN : Answered(p, s, full)
  \/ StatusUnread(p) \/ Converged(p) \/ NotConverged(p)

Next ==
  \/ \E p \in Callers : ProvisionRealm(p)
  \/ \E b \in BaseKeys : Read(b)
  \/ OtherWrite
  \/ \E r \in late : Arrive(r)

Spec == Init /\ [][Next]_vars

(***************************************************************************)
(* A caller that keeps retrying under its key, over a network on which     *)
(* each kind of request is answered again and again.                       *)
(***************************************************************************)
Fairness ==
  /\ \A b \in BaseKeys : WF_vars(Read(b))
  /\ \A p \in Callers :
       /\ \A b \in BaseKeys : BaseKeyAccepted(b) => SF_vars(Call(p, b))
       /\ \A s \in Writes : SF_vars(Answered(p, s, TRUE))
       /\ SF_vars(Converged(p))
       /\ WF_vars(\/ StatusUnread(p) \/ NotConverged(p)
                  \/ \E s \in Writes : Refused(p, s) \/ GivesUp(p, s))

FairSpec == Spec /\ Fairness
===============================================================================
