----------------------------- MODULE BatchResponse -----------------------------
(***************************************************************************)
(* How one POST of a batch ends, and what the client makes of it           *)
(* (client.go: sendBatch, checkStatus, checkBatchResponse).                *)
(*                                                                         *)
(* An answer is a record:                                                  *)
(*   status    "unsent" the body could not be built, nothing was sent      *)
(*             "none" no HTTP answer: the transport failed                 *)
(*             "2xx", "retryable" (a status of Retry.RetryOnStatuses) or   *)
(*             "fatal" (any other)                                         *)
(*   body      "unreadable" reading it failed; "empty"; "garbled" not the  *)
(*             JSON of a response; "plain" JSON whose results are absent   *)
(*             or null; "results" JSON with a result array                 *)
(*   success   the top-level success flag                                  *)
(*   rows      the length of the result array                              *)
(*   named     every result carries an eventUuid                           *)
(*   accepted  the positions whose result says success                     *)
(***************************************************************************)
EXTENDS Naturals

Bare(status, body) ==
  [status |-> status, body |-> body, success |-> FALSE, rows |-> 0,
   named |-> TRUE, accepted |-> {}]

NoAnswers == {Bare("unsent", "empty"), Bare("none", "empty")}

\* The answers a batch of n events can meet.  A result array may be one row
\* short, which stands for every wrong length.
Answers(n) ==
  NoAnswers
  \cup {Bare(s, b) : s \in {"retryable", "fatal"}, b \in {"empty", "unreadable"}}
  \cup {Bare("2xx", b) : b \in {"empty", "unreadable", "garbled"}}
  \cup {[Bare("2xx", "plain") EXCEPT !.success = s] : s \in BOOLEAN}
  \cup UNION {[status : {"2xx"}, body : {"results"}, success : BOOLEAN,
               rows : {k}, named : BOOLEAN, accepted : SUBSET (1..k)] :
              k \in {n - 1, n}}

\* No result failed, and the envelope does not say that the batch did.
AllAccepted(a) == a.success /\ a.accepted = 1..a.rows

BodyAcceptsAnyCount(a, n) ==   \* mutant: the result count is not compared
  /\ a.body \in {"plain", "results"}
  /\ a.body = "results" => a.named
  /\ AllAccepted(a)

\* The checks that a decoded 2xx body has to pass, in the code's terms: the
\* count matches what was sent, each result names its event, none failed.
BodyAccepts(a, n) ==
  /\ a.body \in {"plain", "results"}
  /\ a.body = "results" => a.rows = n /\ a.named
  /\ AllAccepted(a)

VerdictByStatus(a, n) ==   \* mutant: a 2xx is a success whatever it says
  IF a.status \in {"none", "retryable"} THEN "retry"
  ELSE IF a.status = "2xx" THEN "nil" ELSE "fatal"

\* The error sendBatch returns: "nil", "retry" (RequestError.Retryable) or
\* "fatal".  A body that cannot be read is fatal whatever the status.
Verdict(a, n) ==
  IF a.status = "none" THEN "retry"
  ELSE IF a.status = "retryable" /\ a.body # "unreadable" THEN "retry"
  ELSE IF a.status = "2xx" /\ (a.body = "empty" \/ BodyAccepts(a, n)) THEN "nil"
  ELSE "fatal"

(***************************************************************************)
(* The ingest API, as the client relies on it (external).  Of a batch of n *)
(* events, which positions it has stored when it gives answer a: a 2xx     *)
(* without per-event results speaks for the whole batch, unless it says    *)
(* that the request failed; a complete result array speaks for each event; *)
(* any other answer, or none, leaves open what was stored.                 *)
(***************************************************************************)
Stored(a, n) ==
  IF a.status = "unsent" THEN {{}}
  ELSE IF /\ a.status = "2xx"
          /\ a.body = "empty" \/ (a.body = "plain" /\ a.success) THEN {1..n}
  ELSE IF a.status = "2xx" /\ a.body = "results" /\ a.rows = n THEN {a.accepted}
  ELSE SUBSET (1..n)
===============================================================================
