------------------------ MODULE WorkflowBatchProperties ------------------------
(***************************************************************************)
(* What an import of workflow facts must do, and what it may never do.     *)
(***************************************************************************)
EXTENDS WorkflowBatch

Requests == 1..Len(starts)

\* Every variable has its type, and while a request is being sent exactly the
\* facts before it have been answered.
TypeOK ==
  /\ facts \in Seq([key : Keys, length : Lengths]) /\ Len(facts) <= MaxInput
  /\ pc \in {"idle", "sending", "nil", "error"}
  /\ starts \in Seq(1..MaxInput) /\ (pc # "error" => (starts = <<>>) = (pc = "idle"))
  /\ chunk \in 1..(MaxInput + 1) /\ offset \in 0..MaxInput
  /\ ledger \subseteq Keys \ Refused
  /\ pc = "sending" => offset + 1 = starts[chunk]

\* The length of the body that request k sends: commas only between facts.
BodyBytes(c) ==
  LET sum[i \in 0..Len(c)] == IF i = 0 THEN 0 ELSE sum[i - 1] + c[i].length
  IN Envelope + sum[Len(c)] + Len(c) - 1

\* The requests are the import, in order and without gaps, and each stays
\* within both limits as the service counts them.
RequestsBounded ==
  \A k \in Requests :
    LET c == Chunk(facts, starts, k) IN
      /\ Len(c) \in 1..MaxFacts
      /\ BodyBytes(c) <= MaxBytes

\* No request is cut short: the fact that opens the next one would have
\* reached a limit.
RequestsFull ==
  \A k \in Requests : k + 1 \in Requests =>
    LET c == Chunk(facts, starts, k) IN
      \/ Len(c) = MaxFacts
      \/ BodyBytes(Append(c, facts[starts[k + 1]])) >= MaxBytes

\* Each result stands at its fact's place in the input, carries that index and
\* that key, and the counters add up over all requests so far.
ResultsAligned ==
  /\ Len(out.results) = offset
  /\ \A i \in 1..Len(out.results) :
       out.results[i].index = i - 1 /\ out.results[i].key = facts[i].key
  /\ out = Counted(out.results)

\* When the call returns nil and RequireAccepted agrees, every fact of the
\* import is committed; a fact that is reported accepted always is.
AcceptedIsDurable ==
  /\ \A i \in 1..Len(out.results) :
       out.results[i].accepted => out.results[i].key \in ledger
  /\ pc = "nil" /\ AllAccepted(out) =>
       \A i \in 1..Len(facts) : facts[i].key \in ledger

\* What a failed import leaves committed is the facts of its first requests:
\* nothing of a later request is committed while an earlier one is not.
CommittedInOrder ==
  \A k \in Requests : Acceptable(Chunk(facts, starts, k)) \subseteq ledger
    \/ \A j \in Requests : j > k =>
         ledger \cap Acceptable(Chunk(facts, starts, j)) \subseteq
           UNION {Acceptable(Chunk(facts, starts, i)) : i \in 1..k}

\* What a row says of its fact.
Said(row) ==
  IF ~row.accepted THEN "refused" ELSE IF row.duplicate THEN "duplicate" ELSE "new"

\* The import, the result and the call as module ImportLedger sees them.
ImportKeys == [i \in 1..Len(facts) |-> facts[i].key]
Fates == [i \in 1..Len(out.results) |-> Said(out.results[i])]
CallState == IF pc = "sending" THEN "running" ELSE pc

\* The code implements the promise of module ImportLedger.
Ledger == INSTANCE ImportLedger WITH keys <- ImportKeys, told <- Fates, state <- CallState

ImplementsLedger == Ledger!Spec

\* Replaying under the same keys gets an import through in the end, although
\* what earlier calls committed answers as duplicates.
ReplayCompletes == ~Rejected(facts) => <>(pc = "nil")
===============================================================================
