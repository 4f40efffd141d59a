----------------------------- MODULE WorkflowBatch -----------------------------
(***************************************************************************)
(* AppendBatch (workflow_timings.go): an import of observed facts is cut   *)
(* into requests, each request commits by itself, the results are put back *)
(* together under the indexes of the input, and a caller whose import      *)
(* failed half-way replays all of it under the same idempotency keys.      *)
(*                                                                         *)
(* A fact is its idempotency key and the length of its encoding.  One that *)
(* cannot be encoded fails the call exactly like one that is too long.     *)
(***************************************************************************)
EXTENDS Integers, Sequences, FiniteSets

CONSTANTS Keys,      \* idempotency keys
          Refused,   \* keys of facts that the service refuses
          Lengths,   \* lengths of encoded facts
          MaxInput,  \* bound: facts in one import
          Envelope,  \* bytes of {"observations":[]}
          MaxFacts,  \* facts per request
          MaxBytes   \* bytes per request

ASSUME InputsAssumption ==
  /\ Refused \subseteq Keys
  /\ Lengths \subseteq Nat
  /\ MaxInput \in Nat
ASSUME LimitsAssumption ==
  Envelope \in Nat /\ MaxFacts \in Nat \ {0} /\ MaxBytes \in Nat

VARIABLES
  facts,    \* the import
  pc,       \* "idle", "sending", or how the call ended: "nil", "error"
  starts,   \* where each request begins, cut before the first is sent
  chunk,    \* the number of the request that is next
  offset,   \* how many facts the answered requests held
  out,      \* the result so far
  ledger    \* service: keys of the facts it has committed

vars == <<facts, pc, starts, chunk, offset, out, ledger>>

-------------------------------------------------------------------------------
(* workflowTimingChunks.                                                   *)

ItemBytesWithoutComma(f) == f.length   \* mutant: the comma is not counted

\* The comma is counted for every fact, the first one included.
ItemBytes(f) == f.length + 1

TooLong(f) == Envelope + ItemBytes(f) > MaxBytes

\* The limits are reached before fact i joins a request that begins at start
\* and has the given size.
Full(i, start, size, f) ==
  size + ItemBytes(f) > MaxBytes \/ i - start = MaxFacts

CutsSizeKept(fs) ==   \* mutant: the size is not reset
  LET cut[i \in 0..Len(fs)] ==
        IF i = 0 THEN [starts |-> <<1>>, size |-> Envelope]
        ELSE LET before == cut[i - 1]
                 full == Full(i, before.starts[Len(before.starts)], before.size, fs[i])
             IN [starts |-> IF full THEN Append(before.starts, i) ELSE before.starts,
                 size |-> ItemBytes(fs[i]) + before.size]
  IN cut[Len(fs)].starts

\* After the first i facts: where each request begins, and how large the last
\* one is.
Cuts(fs) ==
  LET cut[i \in 0..Len(fs)] ==
        IF i = 0 THEN [starts |-> <<1>>, size |-> Envelope]
        ELSE LET before == cut[i - 1]
                 full == Full(i, before.starts[Len(before.starts)], before.size, fs[i])
             IN [starts |-> IF full THEN Append(before.starts, i) ELSE before.starts,
                 size |-> ItemBytes(fs[i]) + IF full THEN Envelope ELSE before.size]
  IN cut[Len(fs)].starts

\* The facts of request k.
Chunk(fs, cuts, k) ==
  SubSeq(fs, cuts[k], IF k < Len(cuts) THEN cuts[k + 1] - 1 ELSE Len(fs))

Rejected(fs) == fs = <<>> \/ \E i \in 1..Len(fs) : TooLong(fs[i])

-------------------------------------------------------------------------------
(* The service.                                                            *)

Acceptable(c) == {c[i].key : i \in 1..Len(c)} \ Refused

\* One row per fact; a fact is a duplicate if its key was committed before,
\* by an earlier request or earlier in this one.
Rows(c) ==
  [i \in 1..Len(c) |->
     LET ok == c[i].key \notin Refused IN
       [index |-> i - 1, key |-> c[i].key, accepted |-> ok,
        duplicate |-> ok /\ \/ c[i].key \in ledger
                            \/ \E j \in 1..(i - 1) : c[j].key = c[i].key]]

Count(rows, field) == Cardinality({i \in 1..Len(rows) : rows[i][field]})

Counted(rows) ==
  [results |-> rows, accepted |-> Count(rows, "accepted"),
   rejected |-> Len(rows) - Count(rows, "accepted"),
   duplicates |-> Count(rows, "duplicate")]

Nothing == Counted(<<>>)

\* 2xx bodies: the true one, an empty one, one that lacks its last row, one
\* whose rows are numbered from 1, and ones whose counters are off.
Answers(c) ==
  LET rows == Rows(c)
      honest == Counted(rows)
  IN {honest, Nothing, Counted(SubSeq(rows, 1, Len(c) - 1)),
      [honest EXCEPT !.results = [i \in 1..Len(c) |-> [rows[i] EXCEPT !.index = i]]],
      [honest EXCEPT !.rejected = 0],
      [honest EXCEPT !.accepted = @ + 1],
      [honest EXCEPT !.duplicates = 0]}

-------------------------------------------------------------------------------
(* The caller.                                                             *)

ValidAnyCounters(a, n) ==   \* mutant: the counters are taken on trust
  /\ \A i \in 1..Len(a.results) : a.results[i].index = i - 1
  /\ Len(a.results) = n

ValidNoDuplicates(a, n) ==   \* mutant: a duplicate counts as refused
  /\ \A i \in 1..Len(a.results) : a.results[i].index = i - 1
  /\ Len(a.results) = n
  /\ a.accepted = Count(a.results, "accepted") - Count(a.results, "duplicate")
  /\ a.rejected = n - a.accepted

\* validateWorkflowTimingBatchResult.
Valid(a, n) ==
  /\ \A i \in 1..Len(a.results) : a.results[i].index = i - 1
  /\ Len(a.results) = n
  /\ a.accepted = Count(a.results, "accepted")
  /\ a.rejected = n - Count(a.results, "accepted")
  /\ a.duplicates = Count(a.results, "duplicate")

MergedUnshifted(a) ==   \* mutant: rows keep the indexes of their request
  [results |-> out.results \o a.results,
   accepted |-> out.accepted + a.accepted,
   rejected |-> out.rejected + a.rejected,
   duplicates |-> out.duplicates + a.duplicates]

\* The answer of a request added to the result under the input's indexes.
Merged(a) ==
  [results |-> out.results \o
     [i \in 1..Len(a.results) |-> [a.results[i] EXCEPT !.index = @ + offset]],
   accepted |-> out.accepted + a.accepted,
   rejected |-> out.rejected + a.rejected,
   duplicates |-> out.duplicates + a.duplicates]

\* RequireAccepted returns nil.
AllAccepted(o) == o.rejected = 0

Init ==
  /\ facts \in UNION {[1..n -> [key : Keys, length : Lengths]] : n \in 0..MaxInput}
  /\ pc = "idle"
  /\ starts = <<>>
  /\ chunk = 1 /\ offset = 0
  /\ out = Nothing
  /\ ledger = {}

\* The first call, or the replay of one that failed.  Nothing is sent unless
\* every fact can be.
AppendBatch ==
  /\ pc \in {"idle", "error"}
  /\ pc' = IF Rejected(facts) THEN "error" ELSE "sending"
  /\ starts' = IF Rejected(facts) THEN <<>> ELSE Cuts(facts)
  /\ chunk' = 1 /\ offset' = 0
  /\ out' = Nothing
  /\ UNCHANGED <<facts, ledger>>

Current == Chunk(facts, starts, chunk)
Commit == ledger' = ledger \cup Acceptable(Current)

Appended ==
  /\ pc = "sending"
  /\ Commit
  /\ \E a \in Answers(Current) : Valid(a, Len(Current)) /\ out' = Merged(a)
  /\ offset' = offset + Len(Current)
  /\ chunk' = chunk + 1
  /\ pc' = IF chunk = Len(starts) THEN "nil" ELSE "sending"
  /\ UNCHANGED <<facts, starts>>

\* The rows do not account for every fact; the request has committed.
Unaccounted ==
  /\ pc = "sending"
  /\ Commit
  /\ \E a \in Answers(Current) : ~Valid(a, Len(Current))
  /\ pc' = "error"
  /\ UNCHANGED <<facts, starts, chunk, offset, out>>

FailedSkips ==   \* mutant: the loop goes on after an error
  /\ pc = "sending"
  /\ Commit \/ UNCHANGED ledger
  /\ chunk' = chunk + 1
  /\ pc' = IF chunk = Len(starts) THEN "error" ELSE "sending"
  /\ UNCHANGED <<facts, starts, offset, out>>

\* No answer, or none that can be used; the request may have committed.
Failed ==
  /\ pc = "sending"
  /\ Commit \/ UNCHANGED ledger
  /\ pc' = "error"
  /\ UNCHANGED <<facts, starts, chunk, offset, out>>

Next == AppendBatch \/ Appended \/ Unaccounted \/ Failed

Spec == Init /\ [][Next]_vars

\* A caller that replays what failed, over a service that answers each of the
\* requests properly again and again.
FairSpec ==
  /\ Spec
  /\ WF_vars(AppendBatch)
  /\ \A k \in 1..MaxInput : SF_vars(chunk = k /\ Appended)
  /\ WF_vars(Unaccounted \/ Failed)
===============================================================================
