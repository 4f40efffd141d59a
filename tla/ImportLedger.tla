----------------------------- MODULE ImportLedger -----------------------------
(***************************************************************************)
(* What AppendBatch promises of an import, without bytes, bodies, indexes  *)
(* or counters: its facts are committed front to back, a few at a time,    *)
(* and the caller is told of each fact, in its place, what became of it    *)
(* when it was committed.  A call that fails may have committed a few      *)
(* facts more than it told of, but only the very next ones; it can be      *)
(* called again, and then tells of every fact afresh.                      *)
(***************************************************************************)
EXTENDS Naturals, Sequences

CONSTANTS Refused,   \* keys of facts that the service refuses
          MaxFacts   \* how many facts are committed together at most

VARIABLES
  keys,    \* the keys of the import's facts, in order
  told,    \* what the running or last call tells of its first facts
  state,   \* "idle", "running", or how the last call ended: "nil", "error"
  ledger   \* the keys that are committed

vars == <<keys, told, state, ledger>>

Init ==
  /\ told = <<>>
  /\ state = "idle"
  /\ ledger = {}

\* The facts after those that the caller was told of, up to number m.
Following(m) == (Len(told) + 1)..m

Ends == {m \in 1..Len(keys) : m > Len(told) /\ m <= Len(told) + MaxFacts}

Commit(m) == ledger' = ledger \cup ({keys[i] : i \in Following(m)} \ Refused)

\* What becomes of fact i when it is committed with the facts after those told.
Fate(i) ==
  IF keys[i] \in Refused THEN "refused"
  ELSE IF keys[i] \in ledger \/ \E j \in Following(i - 1) : keys[j] = keys[i]
  THEN "duplicate"
  ELSE "new"

\* A call, or the replay of one that failed.
Call ==
  /\ state \in {"idle", "error"}
  /\ told' = <<>>
  /\ state' \in {"running", "error"}
  /\ UNCHANGED <<keys, ledger>>

\* The next few facts are committed and told of; the call succeeds with the
\* last fact and not before.
Tell ==
  /\ state = "running"
  /\ \E m \in Ends :
       /\ Commit(m)
       /\ told' = [i \in 1..m |-> IF i <= Len(told) THEN told[i] ELSE Fate(i)]
       /\ state' = IF m = Len(keys) THEN "nil" ELSE "running"
  /\ UNCHANGED keys

Fail ==
  /\ state = "running"
  /\ UNCHANGED ledger \/ \E m \in Ends : Commit(m)
  /\ state' = "error"
  /\ UNCHANGED <<keys, told>>

Next == Call \/ Tell \/ Fail

Spec == Init /\ [][Next]_vars
===============================================================================
