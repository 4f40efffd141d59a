------------------------------ MODULE EventQueue ------------------------------
(***************************************************************************)
(* The bounded in-memory queue of queue.go.  Every method of the Go type   *)
(* runs under the queue's own mutex from its first line to its last, so    *)
(* each is one atomic function of the queue's contents.  The operators     *)
(* below give, for each method, the contents it leaves behind and, where   *)
(* the method discards something, exactly the slice it discards.           *)
(***************************************************************************)
EXTENDS Naturals, Sequences, Functions

\* How many of the n events asked for a dequeue of q hands out.
BatchLen(q, n) == IF n > Len(q) THEN Len(q) ELSE n

\* dequeue(n): the batch copied out of the front, and what stays behind.
Taken(q, n) == SubSeq(q, 1, BatchLen(q, n))

DequeueByCopy(q, n) == q   \* mutant: the batch is copied and stays queued

Dequeue(q, n) == SubSeq(q, BatchLen(q, n) + 1, Len(q))

\* enqueue(e): at capacity the head makes room for the new event.
Evicted(q, cap) == IF Len(q) >= cap THEN {Head(q)} ELSE {}
Enqueue(q, e, cap) == Append(IF Len(q) >= cap THEN Tail(q) ELSE q, e)

\* requeue(b): b goes back in front; whatever exceeds the capacity is cut
\* off the front of the result.
Excess(q, b, cap) == IF Len(b \o q) > cap THEN Len(b \o q) - cap ELSE 0

RequeueUncut(q, b, cap) == b \o q   \* mutant: the capacity is forgotten

RequeueBehind(q, b, cap) ==   \* mutant: the batch goes to the back
  SubSeq(q \o b, Excess(q, b, cap) + 1, Len(q \o b))

Requeue(q, b, cap) == SubSeq(b \o q, Excess(q, b, cap) + 1, Len(b \o q))
Truncated(q, b, cap) == Range(SubSeq(b \o q, 1, Excess(q, b, cap)))
===============================================================================
