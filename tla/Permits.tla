------------------------------- MODULE Permits -------------------------------
(***************************************************************************)
(* tokio's Semaphore as the server uses it: one permit at a time, waiters  *)
(* served in the order they came, a permit that comes back handed to the   *)
(* first of them, and an acquisition that is dropped while it waits, or    *)
(* after it was handed a permit and before its task has looked.  External  *)
(* code: only what state/mod.rs and linter/pool.rs rely on.                *)
(***************************************************************************)
EXTENDS Integers, Sequences, FiniteSets

Fresh(n) == [free |-> n, queue |-> <<>>, granted |-> {}]

Semaphores(n, S) == [free : 0..n, queue : Seq(S), granted : SUBSET S]

Waiting(s) == {s.queue[i] : i \in DOMAIN s.queue}

\* acquire() on a semaphore with free permits takes one at once ...
Available(s) == s.free > 0
Take(s) == [s EXCEPT !.free = @ - 1]

\* ... and otherwise stands at the end of the queue.
Enqueue(s, c) == [s EXCEPT !.queue = Append(@, c)]

\* A task that was handed a permit goes on with it.
Collect(s, c) == [s EXCEPT !.granted = @ \ {c}]

\* A permit comes back: the first waiter has it, whether or not it is awake.
Release(s) == IF s.queue = <<>> THEN [s EXCEPT !.free = @ + 1]
              ELSE [s EXCEPT !.queue = Tail(@), !.granted = @ \cup {Head(s.queue)}]

Leave(s, i) == [s EXCEPT !.queue = SubSeq(@, 1, i - 1) \o SubSeq(@, i + 1, Len(@))]

\* The acquisition is dropped: it leaves the queue, or gives back what it was handed.
Abandon(s, c) == IF c \in s.granted THEN Release(Collect(s, c))
                 ELSE IF c \in Waiting(s)
                 THEN Leave(s, CHOOSE i \in DOMAIN s.queue : s.queue[i] = c)
                 ELSE s

\* Every permit is free, on its way to a waiter or in the hands of a holder.
Balanced(s, n, holders) ==
    s.free + Cardinality(s.granted) + Cardinality(holders) = n

\* No one waits while a permit lies idle.
NoneIdle(s) == s.free = 0 \/ s.queue = <<>>
===============================================================================
