------------------------------ MODULE FifoLock ------------------------------
(* An asyncio.Lock, which is fair: the queue of the tasks that asked for it, *)
(* whose head holds it.  `async with` joins the queue at its end and leaves  *)
(* it however the block ends, a cancellation included.                       *)
EXTENDS Integers, Sequences, SequencesExt

HeadIs(queue, c) == queue # <<>> /\ Head(queue) = c
Join(queue, c) == Append(queue, c)
Without(queue, c) == RemoveFirst(queue, c)

\* Who is in the queue, and that nobody is in it twice.
In(q, c) == \E i \in 1..Len(q) : q[i] = c
NoDup(q) == \A i, j \in 1..Len(q) : q[i] = q[j] => i = j
=============================================================================
