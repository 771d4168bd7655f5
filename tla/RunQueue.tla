------------------------------ MODULE RunQueue ------------------------------
(***************************************************************************)
(* The firmware's run queue seen as a sequence: what the linked list       *)
(* between runq_head and runq_tail of work-queue.c contains, oldest first. *)
(* These operators are what work_queue_schedule and                        *)
(* work_queue_deschedule do to that list; WorkQueue models how they do it  *)
(* with the slots and the next pointers, and is proved to implement them.  *)
(* Daemon uses Without for the calls among the requests of its list.       *)
(***************************************************************************)
EXTENDS Naturals, Sequences, FiniteSets

(* Work w is somewhere in queue q. *)
Queued(q, w) == \E i \in DOMAIN q : q[i] = w

(* The n-th smallest element of a finite set of numbers. *)
Nth(keep, n) ==
  CHOOSE j \in keep : Cardinality({k \in keep : k < j}) = n - 1

(* The queue once every occurrence of w is unlinked; the rest stays in its *)
(* order.  It is not written with SelectSeq because that is recursive, and *)
(* the lemmas of RunQueueLemmas need a definition they can expand.         *)
Without(q, w) ==
  LET keep == {i \in DOMAIN q : q[i] # w}
  IN  [n \in 1 .. Cardinality(keep) |-> q[Nth(keep, n)]]

=============================================================================
