-------------------------- MODULE PacketScheduler ---------------------------
(***************************************************************************)
(* Class PacketScheduler (scheduler/PacketScheduler.hpp): queues of        *)
(* packets by priority.  A scheduler is a record of deque, a sequence for  *)
(* each priority, sizes, and running; each operator is what one critical   *)
(* section of mtx_ does.  One thread pops, and every step that makes the   *)
(* predicate it waits for true notifies it, so that waiting for the        *)
(* condition variable is waiting for the predicate.                        *)
(***************************************************************************)
EXTENDS Integers, Sequences

Priorities == {0, 1}

NewScheduler == [deque |-> [p \in Priorities |-> << >>],
                 sizes |-> [p \in Priorities |-> 0], running |-> FALSE]

\* init does not empty the queues.
init(s, max) == [s EXCEPT !.sizes[0] = max, !.running = TRUE]

set_priority_size(s, p, n) == [s EXCEPT !.sizes[p] = n]

deinit(s) == [s EXCEPT !.running = FALSE]

\* Mutant: the queue grows.
Bug_NoDrop(s, x, p) == [s EXCEPT !.deque[p] = Append(@, x)]

\* Mutant: the new packet goes ahead of the others.
Bug_PushAhead(s, x, p) ==
  [s EXCEPT !.deque[p] = <<x>> \o (IF s.sizes[p] =< Len(@) THEN Tail(@) ELSE @)]

\* The oldest packet makes room.
push(s, x, p) ==
  [s EXCEPT !.deque[p] = Append(IF s.sizes[p] =< Len(@) THEN Tail(@) ELSE @, x)]

\* Mutant: the packet goes to the end of the queue.
Bug_PushBack(s, x, p) == [s EXCEPT !.deque[p] = Append(@, x)]

\* No limit: the packet has just been taken from the queue.
push_front(s, x, p) == [s EXCEPT !.deque[p] = <<x>> \o @]

empty(s) == \A p \in Priorities : s.deque[p] = << >>

\* What pop waits for, and what it takes: the front of the highest priority.
CanReturn(s) == ~ (empty(s) /\ s.running)

available_priority(s) == IF s.deque[1] # << >> THEN 1 ELSE 0

front(s) == Head(s.deque[available_priority(s)])

popped(s) == [s EXCEPT !.deque[available_priority(s)] = Tail(@)]
=============================================================================
