----------------------------- MODULE EventOrder -----------------------------
(***************************************************************************)
(* The total order of queued events (EventQueue, src/sim/event_queue.cpp): *)
(* ascending timestamp, then ascending priority value, then ascending id.  *)
(* The heap is a set of events; pop() takes its least element.             *)
(***************************************************************************)
EXTENDS Integers

(* Mutated form: priorities are compared before timestamps. *)
PrecedesByPriority(e, f) ==
  \/ e.priority < f.priority
  \/ e.priority = f.priority /\ e.timestamp < f.timestamp
  \/ e.timestamp = f.timestamp /\ e.priority = f.priority /\ e.id < f.id

(* LaterEvent, read as: e is popped before f. *)
Precedes(e, f) ==
  \/ e.timestamp < f.timestamp
  \/ e.timestamp = f.timestamp /\ e.priority < f.priority
  \/ e.timestamp = f.timestamp /\ e.priority = f.priority /\ e.id < f.id

(* EventQueue::pop on a heap that is not empty. *)
First(q) == CHOOSE e \in q : \A f \in q \ {e} : Precedes(e, f)

=============================================================================
