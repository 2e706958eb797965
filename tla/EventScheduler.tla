-------------------------- MODULE EventScheduler --------------------------
(***************************************************************************)
(* What the simulation kernel promises its users (ADR-004): a set of live  *)
(* events, from which run() always takes the least one in (timestamp,      *)
(* priority, id) order.  Cancellation removes an event at once.  There is  *)
(* no heap, no set of cancelled ids, no trace and no telemetry here.       *)
(***************************************************************************)
EXTENDS Integers

CONSTANTS MaxTime, MaxEventId, Priorities, None

VARIABLES clock,    \* simulated time
          live,     \* events that can still be dispatched
          serving,  \* the event whose handler runs, or None
          issued,   \* number of ids handed out
          phase     \* "open", "running", "stopping" or "ended"

svars == <<clock, live, serving, issued, phase>>

LiveEvent == [timestamp : 0..MaxTime, priority : Priorities, id : 0..MaxEventId,
              cause : 0..MaxEventId \cup {None}]

(* e is the only event of the set S that every other one follows. *)
IsLeast(e, S) ==
  \A f \in S \ {e} :
    \/ e.timestamp < f.timestamp
    \/ e.timestamp = f.timestamp /\ e.priority < f.priority
    \/ e.timestamp = f.timestamp /\ e.priority = f.priority /\ e.id < f.id

Init ==
  /\ clock = 0
  /\ live = {}
  /\ serving = None
  /\ issued = 0
  /\ phase = "open"

(* Events are added and removed before the run or by the running handler. *)
Callable == phase = "open" \/ serving # None

(* A new event has the next id, the handled event as its cause, and does not *)
(* lie in the past.                                                          *)
Add(e) ==
  /\ Callable
  /\ e.id = issued
  /\ e.cause = (IF serving = None THEN None ELSE serving.id)
  /\ e.timestamp >= clock
  /\ live' = live \cup {e}
  /\ issued' = issued + 1
  /\ UNCHANGED <<clock, serving, phase>>

Remove(e) ==
  /\ Callable
  /\ live' = live \ {e}
  /\ UNCHANGED <<clock, serving, issued, phase>>

(* The only step that moves the clock, and never backwards. *)
Deliver(e) ==
  /\ phase = "running"
  /\ serving = None
  /\ IsLeast(e, live)
  /\ e.timestamp >= clock
  /\ clock' = e.timestamp
  /\ serving' = e
  /\ live' = live \ {e}
  /\ UNCHANGED <<issued, phase>>

Return ==
  /\ serving # None
  /\ serving' = None
  /\ UNCHANGED <<clock, live, issued, phase>>

Begin ==
  /\ phase = "open"
  /\ phase' = "running"
  /\ UNCHANGED <<clock, live, serving, issued>>

(* The handler of the current event asks for a stop: nothing follows it. *)
Stop ==
  /\ phase = "running"
  /\ serving # None
  /\ phase' = "stopping"
  /\ UNCHANGED <<clock, live, serving, issued>>

End ==
  /\ phase \in {"running", "stopping"}
  /\ phase' = "ended"
  /\ serving' = None
  /\ UNCHANGED <<clock, live, issued>>

Next ==
  \/ \E e \in LiveEvent : Add(e)
  \/ \E e \in live : Remove(e) \/ Deliver(e)
  \/ Return
  \/ Begin
  \/ Stop
  \/ End

Spec == Init /\ [][Next]_svars

=============================================================================
