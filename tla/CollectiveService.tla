------------------------- MODULE CollectiveService -------------------------
(***************************************************************************)
(* What the ring executor promises the jobs (ADR-009; the calls of         *)
(* WorkloadRuntime to submit(), cancel() and take_completed()): every      *)
(* collective ends once, as cancelled exactly when it was cancelled before *)
(* that, and its result is handed over once.  There are no ranks, rounds,  *)
(* transfers or bytes here.                                                *)
(***************************************************************************)
EXTENDS Integers, Sequences

CONSTANTS MaxCalls, None

Outcomes == {"Succeeded", "Failed", "Cancelled"}

VARIABLES calls,  \* by collective id: whether it is cancelled, its outcome or None
          ready,  \* results not handed over, in the order of the ends
          told    \* results handed over

cvars == <<calls, ready, told>>

Start == calls = <<>> /\ ready = <<>> /\ told = <<>>

Ends(call, outcome) ==
  /\ call.outcome = None
  /\ outcome \in Outcomes
  /\ outcome = "Cancelled" <=> call.cancelled

(* A collective begins, and may be over within the call. *)
Submit(outcome) ==
  /\ Len(calls) < MaxCalls
  /\ LET call == [cancelled |-> FALSE, outcome |-> None]
     IN \/ /\ outcome = None
           /\ calls' = Append(calls, call)
           /\ UNCHANGED ready
        \/ /\ Ends(call, outcome)
           /\ calls' = Append(calls, [call EXCEPT !.outcome = outcome])
           /\ ready' = Append(ready, [collective |-> Len(calls) + 1, outcome |-> outcome])
  /\ UNCHANGED told

End(id, outcome) ==
  /\ Ends(calls[id], outcome)
  /\ calls' = [calls EXCEPT ![id].outcome = outcome]
  /\ ready' = Append(ready, [collective |-> id, outcome |-> outcome])
  /\ UNCHANGED told

(* The caller is answered at once; the end comes later. *)
Cancel(id) ==
  /\ calls[id].outcome = None
  /\ calls' = [calls EXCEPT ![id].cancelled = TRUE]
  /\ UNCHANGED <<ready, told>>

Take ==
  /\ told' = told \o ready
  /\ ready' = <<>>
  /\ UNCHANGED calls

Step ==
  \/ \E outcome \in Outcomes \cup {None} : Submit(outcome)
  \/ \E id \in 1..Len(calls) : Cancel(id) \/ \E outcome \in Outcomes : End(id, outcome)
  \/ Take

Safety == Start /\ [][Step]_cvars

(* Every collective ends, and its result is handed over. *)
Answered ==
  \A id \in 1..MaxCalls :
    id <= Len(calls) ~> \E k \in 1..Len(told) : told[k].collective = id

Contract == Safety /\ Answered

=============================================================================
