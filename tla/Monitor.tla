------------------------------ MODULE Monitor ------------------------------
(***************************************************************************)
(* monitor's timers, as a value: start_times (without the times) and the   *)
(* order in which they were started.                                       *)
(***************************************************************************)
EXTENDS Naturals, Sequences, FiniteSets

CONSTANT MaxTimers      \* MONITOR_MAX_TIMERS

ASSUME MaxTimersAssumption == MaxTimers \in Nat

NoTimers == [started |-> {}, ordered |-> <<>>]

(* Mutant of start_timer: a timer that is dropped keeps its start time     *)
start_timer_leak(t, id) ==
    LET more == Append(t.ordered, id)
    IN  IF id \in t.started THEN t
        ELSE [started |-> t.started \cup {id},
              ordered |-> IF Len(more) > MaxTimers THEN Tail(more) ELSE more]

(* A timer that runs already is left alone.  Timers over the limit are     *)
(* dropped from the front, one at most since every call ends within it.    *)
start_timer(t, id) ==
    LET more == Append(t.ordered, id)
    IN  IF id \in t.started THEN t
        ELSE IF Len(more) > MaxTimers
             THEN [started |-> (t.started \cup {id}) \ {Head(more)}, ordered |-> Tail(more)]
        ELSE [started |-> t.started \cup {id}, ordered |-> more]

(* finish_timer leaves the identifier in ordered_timers, so a request that *)
(* comes again is there twice and is dropped at the first of them.         *)
finish_timer(t, id) == [t EXCEPT !.started = @ \ {id}]
=============================================================================
