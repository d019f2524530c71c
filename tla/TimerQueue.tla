----------------------------- MODULE TimerQueue -----------------------------
(***************************************************************************)
(* The timers (Timer.cpp) and the main loop that fires them (main.cpp,       *)
(* OSPF::tick): a round fires every timer that is due, then waits in select,  *)
(* then may handle a packet.  The actions of timers and the handlers of       *)
(* packets start, stop and restart any timers, the one that has just fired    *)
(* among them.  Costs are times relative to sys_etime.                        *)
(***************************************************************************)
EXTENDS LeftistHeap

CONSTANTS
    OneShot,    \* the timers that are a Timer
    Interval,   \* the timers that are an ITimer
    Period,     \* Period[t]: what t is started with
    Jitter,     \* what random_period may add to the start of a Timer
    Exact,      \* the timers that are started with ran false
    MaxStep     \* bound of what the clock advances between two rounds

Timers == OneShot \cup Interval

ASSUME TimerQueueAssumption ==
    /\ NULL \notin Timers /\ OneShot \cap Interval = {} /\ Exact \subseteq Timers
    /\ Period \in [Timers -> Nat \ {0}] /\ MaxStep \in Nat \ {0}
    /\ Jitter \subseteq Int /\ \A t \in OneShot, j \in Jitter : Period[t] + j > 0
    /\ Timers \cap {"tick", "select", "handler", "none"} = {}

VARIABLES
    timerq,
    active,
    at          \* where the main loop is: the timer whose action runs, or one of Places

Places == {"tick", "select", "handler"}

vars == <<timerq, active, at>>

Due(t) == timerq.elt[t].cost[1]

Running == {t \in Timers : active[t]}

Init ==
    /\ timerq = Empty
    /\ active = [t \in Timers |-> FALSE]
    /\ at = "handler"       \* the initialisation starts the first timers

-----------------------------------------------------------------------------
(* The operations on a timer. *)

RandomDelays(t) ==
    IF t \in Interval THEN 1..Period[t] ELSE {Period[t] + j : j \in Jitter}

Delays(t) == IF t \in Exact THEN {Period[t]} ELSE RandomDelays(t)

InHandler == at \in Timers \cup {"handler"} /\ UNCHANGED at

Start(t) ==
    /\ InHandler
    /\ ~active[t]
    /\ active' = [active EXCEPT ![t] = TRUE]
    /\ \E d \in Delays(t) : timerq' = add(timerq, t, <<d, 0>>)

Stop(t) ==
    /\ InHandler
    /\ active[t]
    /\ active' = [active EXCEPT ![t] = FALSE]
    /\ timerq' = del(timerq, t)

\* stop and then start with ran true, whatever it was started with.
Restart(t) ==
    /\ InHandler
    /\ active[t]
    /\ \E d \in RandomDelays(t) : timerq' = add(del(timerq, t), t, <<d, 0>>)
    /\ UNCHANGED active

-----------------------------------------------------------------------------
(* The main loop. *)

\* Mutant: an interval timer is put back one period after it has fired.
FireLate(t) ==
    /\ at = "tick" /\ gethead(timerq) = t /\ Due(t) <= 0
    /\ IF t \in OneShot
       THEN timerq' = rmhead(timerq) /\ active' = [active EXCEPT ![t] = FALSE]
       ELSE timerq' = add(rmhead(timerq), t, <<Period[t], 0>>) /\ UNCHANGED active
    /\ at' = t

\* One turn of the loop of tick: rmhead and Timer::fire or ITimer::fire, which
\* puts the timer back before its action.
Fire(t) ==
    /\ at = "tick" /\ gethead(timerq) = t /\ Due(t) <= 0
    /\ IF t \in OneShot
       THEN timerq' = rmhead(timerq) /\ active' = [active EXCEPT ![t] = FALSE]
       ELSE timerq' = add(rmhead(timerq), t, <<Due(t) + Period[t], 0>>) /\ UNCHANGED active
    /\ at' = t

Return ==
    /\ at \in Timers \cup {"handler"}
    /\ at' = "tick"
    /\ UNCHANGED <<timerq, active>>

tick ==
    /\ at = "tick"
    /\ gethead(timerq) # NULL => Due(gethead(timerq)) > 0
    /\ at' = "select"
    /\ UNCHANGED <<timerq, active>>

\* Mutant: the clock stands still.
ElapseNever(d) == timerq

Elapse(d) ==
    [timerq EXCEPT !.elt = [t \in Elements(timerq) |->
                              [timerq.elt[t] EXCEPT !.cost[1] = @ - d]]]

\* select and time_update, with the signals in between: a packet, a signal or
\* the timeout ends the wait.
Select(d) ==
    /\ at = "select"
    /\ timerq' = Elapse(d)
    /\ at' \in {"tick", "handler"}
    /\ UNCHANGED active

Next ==
    \/ \E t \in Timers : Start(t) \/ Stop(t) \/ Restart(t) \/ Fire(t)
    \/ Return \/ tick
    \/ \E d \in 0..MaxStep : Select(d)

Spec == Init /\ [][Next]_vars

\* The steps Fire, tick and Return, by what they do to at.
Round ==
    \/ at = "tick" /\ at' \in Timers \cup {"select"}
    \/ at \in Timers \cup {"handler"} /\ at' = "tick"

\* Handlers return, the loop goes on, and time passes now and then.
FairSpec == Spec /\ WF_at(Round) /\ SF_vars(\E d \in 1..MaxStep : Select(d))
-----------------------------------------------------------------------------

\* The queue stays a leftist heap, with all its links both ways, through every
\* start, stop and restart that handlers and timers' own actions make; and it
\* holds the timers that are active and no others, each with a time that is
\* at most a round in the past.
HeapSound ==
    /\ IsHeap(timerq)
    /\ Elements(timerq) = Running
    /\ \A t \in Elements(timerq) : Due(t) > -MaxStep

\* What the variables of Alarms are here.
left == [t \in Running |-> Due(t)]

ringing == IF at \in Timers THEN at ELSE "none"

\* The timers are the alarms Alarms describes: the order in which tick takes
\* them from the heap is that of their times, a timer never fires early or
\* after it was stopped, an interval timer keeps its rhythm and makes up for
\* the periods a slow round has missed, and none is due when the loop waits.
alarms == INSTANCE Alarms WITH
    Single <- OneShot, Repeated <- Interval,
    Delays <- LAMBDA t : Delays(t) \cup RandomDelays(t),
    None <- "none", left <- left, ringing <- ringing
ImplementsAlarms == alarms!Spec

\* A timer that stays active and is not restarted for ever fires again and
\* again: no sequence of starts and stops of the others loses it in the heap.
Fires ==
    \A t \in Timers :
      []<>(~active[t]) \/ []<><<active[t] /\ active'[t] /\ Due(t)' > Due(t)>>_vars
=============================================================================
