------------------------------- MODULE Timers -------------------------------
(***************************************************************************)
(* nnwm.timer (src/lua/config.cpp): C objects on the event loop that call   *)
(* Lua functions, and the Lua handles that cancel, pause and resume them,   *)
(* from other callbacks or from the timer's own.  The memory of a timer is  *)
(* freed and reused, so a timer stands for an address.  The registry holds  *)
(* a reference to the handle of a live timer, so the handle's finalizer     *)
(* never finds one.  Time advances in ticks of a millisecond.               *)
(***************************************************************************)
EXTENDS Naturals

CONSTANTS
    Timer,      \* addresses
    Handle,     \* userdata objects; one that Lua dropped may be made anew
    Null,
    Period,     \* the milliseconds scripts ask for
    OwnCalls    \* the calls a callback makes on the handle of its own timer

\* nnwm_timer, and left: the time until its deadline
TimerState == [left : Nat, interval : Nat, armed : BOOLEAN, paused : BOOLEAN,
               remaining : Nat, handle : Handle]

ASSUME TimersAssumption ==
    /\ Null \notin Timer \cup Handle \cup TimerState
    /\ Period \subseteq Nat
    /\ OwnCalls \subseteq {"cancel", "pause", "resume"}

VARIABLES
    timer,     \* nnwm_timer at each address, or Null: freed
    handle,    \* the timer a handle points to, or Null
    running,   \* the timer whose callback runs, or Null
    owed,      \* the time a script still has to wait for each callback
    broken     \* freed memory was used

timerVars == <<timer, handle, running, owed, broken>>

TimerTypeOK ==
    /\ timer \in [Timer -> TimerState \cup {Null}]
    /\ handle \in [Handle -> Timer \cup {Null}]
    /\ running \in Timer \cup {Null}
    /\ owed \in [Timer -> Nat]
    /\ broken \in BOOLEAN

TimerInit ==
    /\ timer = [t \in Timer |-> Null]
    /\ handle = [h \in Handle |-> Null]
    /\ running = Null
    /\ owed = [t \in Timer |-> 0]
    /\ broken = FALSE

LiveTimers == {t \in Timer : timer[t] # Null}

\* l_nnwm_timer, timer_alloc: zero milliseconds leave the source disarmed, and
\* a repeating timer of zero is one that fires once
NewTimer(t, h, ms, once) ==
    /\ timer[t] = Null
    /\ handle[h] = Null /\ \A u \in LiveTimers : timer[u].handle # h
    /\ timer' = [timer EXCEPT ![t] =
                   [left |-> ms, interval |-> IF once THEN 0 ELSE ms, armed |-> ms > 0,
                    paused |-> FALSE, remaining |-> 0, handle |-> h]]
    /\ handle' = [handle EXCEPT ![h] = t]
    /\ owed' = [owed EXCEPT ![t] = ms]
    /\ UNCHANGED <<running, broken>>

\* a method of the handle: it does nothing when the handle is null, and touches
\* freed memory when its timer is gone
Method(h, call) ==
    /\ ~broken /\ handle[h] # Null
    /\ handle[h] = running => call \in OwnCalls

Use(h, new) ==
    IF timer[handle[h]] = Null
    THEN broken' = TRUE /\ UNCHANGED timer
    ELSE timer' = [timer EXCEPT ![handle[h]] = new] /\ UNCHANGED broken

\* timer_handle_cancel
Cancel(h) ==
    /\ Method(h, "cancel")
    /\ Use(h, Null)
    /\ handle' = [handle EXCEPT ![h] = Null]
    /\ UNCHANGED <<running, owed>>

\* mutant: the remaining time is not kept
PausedAnew(t) == [t EXCEPT !.remaining = 0, !.armed = FALSE, !.paused = TRUE]

\* timer_handle_pause
Paused(t) == [t EXCEPT !.remaining = t.left, !.armed = FALSE, !.paused = TRUE]

Pause(h) ==
    /\ Method(h, "pause")
    /\ timer[handle[h]] # Null => ~timer[handle[h]].paused
    /\ Use(h, Paused(timer[handle[h]]))
    /\ UNCHANGED <<handle, running, owed>>

\* timer_handle_resume: at least a millisecond
AtLeastOne(ms) == IF ms > 0 THEN ms ELSE 1
Resumed(t) == [t EXCEPT !.left = AtLeastOne(t.remaining), !.armed = TRUE, !.paused = FALSE]

Resume(h) ==
    /\ Method(h, "resume")
    /\ timer[handle[h]] # Null => timer[handle[h]].paused
    /\ Use(h, Resumed(timer[handle[h]]))
    /\ UNCHANGED <<handle, running, owed>>

\* nnwm_timer_cb, up to the call of the Lua function; the source has fired and
\* is not armed any more
Expired(t) == t # Null /\ t.armed /\ t.left = 0

FireStart(t) ==
    /\ ~broken /\ running = Null
    /\ Expired(timer[t])
    /\ timer' = [timer EXCEPT ![t].armed = FALSE]
    /\ running' = IF timer[t].paused THEN Null ELSE t
    /\ UNCHANGED <<handle, owed, broken>>

\* mutant: the handle keeps its timer
OwnerKept(t) == handle

\* timer_destroy nulls the handle before it frees the timer
Disowned(t) == [handle EXCEPT ![timer[t].handle] = Null]

\* mutant: the source is not armed again
AgainUnarmed(t) == [t EXCEPT !.left = t.interval]

\* nnwm_timer_cb, after the Lua function returned: it goes on with its timer,
\* which the function may have freed
Again(t) == [t EXCEPT !.left = t.interval, !.armed = TRUE]

FireEnd(t) ==
    /\ running = t
    /\ running' = Null
    /\ broken' = (timer[t] = Null)
    /\ \/ /\ timer[t] # Null => timer[t].interval = 0
          /\ timer' = [timer EXCEPT ![t] = Null]
          /\ handle' = IF timer[t] = Null THEN handle ELSE Disowned(t)
          /\ UNCHANGED owed
       \/ /\ timer[t] # Null /\ timer[t].interval > 0
          /\ timer' = [timer EXCEPT ![t] = Again(@)]
          /\ owed' = [owed EXCEPT ![t] = IF timer[t].paused THEN @ ELSE timer[t].interval]
          /\ UNCHANGED handle

\* mutant
LessEver(n) == n - 1

\* a millisecond passes, for the deadline and for the script alike; a timer that
\* is due may be called late
Less(n) == IF n = 0 THEN 0 ELSE n - 1

Tick ==
    /\ ~broken
    /\ timer' = [t \in Timer |->
                    IF timer[t] # Null /\ timer[t].armed
                    THEN [timer[t] EXCEPT !.left = Less(@)] ELSE timer[t]]
    /\ owed' = [t \in Timer |->
                    IF timer[t] # Null /\ ~timer[t].paused THEN Less(owed[t]) ELSE owed[t]]
    /\ <<timer, owed>>' # <<timer, owed>>
    /\ UNCHANGED <<handle, running, broken>>

TimerNext ==
    \/ \E t \in Timer :
           \/ \E h \in Handle, ms \in Period, once \in BOOLEAN :
                  ~broken /\ NewTimer(t, h, ms, once)
           \/ FireStart(t) \/ FireEnd(t)
    \/ \E h \in Handle : Cancel(h) \/ Pause(h) \/ Resume(h)
    \/ Tick

\* time passes, the event loop calls every timer that is due, one after the other,
\* and a Lua function returns
TimerFairness ==
    /\ WF_timerVars(Tick)
    /\ \A t \in Timer : SF_timerVars(FireStart(t)) /\ WF_timerVars(FireEnd(t))

TimerSpec == TimerInit /\ [][TimerNext]_timerVars /\ TimerFairness

-----------------------------------------------------------------------------

\* No callback, handle or expiry uses a timer that was freed.  "All methods are
\* safe to call on an already-cancelled or expired handle" (stubs/nnwm.lua).
NoUseAfterFree == ~broken

\* A handle is null or controls the live timer it was returned for, however its
\* address was reused since.
HandleOwner ==
    \A h \in Handle : handle[h] # Null =>
        timer[handle[h]] # Null /\ timer[handle[h]].handle = h

\* A timer that is neither paused nor in its callback is armed: no order of pause,
\* resume and expiry leaves it waiting for an event that never comes.
TimerArmed ==
    \A t \in LiveTimers : timer[t].paused \/ running = t \/ timer[t].armed

\* A callback never comes while its timer is paused, even when it paused itself,
\* nor before its period has passed, the time it was paused not counted ("restarts
\* it from where it left off", CHANGELOG).
OnTime ==
    [][ \A t \in Timer : running # t /\ running' = t => ~timer[t].paused /\ owed[t] = 0 ]_timerVars

\* A timer that stays unpaused and is not cancelled is called.
TimerCalled ==
    \A t \in Timer :
        timer[t] # Null ~> (timer[t] = Null \/ timer[t].paused \/ running = t)

=============================================================================
