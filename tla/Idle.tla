-------------------------------- MODULE Idle --------------------------------
(***************************************************************************)
(* Idle detection (src/lua/config.cpp): one event-loop timer that input     *)
(* re-arms, and the hooks "idle" and "resume" that Lua scripts register.    *)
(* Time is abstract: an armed timer may expire at any step.                 *)
(***************************************************************************)

VARIABLES
    idle_timeout,   \* config->idle_timeout_ms > 0
    idle_source,    \* the timer is armed
    is_idle,        \* nnwm_server::is_idle
    idle_hook       \* the hook that fired last, what a script believes

idleVars == <<idle_timeout, idle_source, is_idle, idle_hook>>

IdleTypeOK ==
    /\ idle_timeout \in BOOLEAN
    /\ idle_source \in BOOLEAN
    /\ is_idle \in BOOLEAN
    /\ idle_hook \in {"idle", "resume"}

IdleInit ==
    /\ idle_timeout \in BOOLEAN
    /\ idle_source = idle_timeout
    /\ is_idle = FALSE
    /\ idle_hook = "resume"

\* idle_timer_cb
IdleTimer ==
    /\ idle_source
    /\ idle_source' = FALSE
    /\ is_idle' = TRUE
    /\ idle_hook' = IF is_idle THEN idle_hook ELSE "idle"
    /\ UNCHANGED idle_timeout

\* mutant: the resumption does not arm the timer
NotifyUnarmed ==
    \/ ~idle_timeout /\ UNCHANGED idleVars
    \/ /\ idle_timeout
       /\ is_idle' = FALSE
       /\ idle_hook' = IF is_idle THEN "resume" ELSE idle_hook
       /\ idle_source' = (idle_source \/ ~is_idle)
       /\ UNCHANGED idle_timeout

\* nnwm_notify_activity, the first thing every input handler does
NotifyActivity ==
    \/ ~idle_timeout /\ UNCHANGED idleVars
    \/ /\ idle_timeout
       /\ is_idle' = FALSE
       /\ idle_hook' = IF is_idle THEN "resume" ELSE idle_hook
       /\ idle_source' = TRUE
       /\ UNCHANGED idle_timeout

\* idle_apply_config, at startup and at the end of a reload
IdleApplyConfig(timeout) ==
    /\ idle_timeout' = timeout
    /\ is_idle' = (is_idle /\ ~timeout)
    /\ idle_source' = timeout
    /\ UNCHANGED idle_hook

-----------------------------------------------------------------------------

\* While the user is present and a timeout is set, the timer that will notice
\* his absence is armed: no order of input, expiry and reload loses it.
IdleWatched == idle_timeout /\ ~is_idle => idle_source

\* A script that was told "idle" is told "resume" before the compositor counts
\* the user as present again (CHANGELOG: resume "fires on the first input event
\* after the system was idle").
ResumeTold == idle_hook = "idle" => is_idle

=============================================================================
