------------------------------ MODULE Keyboard ------------------------------
(***************************************************************************)
(* Keyboards and keybindings (src/actions.cpp, src/lua/config.cpp), with    *)
(* what decides whether a key runs a binding: the session lock, overview    *)
(* mode, the keybinding overlay and the configuration, which may be         *)
(* reloaded at any time.  A key stands for a keysym with its modifiers.     *)
(***************************************************************************)
EXTENDS SessionLock, Idle

CONSTANTS
    Keyboards,   \* input devices
    Key,         \* chords
    VtKey,       \* the chords that switch VT
    Escape,      \* the chord that leaves overview and closes the overlay
    NoKey,
    Config       \* configurations a reload may load

ASSUME KeyboardAssumption ==
    /\ VtKey \subseteq Key /\ Escape \in Key \ VtKey /\ NoKey \notin Key
    /\ Config \subseteq [bind : [Key -> {"unbound", "repeat", "no_repeat"}],
                         repeat_delay : BOOLEAN, repeat_rate : BOOLEAN,
                         idle_timeout : BOOLEAN]

VARIABLES
    keyboards,   \* the keyboards that are plugged
    held,        \* the keys pressed on each
    repeat,      \* nnwm_keyboard: repeat_timer, repeat_sym, repeat_started
    config,      \* keybindings and keyboard options
    overview,    \* focused_output->overview
    overlay,     \* the keybinding overlay is open
    ran          \* the binding the last step ran, for the properties

kbVars == <<keyboards, held, repeat, config, overview, overlay, ran>>
seatVars == <<lockVars, idleVars, kbVars>>

NotRepeating == [armed |-> FALSE, sym |-> NoKey, started |-> FALSE]
NothingRan == [key |-> NoKey, again |-> FALSE]

SeatTypeOK ==
    /\ LockTypeOK /\ IdleTypeOK
    /\ keyboards \subseteq Keyboards
    /\ held \in [Keyboards -> SUBSET Key]
    /\ repeat \in [Keyboards -> [armed : BOOLEAN, sym : Key \cup {NoKey}, started : BOOLEAN]]
    /\ config \in Config
    /\ overview \in BOOLEAN /\ overlay \in BOOLEAN
    /\ ran \in [key : Key \cup {NoKey}, again : BOOLEAN]

SeatInit ==
    /\ LockInit /\ IdleInit
    /\ keyboards = {}
    /\ held = [k \in Keyboards |-> {}]
    /\ repeat = [k \in Keyboards |-> NotRepeating]
    /\ config \in {c \in Config : c.idle_timeout = idle_timeout}
    /\ overview = FALSE /\ overlay = FALSE
    /\ ran = NothingRan

\* lua_handle_keybinding has a binding for the key
Bound(key) == config.bind[key] # "unbound"

\* ... and runs it: what its Lua callback does here is anything or nothing to
\* the overview and the overlay
RunBinding(key, again) ==
    /\ ran' = [key |-> key, again |-> again]
    /\ \/ UNCHANGED <<overview, overlay>>
       \/ overview' = ~overview /\ UNCHANGED overlay
       \/ overlay' = ~overlay /\ UNCHANGED overview

RunNothing == ran' = NothingRan /\ UNCHANGED <<overview, overlay>>

\* the part of keyboard_handle_key every press goes through
Press(k, key) ==
    /\ k \in keyboards /\ key \in Key \ held[k]
    /\ NotifyActivity
    /\ held' = [held EXCEPT ![k] = @ \cup {key}]
    /\ UNCHANGED <<lockVars, keyboards, config>>

PressVt(k, key) ==
    /\ key \in VtKey
    /\ Press(k, key)
    /\ RunNothing /\ UNCHANGED repeat

PressInOverview(k, key) ==
    /\ overview /\ key \notin VtKey
    /\ Press(k, key)
    /\ overview' \in {TRUE, key # Escape}   \* at once, or after its animation
    /\ ran' = NothingRan
    /\ UNCHANGED <<overlay, repeat>>

PressEscape(k) ==
    /\ overlay /\ ~overview
    /\ Press(k, Escape)
    /\ overlay' = FALSE
    /\ ran' = NothingRan
    /\ UNCHANGED <<overview, repeat>>

\* the key reached neither overview nor overlay
Reaches(key) == ~overview /\ ~(overlay /\ key = Escape) /\ key \notin VtKey

\* handle_keybinding is a bool, so a match never tells whether the binding repeats
Repeats(key) == TRUE

PressBound(k, key) ==
    /\ Reaches(key) /\ ~Locked /\ Bound(key)
    /\ Press(k, key)
    /\ RunBinding(key, FALSE)
    /\ repeat' = [repeat EXCEPT ![k] =
                     [armed |-> @.armed \/ (Repeats(key) /\ config.repeat_delay),
                      sym |-> key, started |-> FALSE]]

\* the client with the keyboard gets the key
PressForwarded(k, key) ==
    /\ Reaches(key) /\ (Locked \/ ~Bound(key))
    /\ Press(k, key)
    /\ RunNothing /\ UNCHANGED repeat

\* mutant: the timer runs on
StillArmed(r) == r

\* a release stops the repetition, whichever key it is
Disarmed(r) == [r EXCEPT !.armed = FALSE]

Release(k, key) ==
    /\ k \in keyboards /\ key \in held[k]
    /\ NotifyActivity
    /\ held' = [held EXCEPT ![k] = @ \ {key}]
    /\ repeat' = [repeat EXCEPT ![k] = Disarmed(@)]
    /\ RunNothing
    /\ UNCHANGED <<lockVars, keyboards, config>>

\* ... and a repetition re-arms the timer once
Rearmed(r) == [r EXCEPT !.armed = ~r.started /\ config.repeat_rate, !.started = TRUE]

\* keyboard_repeat_cb: it does not look at the session lock
RepeatTimer(k) ==
    /\ repeat[k].armed
    /\ \/ /\ overview
          /\ RunNothing
          /\ repeat' = [repeat EXCEPT ![k] = Disarmed(@)]
       \/ /\ ~overview
          /\ \/ Bound(repeat[k].sym) /\ RunBinding(repeat[k].sym, TRUE)
             \/ ~Bound(repeat[k].sym) /\ RunNothing
          /\ repeat' = [repeat EXCEPT ![k] = Rearmed(@)]
    /\ UNCHANGED <<lockVars, idleVars, keyboards, held, config>>

\* server_new_keyboard, keyboard_handle_destroy (which removes the timer)
NewKeyboard(k) ==
    /\ k \notin keyboards
    /\ keyboards' = keyboards \cup {k}
    /\ held' = [held EXCEPT ![k] = {}]
    /\ repeat' = [repeat EXCEPT ![k] = NotRepeating]
    /\ RunNothing /\ UNCHANGED <<lockVars, idleVars, config>>

KeyboardDestroy(k) ==
    /\ k \in keyboards
    /\ keyboards' = keyboards \ {k}
    /\ held' = [held EXCEPT ![k] = {}]
    /\ repeat' = [repeat EXCEPT ![k] = NotRepeating]
    /\ RunNothing /\ UNCHANGED <<lockVars, idleVars, config>>

\* pointer motion, buttons, scrolling
PointerInput ==
    /\ NotifyActivity
    /\ RunNothing /\ UNCHANGED <<lockVars, keyboards, held, repeat, config>>

\* the overview is toggled from elsewhere, or its closing animation ends
ToggleOverview ==
    /\ overview' = ~overview
    /\ ran' = NothingRan
    /\ UNCHANGED <<lockVars, idleVars, keyboards, held, repeat, config, overlay>>

\* config_file_changed: lua_reload, server_apply_config, idle_apply_config
Reload ==
    /\ \E c \in Config :
           /\ config' = c
           /\ IdleApplyConfig(c.idle_timeout)
    /\ RunNothing
    /\ UNCHANGED <<lockVars, keyboards, held, repeat>>

SeatNext ==
    \/ \E k \in Keyboards :
           \/ \E key \in Key :
                  \/ PressVt(k, key) \/ PressInOverview(k, key)
                  \/ PressBound(k, key) \/ PressForwarded(k, key) \/ Release(k, key)
           \/ PressEscape(k) \/ RepeatTimer(k)
           \/ NewKeyboard(k) \/ KeyboardDestroy(k)
    \/ PointerInput \/ ToggleOverview \/ Reload
    \/ IdleTimer /\ RunNothing /\ UNCHANGED <<lockVars, keyboards, held, repeat, config>>
    \/ LockNext /\ RunNothing /\ UNCHANGED <<idleVars, keyboards, held, repeat, config>>

SeatSpec == SeatInit /\ [][SeatNext]_seatVars

-----------------------------------------------------------------------------

\* A binding repeats only while its key is held: no release, on any path,
\* leaves the timer of that keyboard armed for a key that is up.
RepeatHeld ==
    \A k \in Keyboards : repeat[k].armed => k \in keyboards /\ repeat[k].sym \in held[k]

\* "Compositor keybindings ... are suppressed while locked" (CHANGELOG).
SuppressedWhileLocked == ran.key # NoKey => ~Locked

\* "Setting repeat = false prevents the binding from being re-fired by the
\* compositor's key-repeat timer" (CHANGELOG).
NoRepeatHonoured == ran.again => config.bind[ran.key] # "no_repeat"

=============================================================================
