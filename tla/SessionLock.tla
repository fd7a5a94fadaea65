----------------------------- MODULE SessionLock -----------------------------
(***************************************************************************)
(* ext-session-lock-v1 (src/session_lock.cpp).  A lock object is what a     *)
(* lock client (swaylock) creates; it covers every output with a surface.   *)
(* The scene nodes and the keyboard focus of the surfaces are left out.     *)
(* wlroots destroys the surfaces of a lock, or of an output, with it, and   *)
(* accepts an unlock request only after `locked` was sent.  It destroys the  *)
(* lock when it is told to, and when its client goes, and calls the destroy  *)
(* listeners of the compositor from there in both cases.                    *)
(***************************************************************************)

CONSTANTS
    LockObject,   \* lock objects clients may create
    Screen,       \* outputs
    NoLock,       \* session_lock is null
    StaleLock     \* session_lock still points to a lock that was deleted

ASSUME LockAssumption == {NoLock, StaleLock} \cap LockObject = {} /\ NoLock # StaleLock

VARIABLES
    session_lock,  \* nnwm_server::session_lock
    locks,         \* lock objects alive in the library
    covered,       \* the outputs with a mapped surface of each lock object
    locked_sent,   \* the lock objects, alive, that were sent `locked`
    unlocked,      \* the lock objects that ended by their unlock request, since the
                   \* last one was made
    lock_misused,  \* whether a lock was used after it was deleted
    screens        \* nnwm_server::outputs

lockVars == <<session_lock, locks, covered, locked_sent, unlocked, lock_misused, screens>>

LockTypeOK ==
    /\ session_lock \in LockObject \cup {NoLock, StaleLock}
    /\ locks \subseteq LockObject
    /\ covered \in [LockObject -> SUBSET Screen]
    /\ locked_sent \subseteq LockObject
    /\ unlocked \subseteq LockObject /\ lock_misused \in BOOLEAN
    /\ screens \subseteq Screen

LockInit ==
    /\ session_lock = NoLock
    /\ locks = {} /\ locked_sent = {} /\ unlocked = {} /\ lock_misused = FALSE
    /\ covered = [l \in LockObject |-> {}]
    /\ screens \in (SUBSET Screen) \ {{}}

\* compositor keybindings and pointer grabs are suppressed
Locked == session_lock # NoLock

\* server_new_lock: a second lock is refused and destroyed at once
NewLock(l) ==
    /\ l \notin locks
    /\ session_lock = NoLock
    /\ session_lock' = l
    /\ locks' = locks \cup {l}
    /\ covered' = [covered EXCEPT ![l] = {}]
    /\ unlocked' = {}
    /\ UNCHANGED <<locked_sent, lock_misused, screens>>

RefuseLock(l) ==
    /\ l \notin locks
    /\ session_lock # NoLock
    /\ UNCHANGED lockVars

\* every output has a mapped surface of l
Covers(l, on) == screens \subseteq on

\* lock_surface_map: it looks at the lock the server points to, whichever
\* surface was mapped
MapLockSurface(l, s) ==
    /\ l \in locks /\ s \in screens \ covered[l]
    /\ session_lock \in LockObject
    /\ covered' = [covered EXCEPT ![l] = @ \cup {s}]
    /\ locked_sent' = IF Covers(session_lock, covered'[session_lock])
                      THEN locked_sent \cup {session_lock}
                      ELSE locked_sent
    /\ UNCHANGED <<session_lock, locks, unlocked, lock_misused, screens>>

\* lock_surface_destroy: the client takes a surface away
UnmapLockSurface(l, s) ==
    /\ l \in locks /\ s \in covered[l]
    /\ covered' = [covered EXCEPT ![l] = @ \ {s}]
    /\ UNCHANGED <<session_lock, locks, locked_sent, unlocked, lock_misused, screens>>

\* session_lock_unlock.  wlr_session_lock_v1_destroy calls session_lock_destroy,
\* which deletes the lock; the handler then uses it and deletes it once more.  This
\* is how it ends if the build survives that, as it may; if not, nothing follows
Unlock(l) ==
    /\ l \in locks \cap locked_sent
    /\ session_lock' = NoLock
    /\ locks' = locks \ {l}
    /\ unlocked' = unlocked \cup {l}
    /\ lock_misused' = TRUE
    /\ covered' = [covered EXCEPT ![l] = {}]
    /\ locked_sent' = locked_sent \ {l}
    /\ UNCHANGED screens

\* mutant: the pointer is cleared with the lock
LockDestroyClears(l) ==
    /\ l \in locks
    /\ session_lock' = IF session_lock = l THEN NoLock ELSE session_lock
    /\ locks' = locks \ {l}
    /\ covered' = [covered EXCEPT ![l] = {}]
    /\ locked_sent' = locked_sent \ {l}
    /\ UNCHANGED <<unlocked, lock_misused, screens>>

\* session_lock_destroy: the client died; the pointer stays, non-null
LockDestroy(l) ==
    /\ l \in locks
    /\ session_lock' = IF session_lock = l THEN StaleLock ELSE session_lock
    /\ locks' = locks \ {l}
    /\ covered' = [covered EXCEPT ![l] = {}]
    /\ locked_sent' = locked_sent \ {l}
    /\ UNCHANGED <<unlocked, lock_misused, screens>>

\* an output is plugged or unplugged (output.cpp)
PlugScreen(s) ==
    /\ s \notin screens
    /\ screens' = screens \cup {s}
    /\ UNCHANGED <<session_lock, locks, covered, locked_sent, unlocked, lock_misused>>

UnplugScreen(s) ==
    /\ s \in screens
    /\ screens' = screens \ {s}
    /\ covered' = [l \in LockObject |-> covered[l] \ {s}]
    /\ UNCHANGED <<session_lock, locks, locked_sent, unlocked, lock_misused>>

LockNext ==
    \/ \E l \in LockObject :
           \/ NewLock(l) \/ RefuseLock(l)
           \/ \E s \in Screen : MapLockSurface(l, s) \/ UnmapLockSurface(l, s)
           \/ Unlock(l) \/ LockDestroy(l)
    \/ \E s \in Screen : PlugScreen(s) \/ UnplugScreen(s)

-----------------------------------------------------------------------------

\* Once a lock holds the screen, the pointer leaves it in two ways only: the client
\* asks to unlock, after it was sent `locked`, and the screen unlocks; or the client
\* dies without that request, and the screen stays locked.  No death, of this client
\* or of another, no refused second lock and no hotplug ever unlocks it
\* (session_lock_unlock, session_lock_destroy, server_new_lock).
OnlyHolderUnlocks ==
    [][ session_lock # NoLock /\ session_lock' # session_lock =>
            \/ /\ session_lock' = NoLock
               /\ session_lock \in locked_sent
               /\ session_lock \in unlocked' \ unlocked
            \/ /\ session_lock' = StaleLock
               /\ session_lock \in locks \ (locks' \cup unlocked') ]_lockVars

\* session_lock_destroy is "Called if the lock client crashes without sending
\* unlock" (src/session_lock.cpp:119): after an unlock request the handler of that
\* request is the only one to delete the lock, and the last to use it.
NoLockMisused == ~lock_misused

\* "The compositor sends `locked` once every output has a mapped lock surface"
\* (CHANGELOG).
LockedSent ==
    session_lock \in LockObject /\ screens # {} /\ screens \subseteq covered[session_lock]
        => session_lock \in locked_sent

=============================================================================
