--------------------------- MODULE ServicesProofs ---------------------------
(***************************************************************************)
(* Proofs about the components beside the windows, for every value of      *)
(* their constants: the seat (Keyboard, with SessionLock and Idle), the    *)
(* timers of scripts, hot corners, and the walks over hooks and rules.     *)
(* They share no variable, so each has an inductive invariant and theorems *)
(* of its own.                                                             *)
(***************************************************************************)
EXTENDS Keyboard, Timers, HotCorners, Scripts, WellFoundedInduction, SequenceTheorems, TLAPS

----------------------------------------------------------------------------
(***************************************************************************)
(* The seat.  The lock and idle detection share no variable, so SeatInv is *)
(* proved for each of the three parts of the state on its own.             *)
(***************************************************************************)

\* At most one lock object is alive, and it is the one that holds the session.  So
\* what a client asks or the way it ends can only concern that lock.
OneLock == \A l \in locks : session_lock = l

\* A lock that is alive did not ask to unlock yet.
LivingDidNotUnlock == locks \cap unlocked = {}

KeysTypeOK ==
    /\ keyboards \subseteq Keyboards
    /\ held \in [Keyboards -> SUBSET Key]
    /\ repeat \in [Keyboards -> [armed : BOOLEAN, sym : Key \cup {NoKey}, started : BOOLEAN]]
    /\ config \in Config
    /\ overview \in BOOLEAN /\ overlay \in BOOLEAN
    /\ ran \in [key : Key \cup {NoKey}, again : BOOLEAN]

SeatInv == LockTypeOK /\ OneLock /\ LivingDidNotUnlock /\ IdleTypeOK /\ IdleWatched /\ KeysTypeOK /\ RepeatHeld

\* How one step may take the session from the lock that holds it: it asks for that,
\* after `locked`, or it dies and the session stays locked.
UnlockedByHolder ==
    session_lock # NoLock /\ session_lock' # session_lock =>
        \/ /\ session_lock' = NoLock
           /\ session_lock \in locked_sent
           /\ session_lock \in unlocked' \ unlocked
        \/ /\ session_lock' = StaleLock
           /\ session_lock \in locks \ (locks' \cup unlocked')

----------------------------------------------------------------------------
(* The session lock *)

\* The lock by itself: the properties of a step hold, and its invariant is kept.
LEMMA LockSteps ==
    ASSUME LockTypeOK, OneLock, LivingDidNotUnlock, LockNext \/ UNCHANGED lockVars
    PROVE  LockTypeOK' /\ OneLock' /\ LivingDidNotUnlock' /\ UnlockedByHolder
<1> DEFINE Goal == LockTypeOK' /\ OneLock' /\ LivingDidNotUnlock' /\ UnlockedByHolder
<1> USE LockAssumption DEF LockTypeOK, OneLock, LivingDidNotUnlock, UnlockedByHolder
<1>1. ASSUME NEW l \in LockObject, NewLock(l) PROVE Goal
  <2>1. locks = {}
    BY <1>1 DEF NewLock
  <2> QED BY <1>1, <2>1 DEF NewLock
<1>2. ASSUME NEW l \in LockObject, RefuseLock(l) PROVE Goal
  BY <1>2 DEF RefuseLock, lockVars
<1>3. ASSUME NEW l \in LockObject, NEW s \in Screen, MapLockSurface(l, s) PROVE Goal
  BY <1>3 DEF MapLockSurface, Covers
<1>4. ASSUME NEW l \in LockObject, Unlock(l) PROVE Goal
  BY <1>4 DEF Unlock
<1>5. ASSUME NEW l \in LockObject, LockDestroy(l) PROVE Goal
  BY <1>5 DEF LockDestroy
<1>6. ASSUME NEW s \in Screen, PlugScreen(s) PROVE Goal
  BY <1>6 DEF PlugScreen
<1>7. ASSUME NEW s \in Screen, UnplugScreen(s) PROVE Goal
  BY <1>7 DEF UnplugScreen
<1>8. CASE UNCHANGED lockVars
  BY <1>8 DEF lockVars
<1>9. ASSUME NEW l \in LockObject, NEW s \in Screen, UnmapLockSurface(l, s) PROVE Goal
  BY <1>9 DEF UnmapLockSurface
<1> QED BY <1>1, <1>2, <1>3, <1>4, <1>5, <1>6, <1>7, <1>8, <1>9 DEF LockNext

----------------------------------------------------------------------------
(* Idle detection *)

IdleStep ==
    \/ NotifyActivity \/ IdleTimer
    \/ \E c \in Config : IdleApplyConfig(c.idle_timeout)
    \/ UNCHANGED idleVars

\* Idle detection by itself.
LEMMA IdleSteps ==
    ASSUME IdleTypeOK, IdleWatched, IdleStep
    PROVE  IdleTypeOK' /\ IdleWatched'
<1> USE DEF IdleTypeOK, IdleWatched
<1>1. CASE NotifyActivity
  <2>1. CASE ~idle_timeout /\ UNCHANGED idleVars
    BY <2>1 DEF idleVars
  <2>2. CASE ~(~idle_timeout /\ UNCHANGED idleVars)
    <3>1. is_idle' = FALSE /\ idle_source' = TRUE /\ idle_timeout' = idle_timeout
      BY <1>1, <2>2 DEF NotifyActivity
    <3>2. idle_hook' \in {"idle", "resume"}
      BY <1>1, <2>2 DEF NotifyActivity
    <3> QED BY <3>1, <3>2
  <2> QED BY <2>1, <2>2
<1>2. CASE IdleTimer
  BY <1>2 DEF IdleTimer
<1>3. ASSUME NEW c \in Config, IdleApplyConfig(c.idle_timeout)
      PROVE  IdleTypeOK' /\ IdleWatched'
  <2>1. c.idle_timeout \in BOOLEAN
    BY KeyboardAssumption
  <2>2. CASE c.idle_timeout = TRUE
    BY <1>3, <2>2 DEF IdleApplyConfig
  <2>3. CASE c.idle_timeout = FALSE
    BY <1>3, <2>3 DEF IdleApplyConfig
  <2> QED BY <2>1, <2>2, <2>3
<1>4. CASE UNCHANGED idleVars
  BY <1>4 DEF idleVars
<1> QED BY <1>1, <1>2, <1>3, <1>4 DEF IdleStep

----------------------------------------------------------------------------
(* Keys *)

\* What runs, and what the overview and the overlay are then, has its type.
LEMMA RunTypes ==
    ASSUME KeysTypeOK, NEW key \in Key \cup {NoKey}, NEW rep \in BOOLEAN,
           RunNothing \/ RunBinding(key, rep)
    PROVE  ran' \in [key : Key \cup {NoKey}, again : BOOLEAN]
           /\ overview' \in BOOLEAN /\ overlay' \in BOOLEAN
<1>1. overview \in BOOLEAN /\ overlay \in BOOLEAN
  BY DEF KeysTypeOK
<1>2. overview' \in BOOLEAN /\ overlay' \in BOOLEAN
  BY <1>1, Zenon DEF RunNothing, RunBinding
<1>3. ran' = NothingRan \/ ran' = [key |-> key, again |-> rep]
  BY Zenon DEF RunNothing, RunBinding
<1>4. ran' \in [key : Key \cup {NoKey}, again : BOOLEAN]
  <2>1. CASE ran' = NothingRan
    BY <2>1 DEF NothingRan
  <2>2. CASE ran' = [key |-> key, again |-> rep]
    BY <2>2
  <2> QED BY <1>3, <2>1, <2>2
<1> QED BY <1>2, <1>4

\* A press changes nothing of the repetition but to restart it with the pressed key.
LEMMA PressKeeps ==
    ASSUME KeysTypeOK, RepeatHeld, NEW k \in Keyboards, NEW key \in Key, Press(k, key),
           repeat' = repeat \/
           \E on \in BOOLEAN :
               repeat' = [repeat EXCEPT ![k] = [armed |-> on, sym |-> key, started |-> FALSE]]
    PROVE  /\ keyboards' \subseteq Keyboards /\ held' \in [Keyboards -> SUBSET Key]
           /\ repeat' \in [Keyboards -> [armed : BOOLEAN, sym : Key \cup {NoKey}, started : BOOLEAN]]
           /\ config' \in Config /\ RepeatHeld'
<1>1. /\ k \in keyboards /\ keyboards' = keyboards /\ config' = config
      /\ held' = [held EXCEPT ![k] = @ \cup {key}]
  BY DEF Press
<1>2. held' \in [Keyboards -> SUBSET Key] /\ key \in held'[k]
      /\ \A j \in Keyboards : held[j] \subseteq held'[j]
  BY <1>1 DEF KeysTypeOK
<1>3. CASE repeat' = repeat
  BY <1>1, <1>2, <1>3 DEF KeysTypeOK, RepeatHeld
<1>4. ASSUME NEW on \in BOOLEAN,
             repeat' = [repeat EXCEPT ![k] = [armed |-> on, sym |-> key, started |-> FALSE]]
      PROVE  /\ repeat' \in [Keyboards -> [armed : BOOLEAN, sym : Key \cup {NoKey}, started : BOOLEAN]]
             /\ RepeatHeld'
  <2>1. repeat'[k].sym = key /\ \A j \in Keyboards \ {k} : repeat'[j] = repeat[j]
    BY <1>4 DEF KeysTypeOK
  <2> QED BY <1>1, <1>2, <1>4, <2>1 DEF KeysTypeOK, RepeatHeld
<1> QED BY <1>1, <1>2, <1>3, <1>4 DEF KeysTypeOK

\* Disarming, and the destruction of a keyboard, leave nothing armed on it.
LEMMA DisarmKeeps ==
    ASSUME KeysTypeOK, RepeatHeld, NEW k \in Keyboards, NEW r, r.armed = FALSE,
           r \in [armed : BOOLEAN, sym : Key \cup {NoKey}, started : BOOLEAN],
           repeat' = [repeat EXCEPT ![k] = r],
           keyboards \ {k} \subseteq keyboards', keyboards' \subseteq Keyboards,
           held' \in [Keyboards -> SUBSET Key], \A j \in Keyboards \ {k} : held'[j] = held[j]
    PROVE  /\ repeat' \in [Keyboards -> [armed : BOOLEAN, sym : Key \cup {NoKey}, started : BOOLEAN]]
           /\ RepeatHeld'
<1>1. repeat'[k] = r /\ \A j \in Keyboards \ {k} : repeat'[j] = repeat[j]
  BY DEF KeysTypeOK
<1> QED BY <1>1 DEF KeysTypeOK, RepeatHeld

\* A step that leaves the keyboards and their timers alone.
LEMMA OtherKeysKeep ==
    ASSUME KeysTypeOK, RepeatHeld, UNCHANGED <<keyboards, held, repeat>>, config' \in Config,
           ran' \in [key : Key \cup {NoKey}, again : BOOLEAN],
           overview' \in BOOLEAN, overlay' \in BOOLEAN
    PROVE  KeysTypeOK' /\ RepeatHeld'
<1>1. KeysTypeOK'
  BY DEF KeysTypeOK
<1>2. RepeatHeld'
  BY DEF RepeatHeld
<1> QED BY <1>1, <1>2

\* The flags of the keyboard are Booleans.
LEMMA BooleanFlags == ASSUME KeysTypeOK PROVE overview \in BOOLEAN /\ overlay \in BOOLEAN
  BY DEF KeysTypeOK

\* A press that runs no binding leaves the timer as it was.
LEMMA PressInv ==
    ASSUME KeysTypeOK, RepeatHeld, NEW k \in Keyboards, NEW key \in Key,
           \/ PressVt(k, key) \/ PressInOverview(k, key)
           \/ (key = Escape /\ PressEscape(k)) \/ PressForwarded(k, key)
    PROVE  KeysTypeOK' /\ RepeatHeld'
<1>1. Press(k, key) /\ repeat' = repeat
  BY Zenon DEF PressVt, PressInOverview, PressEscape, PressForwarded
<1>2. /\ ran' \in [key : Key \cup {NoKey}, again : BOOLEAN]
      /\ overview' \in BOOLEAN /\ overlay' \in BOOLEAN
  <2>1. CASE RunNothing
    BY <2>1, RunTypes
  <2>2. ASSUME ~RunNothing
        PROVE  ran' = NothingRan /\ overview' \in BOOLEAN /\ overlay' \in BOOLEAN
    <3>1. PressInOverview(k, key) \/ PressEscape(k)
      BY <2>2, Zenon DEF PressVt, PressForwarded
    <3>2. ran' = NothingRan /\ (overview' = overview \/ overview' = TRUE
                                 \/ overview' = (key # Escape))
          /\ (overlay' = overlay \/ overlay' = FALSE)
      BY <3>1, Zenon DEF PressInOverview, PressEscape
    <3>3. (key # Escape) \in BOOLEAN /\ overview \in BOOLEAN /\ overlay \in BOOLEAN
      BY BooleanFlags
    <3>4. overview' \in BOOLEAN
      BY <3>2, <3>3, Zenon
    <3>5. overlay' \in BOOLEAN
      BY <3>2, <3>3, Zenon
    <3> QED BY <3>2, <3>4, <3>5, Zenon
  <2>3. NothingRan \in [key : Key \cup {NoKey}, again : BOOLEAN]
    BY DEF NothingRan
  <2> QED BY <2>1, <2>2, <2>3, Zenon
<1> QED BY <1>1, <1>2, PressKeeps DEF KeysTypeOK

\* A key that is bound is pressed.
LEMMA PressBoundInv ==
    ASSUME KeysTypeOK, RepeatHeld, NEW k \in Keyboards, NEW key \in Key, PressBound(k, key)
    PROVE  KeysTypeOK' /\ RepeatHeld'
<1>1. Press(k, key) /\ RunBinding(key, FALSE)
  BY Zenon DEF PressBound
<1> DEFINE on == repeat[k].armed \/ (Repeats(key) /\ config.repeat_delay)
<1>2. on \in BOOLEAN
  BY KeyboardAssumption DEF KeysTypeOK
<1>3. repeat' = [repeat EXCEPT ![k] = [armed |-> on, sym |-> key, started |-> FALSE]]
  BY Zenon DEF PressBound
<1> HIDE DEF on
<1>4. /\ ran' \in [key : Key \cup {NoKey}, again : BOOLEAN]
      /\ overview' \in BOOLEAN /\ overlay' \in BOOLEAN
  BY <1>1, RunTypes
<1> QED BY <1>1, <1>2, <1>3, <1>4, PressKeeps DEF KeysTypeOK

\* A key is released.
LEMMA ReleaseInv ==
    ASSUME KeysTypeOK, RepeatHeld, NEW k \in Keyboards, NEW key \in Key, Release(k, key)
    PROVE  KeysTypeOK' /\ RepeatHeld'
<1> DEFINE r == [repeat[k] EXCEPT !.armed = FALSE]
<1>1. r \in [armed : BOOLEAN, sym : Key \cup {NoKey}, started : BOOLEAN] /\ r.armed = FALSE
  BY DEF KeysTypeOK
<1>2. repeat' = [repeat EXCEPT ![k] = r]
  BY Zenon DEF Release, Disarmed
<1> HIDE DEF r
<1>3. /\ keyboards' = keyboards /\ config' = config
      /\ held' = [held EXCEPT ![k] = @ \ {key}] /\ RunNothing
  BY Zenon DEF Release
<1>4. /\ keyboards \subseteq Keyboards /\ held' \in [Keyboards -> SUBSET Key]
      /\ \A j \in Keyboards \ {k} : held'[j] = held[j]
  BY <1>3 DEF KeysTypeOK
<1>5. /\ ran' \in [key : Key \cup {NoKey}, again : BOOLEAN]
      /\ overview' \in BOOLEAN /\ overlay' \in BOOLEAN
  BY <1>3, RunTypes
<1> QED BY <1>1, <1>2, <1>3, <1>4, <1>5, DisarmKeeps DEF KeysTypeOK

\* A keyboard comes.
LEMMA PlugKeyboardInv ==
    ASSUME KeysTypeOK, RepeatHeld, NEW k \in Keyboards, NewKeyboard(k) \/ KeyboardDestroy(k)
    PROVE  KeysTypeOK' /\ RepeatHeld'
<1>1. /\ keyboards' = keyboards \cup {k} \/ keyboards' = keyboards \ {k}
      /\ held' = [held EXCEPT ![k] = {}]
      /\ repeat' = [repeat EXCEPT ![k] = NotRepeating]
      /\ RunNothing /\ config' = config
  BY Zenon DEF NewKeyboard, KeyboardDestroy
<1>2. /\ NotRepeating \in [armed : BOOLEAN, sym : Key \cup {NoKey}, started : BOOLEAN]
      /\ NotRepeating.armed = FALSE
  BY DEF NotRepeating
<1>3. /\ keyboards \ {k} \subseteq keyboards' /\ keyboards' \subseteq Keyboards
      /\ held' \in [Keyboards -> SUBSET Key]
      /\ \A j \in Keyboards \ {k} : held'[j] = held[j]
  BY <1>1 DEF KeysTypeOK
<1>4. /\ ran' \in [key : Key \cup {NoKey}, again : BOOLEAN]
      /\ overview' \in BOOLEAN /\ overlay' \in BOOLEAN
  BY <1>1, RunTypes
<1> QED BY <1>1, <1>2, <1>3, <1>4, DisarmKeeps DEF KeysTypeOK

\* A repetition: the key stays the one that is held, whatever the binding does.
LEMMA RepeatInv ==
    ASSUME KeysTypeOK, RepeatHeld, NEW k \in Keyboards, RepeatTimer(k)
    PROVE  KeysTypeOK' /\ RepeatHeld'
<1> DEFINE R == [armed : BOOLEAN, sym : Key \cup {NoKey}, started : BOOLEAN]
           off == [repeat[k] EXCEPT !.armed = FALSE]
           on == [repeat[k] EXCEPT !.armed = ~repeat[k].started /\ config.repeat_rate,
                                   !.started = TRUE]
<1>1. repeat[k] \in R /\ repeat[k].armed /\ k \in keyboards /\ repeat[k].sym \in held[k]
  BY DEF RepeatTimer, KeysTypeOK, RepeatHeld
<1>2. /\ off \in R /\ off.sym = repeat[k].sym
      /\ on \in R /\ on.sym = repeat[k].sym
  BY <1>1, KeyboardAssumption DEF KeysTypeOK
<1>3. \/ repeat' = [repeat EXCEPT ![k] = off]
      \/ repeat' = [repeat EXCEPT ![k] = on]
  BY Zenon DEF RepeatTimer, Disarmed, Rearmed
<1>4. UNCHANGED <<keyboards, held, config>>
  BY Zenon DEF RepeatTimer
<1>5. RunNothing \/ RunBinding(repeat[k].sym, TRUE)
  BY Zenon DEF RepeatTimer
<1>6. /\ ran' \in [key : Key \cup {NoKey}, again : BOOLEAN]
      /\ overview' \in BOOLEAN /\ overlay' \in BOOLEAN
  <2>1. repeat[k].sym \in Key \cup {NoKey}
    BY <1>1
  <2> QED BY <1>5, <2>1, RunTypes
<1> HIDE DEF on, off
<1>7. PICK r \in R : r.sym = repeat[k].sym /\ repeat' = [repeat EXCEPT ![k] = r]
  BY <1>2, <1>3
<1>8. repeat'[k] = r /\ \A j \in Keyboards \ {k} : repeat'[j] = repeat[j]
  BY <1>7 DEF KeysTypeOK
<1>9. repeat' \in [Keyboards -> R]
  BY <1>7 DEF KeysTypeOK
<1>10. RepeatHeld'
  BY <1>1, <1>4, <1>7, <1>8 DEF RepeatHeld
<1> QED BY <1>4, <1>6, <1>9, <1>10 DEF KeysTypeOK

----------------------------------------------------------------------------
(* The whole seat *)

\* A step of the seat is one of each part, or leaves that part alone.
LEMMA SeatSteps ==
    ASSUME KeysTypeOK, RepeatHeld, SeatNext
    PROVE  /\ KeysTypeOK' /\ RepeatHeld'
           /\ LockNext \/ UNCHANGED lockVars
           /\ IdleStep
<1> DEFINE Goal == /\ KeysTypeOK' /\ RepeatHeld'
                   /\ LockNext \/ UNCHANGED lockVars
                   /\ IdleStep
<1> USE DEF Goal
<1>1. ASSUME NEW k \in Keyboards, NEW key \in Key,
             PressVt(k, key) \/ PressInOverview(k, key) \/ PressForwarded(k, key)
      PROVE  Goal
  <2>1. Press(k, key)
    BY <1>1, Zenon DEF PressVt, PressInOverview, PressForwarded
  <2>2. UNCHANGED lockVars /\ IdleStep
    BY <2>1, Zenon DEF Press, IdleStep
  <2>3. KeysTypeOK' /\ RepeatHeld'
    BY <1>1, PressInv
  <2> QED BY <2>2, <2>3
<1>2. ASSUME NEW k \in Keyboards, NEW key \in Key, PressBound(k, key) PROVE Goal
  <2>1. UNCHANGED lockVars /\ IdleStep
    BY <1>2, Zenon DEF PressBound, Press, IdleStep
  <2> QED BY <1>2, <2>1, PressBoundInv
<1>3. ASSUME NEW k \in Keyboards, NEW key \in Key, Release(k, key) PROVE Goal
  <2>1. UNCHANGED lockVars /\ IdleStep
    BY <1>3, Zenon DEF Release, IdleStep
  <2> QED BY <1>3, <2>1, ReleaseInv
<1>4. ASSUME NEW k \in Keyboards, PressEscape(k) PROVE Goal
  <2>1. UNCHANGED lockVars /\ IdleStep
    BY <1>4, Zenon DEF PressEscape, Press, IdleStep
  <2>2. Escape \in Key
    BY KeyboardAssumption
  <2> QED BY <1>4, <2>1, <2>2, PressInv
<1>5. ASSUME NEW k \in Keyboards, RepeatTimer(k) PROVE Goal
  <2>1. UNCHANGED lockVars /\ IdleStep
    BY <1>5, Zenon DEF RepeatTimer, IdleStep
  <2> QED BY <1>5, <2>1, RepeatInv
<1>6. ASSUME NEW k \in Keyboards, NewKeyboard(k) \/ KeyboardDestroy(k) PROVE Goal
  <2>1. UNCHANGED lockVars /\ IdleStep
    BY <1>6, Zenon DEF NewKeyboard, KeyboardDestroy, IdleStep
  <2> QED BY <1>6, <2>1, PlugKeyboardInv
<1>7. ASSUME UNCHANGED <<keyboards, held, repeat>>, config' \in Config, RunNothing
      PROVE  KeysTypeOK' /\ RepeatHeld'
  <2>1. /\ ran' \in [key : Key \cup {NoKey}, again : BOOLEAN]
        /\ overview' \in BOOLEAN /\ overlay' \in BOOLEAN
    BY <1>7, RunTypes
  <2> QED BY <1>7, <2>1, OtherKeysKeep
<1>8. CASE PointerInput
  <2>1. UNCHANGED lockVars /\ IdleStep
    BY <1>8, Zenon DEF PointerInput, IdleStep
  <2>2. UNCHANGED <<keyboards, held, repeat>> /\ config' = config /\ RunNothing
    BY <1>8, Zenon DEF PointerInput
  <2> QED BY <1>7, <2>1, <2>2 DEF KeysTypeOK
<1>9. CASE ToggleOverview
  <2>1. UNCHANGED lockVars /\ IdleStep
    BY <1>9, Zenon DEF ToggleOverview, IdleStep
  <2>2. /\ UNCHANGED <<keyboards, held, repeat>> /\ config' = config
        /\ ran' = NothingRan /\ overlay' = overlay /\ overview' = ~overview
    BY <1>9, Zenon DEF ToggleOverview
  <2>3. ran' \in [key : Key \cup {NoKey}, again : BOOLEAN] /\ config' \in Config
    BY <2>2 DEF NothingRan, KeysTypeOK
  <2>4. overview' \in BOOLEAN /\ overlay' \in BOOLEAN
    BY <2>2, BooleanFlags, Zenon
  <2> QED BY <2>1, <2>2, <2>3, <2>4, OtherKeysKeep
<1>10. CASE Reload
  <2>1. UNCHANGED lockVars /\ IdleStep
    BY <1>10, Zenon DEF Reload, IdleStep
  <2>2. UNCHANGED <<keyboards, held, repeat>> /\ config' \in Config /\ RunNothing
    BY <1>10, Zenon DEF Reload
  <2> QED BY <1>7, <2>1, <2>2
<1>11. CASE /\ RunNothing /\ UNCHANGED <<keyboards, held, repeat, config>>
            /\ \/ IdleTimer /\ UNCHANGED lockVars
               \/ LockNext /\ UNCHANGED idleVars
  <2>1. config' \in Config
    BY <1>11 DEF KeysTypeOK
  <2> QED BY <1>7, <1>11, <2>1, Zenon DEF IdleStep
<1> QED
  BY <1>1, <1>2, <1>3, <1>4, <1>5, <1>6, <1>8, <1>9, <1>10, <1>11, Zenon DEF SeatNext

\* The seat starts in the invariant.
LEMMA SeatInitInv == SeatInit => SeatInv
<1> SUFFICES ASSUME SeatInit PROVE SeatInv
  OBVIOUS
<1>1. LockTypeOK /\ OneLock /\ LivingDidNotUnlock
  BY LockAssumption DEF SeatInit, LockInit, LockTypeOK, OneLock, LivingDidNotUnlock
<1>2. IdleTypeOK /\ IdleWatched
  BY DEF SeatInit, IdleInit, IdleTypeOK, IdleWatched
<1>3. KeysTypeOK /\ RepeatHeld
  BY DEF SeatInit, KeysTypeOK, RepeatHeld, NotRepeating, NothingRan
<1> QED BY <1>1, <1>2, <1>3 DEF SeatInv

\* Every step of the seat keeps it.
LEMMA SeatNextInv ==
    ASSUME SeatInv, [SeatNext]_seatVars
    PROVE  SeatInv' /\ UnlockedByHolder
<1>1. /\ LockNext \/ UNCHANGED lockVars
      /\ IdleStep /\ KeysTypeOK' /\ RepeatHeld'
  <2>1. CASE SeatNext
    BY <2>1, SeatSteps DEF SeatInv
  <2>2. CASE UNCHANGED seatVars
    <3>1. UNCHANGED <<lockVars, idleVars, kbVars>>
      BY <2>2 DEF seatVars
    <3>2. KeysTypeOK' /\ RepeatHeld'
      BY <3>1 DEF SeatInv, KeysTypeOK, RepeatHeld, kbVars
    <3> QED BY <3>1, <3>2 DEF IdleStep
  <2> QED BY <2>1, <2>2
<1> QED BY <1>1, LockSteps, IdleSteps DEF SeatInv

\* The invariant of the seat holds of every behaviour.
THEOREM SeatInvariant == SeatSpec => []SeatInv
<1>1. SeatInv /\ [SeatNext]_seatVars => SeatInv'
  BY SeatNextInv
<1> QED BY <1>1, SeatInitInv, PTL DEF SeatSpec

\* No input, lock request, reload or timer stores a value of the wrong type.
THEOREM SeatTypeCorrect == SeatSpec => []SeatTypeOK
<1>1. SeatInv => SeatTypeOK
  BY Zenon DEF SeatInv, SeatTypeOK, KeysTypeOK
<1> QED BY <1>1, SeatInvariant, PTL

\* The absence of the user is always watched for when the configuration asks it.
THEOREM Watched == SeatSpec => []IdleWatched
<1>1. SeatInv => IdleWatched
  BY DEF SeatInv
<1> QED BY <1>1, SeatInvariant, PTL

\* A binding repeats only while its key is held, for any number of keyboards
\* and keys.
THEOREM RepetitionHeld == SeatSpec => []RepeatHeld
<1>1. SeatInv => RepeatHeld
  BY DEF SeatInv
<1> QED BY <1>1, SeatInvariant, PTL

\* Only the unlock request of the client that locked the session unlocks it, and its
\* death leaves it locked, whatever else comes in between.
THEOREM HolderUnlocks == SeatSpec => OnlyHolderUnlocks
<1>1. SeatInv /\ [SeatNext]_seatVars
        => [UnlockedByHolder]_lockVars
  BY SeatNextInv
<1>2. [UnlockedByHolder]_lockVars
        => [ session_lock # NoLock /\ session_lock' # session_lock =>
                 \/ /\ session_lock' = NoLock
                    /\ session_lock \in locked_sent
                    /\ session_lock \in unlocked' \ unlocked
                 \/ /\ session_lock' = StaleLock
                    /\ session_lock \in locks \ (locks' \cup unlocked') ]_lockVars
  BY DEF UnlockedByHolder
<1> QED BY <1>1, <1>2, SeatInvariant, PTL DEF SeatSpec, OnlyHolderUnlocks

----------------------------------------------------------------------------
(***************************************************************************)
(* Timers.  TimerInv is inductive by itself; the two properties that need  *)
(* an assumption on the scripts, RunningLive and TimerArmed, follow on     *)
(* top.                                                                    *)
(***************************************************************************)

\* A live timer is what its handle points to.
HandlesOwned == \A t \in LiveTimers : handle[timer[t].handle] = t

\* No script waits longer than its timer will.
ScriptsWaiting ==
    \A t \in LiveTimers :
        owed[t] <= IF timer[t].paused THEN timer[t].remaining ELSE timer[t].left

TimerInv == TimerTypeOK /\ HandleOwner /\ HandlesOwned /\ ScriptsWaiting

\* The timer whose callback runs is not freed.
RunningLive == ~broken /\ (running # Null => timer[running] # Null)

----------------------------------------------------------------------------

\* What a method does to its handle's timer keeps the types.
LEMMA TransformTypes ==
    ASSUME NEW t \in TimerState
    PROVE  /\ Paused(t) \in TimerState /\ Resumed(t) \in TimerState
           /\ Again(t) \in TimerState
  BY DEF TimerState, Paused, Resumed, Again, AtLeastOne

\* A count of time stays one, and does not grow, when time passes.
LEMMA LessType == ASSUME NEW n \in Nat PROVE Less(n) \in Nat /\ Less(n) <= n
  BY DEF Less

\* It keeps the order of two counts.
LEMMA LessMonotone ==
    ASSUME NEW m \in Nat, NEW n \in Nat, m <= n
    PROVE  Less(m) <= Less(n) /\ Less(m) <= n
  BY DEF Less

\* What the types of the invariant say of a handle and of a timer.
LEMMA TimerTypes ==
    ASSUME TimerTypeOK
    PROVE  /\ Null \notin Timer /\ Null \notin Handle /\ Null \notin TimerState
           /\ \A t \in LiveTimers : t \in Timer /\ timer[t] \in TimerState /\ timer[t].handle \in Handle
                  /\ timer[t].left \in Nat /\ timer[t].remaining \in Nat
           /\ \A t \in Timer : owed[t] \in Nat
  BY TimersAssumption DEF TimerTypeOK, LiveTimers, TimerState

\* The program starts without timers.
LEMMA TimerInitInv == TimerInit => TimerInv
<1> SUFFICES ASSUME TimerInit PROVE TimerInv
  OBVIOUS
<1>1. LiveTimers = {}
  BY DEF TimerInit, LiveTimers
<1>2. TimerTypeOK
  BY DEF TimerInit, TimerTypeOK
<1>3. HandleOwner /\ HandlesOwned /\ ScriptsWaiting
  BY <1>1 DEF TimerInit, HandleOwner, HandlesOwned, ScriptsWaiting
<1> QED BY <1>2, <1>3 DEF TimerInv

\* A new timer comes with its handle, and nobody has waited for it yet.
LEMMA NewTimerInv ==
    ASSUME TimerInv, NEW t \in Timer, NEW h \in Handle, NEW ms \in Period,
           NEW once \in BOOLEAN, NewTimer(t, h, ms, once)
    PROVE  TimerInv'
<1> DEFINE new == [left |-> ms, interval |-> IF once THEN 0 ELSE ms, armed |-> ms > 0,
                   paused |-> FALSE, remaining |-> 0, handle |-> h]
<1>1. new \in TimerState /\ ms \in Nat
  BY TimersAssumption DEF TimerState
<1>2. new.handle = h /\ new.left = ms /\ new.paused = FALSE
  OBVIOUS
<1>3. timer' = [timer EXCEPT ![t] = new] /\ handle' = [handle EXCEPT ![h] = t]
      /\ owed' = [owed EXCEPT ![t] = ms] /\ UNCHANGED <<running, broken>>
  BY DEF NewTimer
<1>4. timer[t] = Null /\ handle[h] = Null
  BY DEF NewTimer
<1> HIDE DEF new
<1>5. TimerTypeOK'
  BY <1>1, <1>3 DEF TimerInv, TimerTypeOK
<1>6. /\ timer'[t] = new /\ handle'[h] = t /\ owed'[t] = ms
      /\ \A u \in Timer \ {t} : timer'[u] = timer[u] /\ owed'[u] = owed[u]
      /\ \A g \in Handle \ {h} : handle'[g] = handle[g]
  BY <1>3 DEF TimerInv, TimerTypeOK
<1>7. new # Null /\ t # Null
  BY <1>1, TimerTypes DEF TimerInv
<1>8. HandleOwner'
  BY <1>2, <1>4, <1>6, <1>7 DEF TimerInv, TimerTypeOK, HandleOwner
<1>9. \A u \in LiveTimers' : u = t \/ (u \in LiveTimers /\ u # t /\ timer[u].handle # h)
  BY <1>4, <1>6, <1>7, TimerTypes DEF TimerInv, HandlesOwned, LiveTimers
<1>10. HandlesOwned'
  BY <1>2, <1>6, <1>9, TimerTypes DEF TimerInv, HandlesOwned, LiveTimers
<1>11. ScriptsWaiting'
  BY <1>1, <1>2, <1>6, <1>9, TimerTypes DEF TimerInv, ScriptsWaiting, LiveTimers
<1> QED BY <1>5, <1>8, <1>10, <1>11 DEF TimerInv

\* A step that gives one live timer new times, and keeps its handle, keeps the
\* invariant if the timer still waits long enough.
LEMMA ChangeTimerInv ==
    ASSUME TimerInv, NEW t \in Timer, timer[t] # Null, NEW new \in TimerState,
           timer' = [timer EXCEPT ![t] = new], new.handle = timer[t].handle,
           handle' = handle, running' \in Timer \cup {Null}, broken' \in BOOLEAN,
           owed' \in [Timer -> Nat], \A u \in Timer \ {t} : owed'[u] = owed[u],
           owed'[t] <= IF new.paused THEN new.remaining ELSE new.left
    PROVE  TimerInv'
<1>1. TimerTypeOK'
  BY DEF TimerInv, TimerTypeOK
<1>2. timer'[t] = new /\ \A u \in Timer \ {t} : timer'[u] = timer[u]
  BY DEF TimerInv, TimerTypeOK
<1>3. new # Null
  BY TimerTypes DEF TimerInv
<1>4. LiveTimers' = LiveTimers /\ t \in LiveTimers
  BY <1>2, <1>3 DEF LiveTimers
<1>5. HandleOwner'
  BY <1>2, <1>3 DEF TimerInv, TimerTypeOK, HandleOwner
<1>6. HandlesOwned'
  BY <1>2, <1>4, TimerTypes DEF TimerInv, HandlesOwned
<1>7. ScriptsWaiting'
  BY <1>2, <1>4, TimerTypes DEF TimerInv, ScriptsWaiting
<1> QED BY <1>1, <1>5, <1>6, <1>7 DEF TimerInv

\* A timer is freed together with its handle.
LEMMA FreeTimerInv ==
    ASSUME TimerInv, NEW t \in Timer, timer[t] # Null,
           timer' = [timer EXCEPT ![t] = Null],
           handle' = [handle EXCEPT ![timer[t].handle] = Null],
           running' \in Timer \cup {Null}, broken' \in BOOLEAN, owed' = owed
    PROVE  TimerInv'
<1>1. TimerTypeOK'
  BY DEF TimerInv, TimerTypeOK
<1>2. timer'[t] = Null /\ \A u \in Timer \ {t} : timer'[u] = timer[u]
  BY DEF TimerInv, TimerTypeOK
<1>3. t \in LiveTimers /\ timer[t].handle \in Handle /\ handle[timer[t].handle] = t
  BY TimerTypes DEF TimerInv, HandlesOwned, LiveTimers
<1>4. /\ handle'[timer[t].handle] = Null
      /\ \A g \in Handle \ {timer[t].handle} : handle'[g] = handle[g]
  BY <1>3 DEF TimerInv, TimerTypeOK
<1>5. LiveTimers' = LiveTimers \ {t}
  BY <1>2, <1>3 DEF LiveTimers
<1>6. HandleOwner'
  BY <1>2, <1>3, <1>4 DEF TimerInv, TimerTypeOK, HandleOwner
<1>7. HandlesOwned'
  BY <1>2, <1>3, <1>4, <1>5, TimerTypes DEF TimerInv, HandlesOwned
<1>8. ScriptsWaiting'
  BY <1>2, <1>5, TimerTypes DEF TimerInv, ScriptsWaiting
<1> QED BY <1>1, <1>6, <1>7, <1>8 DEF TimerInv

----------------------------------------------------------------------------

\* A handle that is not null has a live timer: a method never touches freed memory.
LEMMA HandleUsed ==
    ASSUME TimerInv, NEW h \in Handle, handle[h] # Null, NEW new, Use(h, new)
    PROVE  /\ handle[h] \in Timer /\ timer[handle[h]] # Null
           /\ timer[handle[h]].handle = h /\ timer[handle[h]] \in TimerState
           /\ timer' = [timer EXCEPT ![handle[h]] = new] /\ UNCHANGED broken
<1>1. /\ handle[h] \in Timer /\ timer[handle[h]] # Null
      /\ timer[handle[h]].handle = h /\ timer[handle[h]] \in TimerState
  BY DEF TimerInv, TimerTypeOK, HandleOwner
<1> QED BY <1>1 DEF Use

\* timer_handle_cancel
LEMMA CancelInv == ASSUME TimerInv, NEW h \in Handle, Cancel(h) PROVE TimerInv'
<1>1. handle[h] # Null /\ Use(h, Null)
  BY DEF Cancel, Method
<1>2. handle' = [handle EXCEPT ![timer[handle[h]].handle] = Null]
  BY <1>1, HandleUsed DEF Cancel
<1>3. /\ timer' = [timer EXCEPT ![handle[h]] = Null] /\ UNCHANGED broken
      /\ handle[h] \in Timer /\ timer[handle[h]] # Null
  BY <1>1, HandleUsed
<1> QED BY <1>1, <1>2, <1>3, FreeTimerInv DEF Cancel, TimerInv, TimerTypeOK

\* timer_handle_pause
LEMMA PauseInv == ASSUME TimerInv, NEW h \in Handle, Pause(h) PROVE TimerInv'
<1> DEFINE t == handle[h]
<1>1. t # Null /\ Use(h, Paused(timer[t]))
  BY DEF Pause, Method
<1>2. /\ t \in Timer /\ timer[t] # Null /\ timer[t] \in TimerState
      /\ timer' = [timer EXCEPT ![t] = Paused(timer[t])] /\ UNCHANGED broken
  BY <1>1, HandleUsed
<1>3. timer[t].paused = FALSE
  BY <1>2 DEF Pause, TimerState
<1>4. /\ Paused(timer[t]).paused = TRUE /\ Paused(timer[t]).remaining = timer[t].left
      /\ Paused(timer[t]).handle = timer[t].handle
  BY <1>2 DEF Paused, TimerState
<1>5. owed[t] <= timer[t].left
  BY <1>2, <1>3 DEF TimerInv, ScriptsWaiting, LiveTimers
<1> QED
  BY <1>2, <1>4, <1>5, TransformTypes, ChangeTimerInv DEF Pause, TimerInv, TimerTypeOK

\* timer_handle_resume
LEMMA ResumeInv == ASSUME TimerInv, NEW h \in Handle, Resume(h) PROVE TimerInv'
<1> DEFINE t == handle[h]
<1>1. t # Null /\ Use(h, Resumed(timer[t]))
  BY DEF Resume, Method
<1>2. /\ t \in Timer /\ timer[t] # Null /\ timer[t] \in TimerState
      /\ timer' = [timer EXCEPT ![t] = Resumed(timer[t])] /\ UNCHANGED broken
  BY <1>1, HandleUsed
<1>3. timer[t].paused = TRUE
  BY <1>2 DEF Resume, TimerState
<1>4. /\ Resumed(timer[t]).paused = FALSE
      /\ Resumed(timer[t]).left = AtLeastOne(timer[t].remaining)
      /\ Resumed(timer[t]).handle = timer[t].handle
  BY <1>2 DEF Resumed, TimerState
<1>5. owed[t] \in Nat /\ timer[t].remaining \in Nat /\ owed[t] <= timer[t].remaining
  BY <1>2, <1>3 DEF TimerInv, TimerTypeOK, ScriptsWaiting, LiveTimers, TimerState
<1>6. owed[t] <= AtLeastOne(timer[t].remaining)
  BY <1>5 DEF AtLeastOne
<1> QED
  BY <1>2, <1>4, <1>6, TransformTypes, ChangeTimerInv DEF Resume, TimerInv, TimerTypeOK

\* The event loop calls a timer.
LEMMA FireStartInv == ASSUME TimerInv, NEW t \in Timer, FireStart(t) PROVE TimerInv'
<1> DEFINE new == [timer[t] EXCEPT !.armed = FALSE]
<1>1. timer[t] # Null /\ timer[t] \in TimerState
  BY DEF FireStart, Expired, TimerInv, TimerTypeOK
<1>2. /\ new \in TimerState /\ new.handle = timer[t].handle
      /\ new.paused = timer[t].paused /\ new.remaining = timer[t].remaining
      /\ new.left = timer[t].left
  BY <1>1 DEF TimerState
<1>3. timer' = [timer EXCEPT ![t] = new]
  BY DEF FireStart
<1>4. owed[t] <= IF timer[t].paused THEN timer[t].remaining ELSE timer[t].left
  BY <1>1 DEF TimerInv, ScriptsWaiting, LiveTimers
<1> HIDE DEF new
<1> QED
  BY <1>1, <1>2, <1>3, <1>4, ChangeTimerInv DEF FireStart, TimerInv, TimerTypeOK

\* Its callback has returned.
LEMMA FireEndInv == ASSUME TimerInv, NEW t \in Timer, FireEnd(t) PROVE TimerInv'
<1>1. running' = Null /\ broken' = (timer[t] = Null) /\ running' \in Timer \cup {Null}
      /\ broken' \in BOOLEAN
  BY DEF FireEnd
<1>2. CASE timer[t] = Null
  <2>1. timer' = timer /\ handle' = handle /\ owed' = owed
    BY <1>1, <1>2 DEF FireEnd, TimerInv, TimerTypeOK
  <2> QED
    BY <1>1, <2>1 DEF TimerInv, TimerTypeOK, HandleOwner, HandlesOwned, ScriptsWaiting, LiveTimers
<1>3. CASE timer[t] # Null /\ timer[t].interval = 0
  <2>1. /\ timer' = [timer EXCEPT ![t] = Null] /\ owed' = owed
        /\ handle' = [handle EXCEPT ![timer[t].handle] = Null]
    BY <1>1, <1>3 DEF FireEnd, Disowned
  <2> QED BY <1>1, <1>3, <2>1, FreeTimerInv
<1>4. CASE timer[t] # Null /\ timer[t].interval # 0
  <2> DEFINE new == Again(timer[t])
  <2>1. timer[t] \in TimerState
    BY <1>4 DEF TimerInv, TimerTypeOK
  <2>2. /\ timer' = [timer EXCEPT ![t] = new] /\ handle' = handle
        /\ owed' = [owed EXCEPT ![t] = IF timer[t].paused THEN @ ELSE timer[t].interval]
    BY <1>4, <2>1 DEF FireEnd
  <2>3. /\ new \in TimerState /\ new.handle = timer[t].handle
        /\ new.paused = timer[t].paused /\ new.remaining = timer[t].remaining
        /\ new.left = timer[t].interval /\ new.interval \in Nat /\ timer[t].interval \in Nat
    BY <2>1, TransformTypes DEF Again, TimerState
  <2>4. owed[t] <= IF timer[t].paused THEN timer[t].remaining ELSE timer[t].left
    BY <1>4 DEF TimerInv, ScriptsWaiting, LiveTimers
  <2> HIDE DEF new
  <2>5. /\ owed' \in [Timer -> Nat] /\ \A u \in Timer \ {t} : owed'[u] = owed[u]
        /\ owed'[t] <= IF new.paused THEN new.remaining ELSE new.left
    BY <2>2, <2>3, <2>4 DEF TimerInv, TimerTypeOK
  <2> QED BY <1>1, <1>4, <2>2, <2>3, <2>5, ChangeTimerInv
<1> QED BY <1>2, <1>3, <1>4

\* Time passes.
LEMMA TickInv == ASSUME TimerInv, Tick PROVE TimerInv'
<1>1. /\ \A t \in Timer : timer'[t] = IF timer[t] # Null /\ timer[t].armed
                                      THEN [timer[t] EXCEPT !.left = Less(@)] ELSE timer[t]
      /\ \A t \in Timer : owed'[t] = IF timer[t] # Null /\ ~timer[t].paused
                                     THEN Less(owed[t]) ELSE owed[t]
      /\ UNCHANGED <<handle, running, broken>>
  BY DEF Tick
<1>2. \A t \in LiveTimers :
         /\ timer'[t] \in TimerState /\ timer'[t].handle = timer[t].handle
         /\ timer'[t].paused = timer[t].paused /\ timer'[t].remaining = timer[t].remaining
         /\ timer'[t].left \in {timer[t].left, Less(timer[t].left)}
  <2> SUFFICES ASSUME NEW t \in LiveTimers
               PROVE  /\ timer'[t] \in TimerState /\ timer'[t].handle = timer[t].handle
                      /\ timer'[t].paused = timer[t].paused
                      /\ timer'[t].remaining = timer[t].remaining
                      /\ timer'[t].left \in {timer[t].left, Less(timer[t].left)}
    OBVIOUS
  <2>1. t \in Timer /\ timer[t] # Null /\ timer[t] \in TimerState /\ Less(timer[t].left) \in Nat
    BY TimerTypes, LessType DEF TimerInv, LiveTimers
  <2> QED BY <1>1, <2>1 DEF TimerState
<1>3. TimerTypeOK'
  <2>1. \A t \in Timer : timer'[t] \in TimerState \cup {Null} /\ owed'[t] \in Nat
    BY <1>1, <1>2, TimerTypes, LessType DEF TimerInv, LiveTimers
  <2> QED BY <1>1, <2>1 DEF TimerInv, TimerTypeOK, Tick
<1>4. LiveTimers' = LiveTimers
  BY <1>1, <1>2, TimerTypes DEF TimerInv, LiveTimers
<1>5. HandleOwner'
  BY <1>1, <1>2, <1>4, TimerTypes DEF TimerInv, TimerTypeOK, HandleOwner, LiveTimers
<1>6. HandlesOwned'
  BY <1>1, <1>2, <1>4 DEF TimerInv, HandlesOwned
<1>7. ScriptsWaiting'
  <2> SUFFICES ASSUME NEW t \in LiveTimers
               PROVE  owed'[t] <= IF timer'[t].paused THEN timer'[t].remaining
                                  ELSE timer'[t].left
    BY <1>4 DEF ScriptsWaiting
  <2>1. /\ t \in Timer /\ timer[t] # Null /\ timer[t].left \in Nat /\ timer[t].remaining \in Nat
        /\ owed[t] \in Nat
        /\ owed[t] <= IF timer[t].paused THEN timer[t].remaining ELSE timer[t].left
    BY TimerTypes DEF TimerInv, ScriptsWaiting, LiveTimers
  <2> QED BY <1>1, <1>2, <2>1, LessMonotone
<1> QED BY <1>3, <1>5, <1>6, <1>7 DEF TimerInv

\* One case for each action.
LEMMA TimerNextInv == TimerInv /\ [TimerNext]_timerVars => TimerInv'
<1> SUFFICES ASSUME TimerInv, [TimerNext]_timerVars PROVE TimerInv'
  OBVIOUS
<1>1. CASE \E t \in Timer, h \in Handle, ms \in Period, once \in BOOLEAN : NewTimer(t, h, ms, once)
  BY <1>1, NewTimerInv
<1>2. CASE \E t \in Timer : FireStart(t) \/ FireEnd(t)
  BY <1>2, FireStartInv, FireEndInv
<1>3. CASE \E h \in Handle : Cancel(h) \/ Pause(h) \/ Resume(h)
  BY <1>3, CancelInv, PauseInv, ResumeInv
<1>4. CASE Tick
  BY <1>4, TickInv
<1>5. CASE UNCHANGED timerVars
  BY <1>5 DEF TimerInv, TimerTypeOK, HandleOwner, HandlesOwned, ScriptsWaiting, LiveTimers, timerVars
<1> QED BY <1>1, <1>2, <1>3, <1>4, <1>5 DEF TimerNext

\* The invariant holds of every behaviour, whatever the scripts do.
THEOREM TimersInvariant == TimerSpec => []TimerInv
<1> QED BY TimerInitInv, TimerNextInv, PTL DEF TimerSpec

\* No operation on timers stores a value of the wrong type.
THEOREM TimersTypeCorrect == TimerSpec => []TimerTypeOK
<1>1. TimerInv => TimerTypeOK
  BY DEF TimerInv
<1> QED BY <1>1, TimersInvariant, PTL

\* A handle is null or controls the live timer it was returned for, for any
\* number of timers and handles and however addresses are reused.
THEOREM HandlesOwn == TimerSpec => []HandleOwner
<1>1. TimerInv => HandleOwner
  BY DEF TimerInv
<1> QED BY <1>1, TimersInvariant, PTL

\* No callback comes while its timer is paused or before its period has passed.
THEOREM CalledOnTime == TimerSpec => OnTime
<1> DEFINE A == \A t \in Timer : running # t /\ running' = t => ~timer[t].paused /\ owed[t] = 0
<1>1. TimerInv /\ [TimerNext]_timerVars => [A]_timerVars
  <2> SUFFICES ASSUME TimerInv, TimerNext, NEW t \in Timer, running # t, running' = t
               PROVE  ~timer[t].paused /\ owed[t] = 0
    BY DEF timerVars
  <2>1. FireStart(t)
    BY TimersAssumption
    DEF TimerNext, NewTimer, FireStart, FireEnd, Cancel, Pause, Resume, Tick, TimerInv, TimerTypeOK
  <2>2. timer[t] # Null /\ timer[t].left = 0 /\ ~timer[t].paused
    BY <2>1, TimersAssumption DEF FireStart, Expired
  <2>3. owed[t] <= 0 /\ owed[t] \in Nat
    BY <2>2 DEF TimerInv, TimerTypeOK, ScriptsWaiting, LiveTimers
  <2> QED BY <2>2, <2>3
<1> QED BY <1>1, TimersInvariant, PTL DEF TimerSpec, OnTime

----------------------------------------------------------------------------

\* Scripts whose callbacks do not cancel their own timer never make the compositor
\* use freed memory: the run self_cancel shows that the assumption is needed.
THEOREM NeverFreed ==
    ASSUME "cancel" \notin OwnCalls PROVE TimerSpec => []NoUseAfterFree
<1>1. TimerInit => RunningLive
  BY DEF TimerInit, RunningLive
<1>2. TimerInv /\ RunningLive /\ [TimerNext]_timerVars => RunningLive'
  <2> SUFFICES ASSUME TimerInv, RunningLive, [TimerNext]_timerVars PROVE RunningLive'
    OBVIOUS
  <2> USE DEF RunningLive
  <2>1. ASSUME NEW t \in Timer, NEW h \in Handle, NEW ms \in Period, NEW once \in BOOLEAN,
               NewTimer(t, h, ms, once)
        PROVE  RunningLive'
    BY <2>1 DEF NewTimer, TimerInv, TimerTypeOK
  <2>2. ASSUME NEW t \in Timer, FireStart(t) PROVE RunningLive'
    <3>1. timer[t] \in TimerState /\ [timer[t] EXCEPT !.armed = FALSE] \in TimerState
      BY <2>2 DEF FireStart, Expired, TimerInv, TimerTypeOK, TimerState
    <3> QED BY <2>2, <3>1, TimersAssumption DEF FireStart, TimerInv, TimerTypeOK
  <2>3. ASSUME NEW t \in Timer, FireEnd(t) PROVE RunningLive'
    BY <2>3, TimersAssumption DEF FireEnd
  <2>4. ASSUME NEW h \in Handle, Cancel(h) PROVE RunningLive'
    <3>1. handle[h] # Null /\ handle[h] # running /\ Use(h, Null)
      BY <2>4 DEF Cancel, Method
    <3>2. handle[h] \in Timer /\ timer' = [timer EXCEPT ![handle[h]] = Null] /\ UNCHANGED broken
      BY <3>1, HandleUsed
    <3> QED BY <2>4, <3>1, <3>2 DEF Cancel, TimerInv, TimerTypeOK
  <2>5. ASSUME NEW h \in Handle, Pause(h) PROVE RunningLive'
    <3>1. handle[h] # Null /\ Use(h, Paused(timer[handle[h]]))
      BY <2>5 DEF Pause, Method
    <3>2. /\ handle[h] \in Timer /\ timer[handle[h]] \in TimerState /\ UNCHANGED broken
          /\ timer' = [timer EXCEPT ![handle[h]] = Paused(timer[handle[h]])]
      BY <3>1, HandleUsed
    <3>3. Paused(timer[handle[h]]) # Null
      BY <3>2, TransformTypes, TimersAssumption
    <3> QED BY <2>5, <3>2, <3>3 DEF Pause, TimerInv, TimerTypeOK
  <2>6. ASSUME NEW h \in Handle, Resume(h) PROVE RunningLive'
    <3>1. handle[h] # Null /\ Use(h, Resumed(timer[handle[h]]))
      BY <2>6 DEF Resume, Method
    <3>2. /\ handle[h] \in Timer /\ timer[handle[h]] \in TimerState /\ UNCHANGED broken
          /\ timer' = [timer EXCEPT ![handle[h]] = Resumed(timer[handle[h]])]
      BY <3>1, HandleUsed
    <3>3. Resumed(timer[handle[h]]) # Null
      BY <3>2, TransformTypes, TimersAssumption
    <3> QED BY <2>6, <3>2, <3>3 DEF Resume, TimerInv, TimerTypeOK
  <2>7. ASSUME Tick PROVE RunningLive'
    <3>1. TimerInv' /\ running' = running /\ broken' = broken
      BY <2>7, TickInv DEF Tick
    <3>2. \A t \in Timer : timer[t] # Null => timer'[t] # Null
      <4> SUFFICES ASSUME NEW t \in Timer, timer[t] # Null PROVE timer'[t] # Null
        OBVIOUS
      <4>1. timer[t] \in TimerState /\ Less(timer[t].left) \in Nat
        BY LessType, TimerTypes DEF TimerInv, LiveTimers
      <4>2. [timer[t] EXCEPT !.left = Less(timer[t].left)] \in TimerState
        BY <4>1 DEF TimerState
      <4> QED BY <2>7, <4>2, TimersAssumption DEF Tick
    <3> QED BY <3>1, <3>2 DEF TimerInv, TimerTypeOK
  <2>8. CASE UNCHANGED timerVars
    BY <2>8 DEF timerVars
  <2> QED
    BY <2>1, <2>2, <2>3, <2>4, <2>5, <2>6, <2>7, <2>8 DEF TimerNext
<1>3. RunningLive => NoUseAfterFree
  BY DEF RunningLive, NoUseAfterFree
<1> QED BY <1>1, <1>2, <1>3, TimersInvariant, PTL DEF TimerSpec
\* A method changes one timer, Tick lets times pass: the flags of the others stay.
LEMMA OtherTimersKept ==
    ASSUME TimerInv, NEW h \in Handle, handle[h] # Null, NEW new, Use(h, new)
    PROVE  \A t \in Timer \ {handle[h]} : timer'[t] = timer[t]
  BY HandleUsed DEF TimerInv, TimerTypeOK

\* No order of calls leaves a timer waiting for an expiry that never comes, as long
\* as no script asks for a period of zero, which disarms.
THEOREM NeverLost ==
    ASSUME 0 \notin Period PROVE TimerSpec => []TimerArmed
<1> DEFINE Kept(t) == timer[t].paused \/ running = t \/ timer[t].armed
<1>1. TimerInit => TimerArmed
  BY DEF TimerInit, TimerArmed, LiveTimers
<1>2. TimerInv /\ TimerArmed /\ [TimerNext]_timerVars => TimerArmed'
  <2> SUFFICES ASSUME TimerInv, TimerArmed, [TimerNext]_timerVars,
                      NEW u \in Timer, timer'[u] # Null
               PROVE  timer'[u].paused \/ running' = u \/ timer'[u].armed
    BY DEF TimerArmed, LiveTimers
  <2> DEFINE Goal == timer'[u].paused \/ running' = u \/ timer'[u].armed
  <2>0. timer[u] # Null => Kept(u) /\ timer[u] \in TimerState
    BY DEF TimerArmed, LiveTimers, TimerInv, TimerTypeOK
  <2>1. ASSUME NEW t \in Timer, NEW h \in Handle, NEW ms \in Period, NEW once \in BOOLEAN,
               NewTimer(t, h, ms, once)
        PROVE  Goal
    <3>1. CASE u = t
      <4>1. ms > 0
        BY TimersAssumption
      <4>2. timer'[t].armed = (ms > 0)
        BY <2>1 DEF NewTimer, TimerInv, TimerTypeOK
      <4> QED BY <3>1, <4>1, <4>2
    <3>2. CASE u # t
      BY <2>0, <2>1, <3>2 DEF NewTimer, TimerInv, TimerTypeOK
    <3> QED BY <3>1, <3>2
  <2>2. ASSUME NEW t \in Timer, FireStart(t) PROVE Goal
    <3>1. timer[t] # Null /\ timer[t] \in TimerState /\ running = Null
      BY <2>2 DEF FireStart, Expired, TimerInv, TimerTypeOK
    <3>2. CASE u = t
      <4>1. timer'[t].paused = timer[t].paused
        BY <2>2, <3>1 DEF FireStart, TimerInv, TimerTypeOK, TimerState
      <4> QED BY <2>2, <3>2, <4>1 DEF FireStart
    <3>3. CASE u # t
      BY <2>0, <2>2, <3>1, <3>3, TimersAssumption DEF FireStart, TimerInv, TimerTypeOK
    <3> QED BY <3>2, <3>3
  <2>3. ASSUME NEW t \in Timer, FireEnd(t) PROVE Goal
    <3>1. CASE u = t
      <4>1. timer[t] # Null /\ timer[t] \in TimerState /\ timer' = [timer EXCEPT ![t] = Again(timer[t])]
        BY <2>3, <3>1 DEF FireEnd, TimerInv, TimerTypeOK
      <4> QED BY <3>1, <4>1 DEF Again, TimerState, TimerInv, TimerTypeOK
    <3>2. CASE u # t
      BY <2>0, <2>3, <3>2 DEF FireEnd, TimerInv, TimerTypeOK
    <3> QED BY <3>1, <3>2
  <2>4. ASSUME NEW h \in Handle, Cancel(h) PROVE Goal
    <3>1. handle[h] # Null /\ Use(h, Null)
      BY <2>4 DEF Cancel, Method
    <3>2. u # handle[h] /\ timer'[u] = timer[u]
      BY <3>1, HandleUsed, OtherTimersKept DEF TimerInv, TimerTypeOK
    <3> QED BY <2>0, <2>4, <3>2 DEF Cancel
  <2>5. ASSUME NEW h \in Handle, Pause(h) PROVE Goal
    <3>1. handle[h] # Null /\ Use(h, Paused(timer[handle[h]]))
      BY <2>5 DEF Pause, Method
    <3>2. timer'[handle[h]].paused
      <4>1. /\ handle[h] \in Timer /\ timer[handle[h]] \in TimerState
            /\ timer' = [timer EXCEPT ![handle[h]] = Paused(timer[handle[h]])]
        BY <3>1, HandleUsed
      <4>2. timer'[handle[h]] = Paused(timer[handle[h]])
        BY <4>1 DEF TimerInv, TimerTypeOK
      <4> QED BY <4>1, <4>2 DEF Paused, TimerState
    <3> QED BY <2>0, <2>5, <3>1, <3>2, OtherTimersKept DEF Pause
  <2>6. ASSUME NEW h \in Handle, Resume(h) PROVE Goal
    <3>1. handle[h] # Null /\ Use(h, Resumed(timer[handle[h]]))
      BY <2>6 DEF Resume, Method
    <3>2. timer'[handle[h]].armed
      <4>1. /\ handle[h] \in Timer /\ timer[handle[h]] \in TimerState
            /\ timer' = [timer EXCEPT ![handle[h]] = Resumed(timer[handle[h]])]
        BY <3>1, HandleUsed
      <4>2. timer'[handle[h]] = Resumed(timer[handle[h]])
        BY <4>1 DEF TimerInv, TimerTypeOK
      <4> QED BY <4>1, <4>2 DEF Resumed, TimerState
    <3> QED BY <2>0, <2>6, <3>1, <3>2, OtherTimersKept DEF Resume
  <2>7. ASSUME Tick PROVE Goal
    <3>1. timer[u] # Null
      BY <2>7 DEF Tick
    <3>2. timer'[u].paused = timer[u].paused /\ timer'[u].armed = timer[u].armed
      BY <2>0, <2>7, <3>1 DEF Tick, TimerState
    <3> QED BY <2>0, <2>7, <3>1, <3>2 DEF Tick
  <2>8. CASE UNCHANGED timerVars
    BY <2>0, <2>8 DEF timerVars
  <2> QED
    BY <2>1, <2>2, <2>3, <2>4, <2>5, <2>6, <2>7, <2>8 DEF TimerNext
<1> QED BY <1>1, <1>2, TimersInvariant, PTL DEF TimerSpec

----------------------------------------------------------------------------
(***************************************************************************)
(* Hot corners.  A corner runs when it is entered or its delay ends.  That *)
(* it did not run since the pointer came in is a fact about the past; the  *)
(* invariant ties it to hot_corner: the only corner that may have run      *)
(* while the pointer is in it is the active one, which is not entered      *)
(* again, and an armed timer means that the active one has not run.        *)
(***************************************************************************)

ActiveZone == <<hot_corner.output, hot_corner.active>>

HotCorner == [active : Corner \cup {NoCorner}, output : Monitor \cup {NoMonitor},
              cooldown : SUBSET Corner, armed : BOOLEAN]

ArmedFresh ==
    hot_corner.armed =>
        hot_corner.active \in Corner /\ hot_corner.output \in Monitor /\ ActiveZone \notin spent

CornerInv ==
    /\ CornerTypeOK
    /\ OncePerEntry
    /\ cursor \in spent => cursor = ActiveZone
    /\ ArmedFresh

\* The pointer is where it was, or comes into a corner anew: what it ran before it
\* left is forgotten.
Visited(o, c) == IF <<o, c>> = cursor THEN spent ELSE spent \ {<<o, c>>}

----------------------------------------------------------------------------

\* What a step must keep of the corners, beside the monitors and the settings.
LEMMA CornersKept ==
    ASSUME CornerTypeOK,
           monitors' \subseteq Monitor, corner_config' \in CornerSettings,
           cursor' \in Zone, grabbed' \in BOOLEAN, lost_monitor' \in BOOLEAN,
           hot_corner' \in HotCorner, spent' \subseteq Monitor \X Corner, again' = FALSE,
           cursor' \in spent' => cursor' = ActiveZone', ArmedFresh'
    PROVE  CornerInv'
<1>1. again' \in BOOLEAN /\ ~again'
  BY Zenon
<1> QED BY <1>1, Zenon DEF CornerInv, CornerTypeOK, OncePerEntry, HotCorner

\* Running the active corner for the first time since it was entered.
LEMMA FireRunsOnce ==
    ASSUME NEW h \in HotCorner, NEW visited \in SUBSET (Monitor \X Corner),
           h.active \in Corner, h.output \in Monitor, <<h.output, h.active>> \notin visited,
           again = FALSE, Fire(h, visited)
    PROVE  /\ hot_corner' \in HotCorner /\ ~hot_corner'.armed
           /\ ActiveZone' = <<h.output, h.active>>
           /\ spent' \subseteq Monitor \X Corner
           /\ spent' \subseteq visited \cup {<<h.output, h.active>>}
           /\ again' = FALSE
<1>1. again' = FALSE
  BY Zenon DEF Fire
<1>2. /\ hot_corner' = [h EXCEPT !.armed = FALSE, !.cooldown = @ \cup {h.active}]
      /\ spent' \subseteq visited \cup {<<h.output, h.active>>}
  BY DEF Fire, Fired
<1>3. hot_corner' \in HotCorner /\ ~hot_corner'.armed /\ ActiveZone' = <<h.output, h.active>>
  BY <1>2 DEF HotCorner, ActiveZone
<1>4. spent' \subseteq Monitor \X Corner
  BY <1>2
<1> QED BY <1>1, <1>2, <1>3, <1>4

\* The pointer enters a corner: if it was not the active one, it has not run.
LEMMA EnterKeeps ==
    ASSUME CornerInv, NEW o \in Monitor, NEW c \in Corner,
           cursor' = <<o, c>>, ~(c = hot_corner.active /\ o = hot_corner.output),
           EnterCorner(o, c, Visited(o, c))
    PROVE  /\ hot_corner' \in HotCorner /\ spent' \subseteq Monitor \X Corner /\ again' = FALSE
           /\ cursor' \in spent' => cursor' = ActiveZone'
           /\ ArmedFresh'
<1> DEFINE entered == [hot_corner EXCEPT !.active = c, !.output = o, !.armed = FALSE]
           V == Visited(o, c)
<1>1. /\ hot_corner \in HotCorner /\ entered \in HotCorner
      /\ entered.active = c /\ entered.output = o
  BY DEF CornerInv, CornerTypeOK, HotCorner
<1>2. again = FALSE
  BY Zenon DEF CornerInv, OncePerEntry, CornerTypeOK
<1>3. V \in SUBSET (Monitor \X Corner) /\ <<o, c>> \notin V
  BY DEF Visited, CornerInv, CornerTypeOK, ActiveZone
<1>4. CASE hot_corner' = entered /\ spent' = V /\ UNCHANGED again
  <2>1. ActiveZone' = cursor' /\ ~hot_corner'.armed
    BY <1>1, <1>4 DEF ActiveZone, HotCorner
  <2> QED BY <1>1, <1>2, <1>3, <1>4, <2>1 DEF ArmedFresh
<1>5. CASE hot_corner' = [entered EXCEPT !.armed = TRUE] /\ spent' = V /\ UNCHANGED again
  <2>1. /\ hot_corner' \in HotCorner
        /\ hot_corner'.active = c /\ hot_corner'.output = o
    BY <1>1, <1>5 DEF HotCorner
  <2>2. ActiveZone' = <<o, c>>
    BY <2>1 DEF ActiveZone
  <2> QED BY <1>2, <1>3, <1>5, <2>1, <2>2 DEF ArmedFresh
<1>6. CASE Fire(entered, V)
  <2>1. /\ hot_corner' \in HotCorner /\ ~hot_corner'.armed
        /\ ActiveZone' = <<o, c>>
        /\ spent' \subseteq Monitor \X Corner
        /\ again' = FALSE
    BY <1>1, <1>2, <1>3, <1>6, FireRunsOnce
  <2> QED BY <2>1 DEF ArmedFresh
<1> QED BY <1>4, <1>5, <1>6 DEF EnterCorner

\* The pointer is in no corner any more.
LEMMA LeaveKeeps ==
    ASSUME CornerInv, NEW o \in Monitor \cup {NoMonitor},
           cursor' = <<o, NoCorner>>, LeaveCorners(Visited(o, NoCorner))
    PROVE  /\ hot_corner' \in HotCorner /\ spent' \subseteq Monitor \X Corner /\ again' = FALSE
           /\ cursor' \in spent' => cursor' = ActiveZone'
           /\ ArmedFresh'
<1>1. again' = FALSE
  BY Zenon DEF CornerInv, OncePerEntry, CornerTypeOK, LeaveCorners
<1>2. hot_corner' \in HotCorner /\ ~hot_corner'.armed
  BY DEF CornerInv, CornerTypeOK, HotCorner, LeaveCorners
<1>3. spent' \subseteq Monitor \X Corner
  BY DEF CornerInv, CornerTypeOK, LeaveCorners, Visited
<1>4. cursor' \notin spent'
  BY <1>3, HotCornersAssumption
<1> QED BY <1>1, <1>2, <1>3, <1>4 DEF ArmedFresh

\* A motion that no corner hears of, or that stays in the active one.
LEMMA UnheardKeeps ==
    ASSUME CornerInv, NEW o, NEW c, cursor' = <<o, c>>, spent' = Visited(o, c),
           UNCHANGED <<hot_corner, again>>
    PROVE  /\ hot_corner' \in HotCorner /\ spent' \subseteq Monitor \X Corner /\ again' = FALSE
           /\ cursor' \in spent' => cursor' = ActiveZone'
           /\ ArmedFresh'
<1>1. again' = FALSE
  BY Zenon DEF CornerInv, OncePerEntry, CornerTypeOK
<1>2. hot_corner' \in HotCorner /\ spent' \subseteq spent /\ ActiveZone' = ActiveZone
  BY DEF CornerInv, CornerTypeOK, HotCorner, Visited, ActiveZone
<1>3. cursor' \in spent' => cursor' = cursor /\ cursor \in spent
  BY DEF Visited
<1>4. ArmedFresh'
  BY <1>2 DEF CornerInv, ArmedFresh
<1> QED BY <1>1, <1>2, <1>3, <1>4 DEF CornerInv, CornerTypeOK

\* A motion enters a corner, leaves one, or does neither.
LEMMA MotionKeeps ==
    ASSUME CornerInv, NEW o \in Monitor \cup {NoMonitor}, NEW c \in Corner \cup {NoCorner},
           Motion(o, c)
    PROVE  CornerInv'
<1>1. /\ cursor' = <<o, c>> /\ cursor' \in Zone
      /\ UNCHANGED <<monitors, grabbed, corner_config, lost_monitor>>
  BY DEF Motion, Zone
<1>2. CASE spent' = Visited(o, c) /\ UNCHANGED <<hot_corner, again>>
  BY <1>1, <1>2, UnheardKeeps, CornersKept DEF CornerInv, CornerTypeOK
<1>3. CASE ProcessHotCorners(o, c, Visited(o, c))
  <2>1. CASE c = NoCorner /\ LeaveCorners(Visited(o, c))
    BY <1>1, <2>1, LeaveKeeps, CornersKept DEF CornerInv, CornerTypeOK
  <2>2. CASE /\ c # NoCorner /\ o # NoMonitor
             /\ ~(c = hot_corner.active /\ o = hot_corner.output)
             /\ EnterCorner(o, c, Visited(o, c))
    BY <1>1, <2>2, EnterKeeps, CornersKept DEF CornerInv, CornerTypeOK
  <2> QED BY <1>2, <1>3, <2>1, <2>2 DEF ProcessHotCorners
<1> QED BY <1>2, <1>3 DEF Motion, Visited

\* The timer of a corner expires: it runs, and is no longer armed.
LEMMA DwellKeeps ==
    ASSUME CornerInv, DwellTimer
    PROVE  CornerInv'
<1>1. UNCHANGED <<monitors, cursor, grabbed, corner_config>>
  BY DEF DwellTimer
<1>2. CASE Fire(hot_corner, spent) /\ UNCHANGED lost_monitor
  <2>1. again = FALSE
    BY Zenon DEF CornerInv, OncePerEntry, CornerTypeOK
  <2>2. /\ hot_corner \in HotCorner /\ spent \in SUBSET (Monitor \X Corner)
        /\ hot_corner.active \in Corner /\ hot_corner.output \in Monitor
        /\ <<hot_corner.output, hot_corner.active>> \notin spent
    BY DEF CornerInv, CornerTypeOK, HotCorner, ArmedFresh, ActiveZone, DwellTimer
  <2>3. /\ hot_corner' \in HotCorner /\ ~hot_corner'.armed
        /\ ActiveZone' = ActiveZone
        /\ spent' \subseteq Monitor \X Corner
        /\ spent' \subseteq spent \cup {ActiveZone}
        /\ again' = FALSE
    BY <1>2, <2>1, <2>2, FireRunsOnce DEF ActiveZone
  <2>4. cursor' \in spent' => cursor' = ActiveZone'
    BY <1>1, <2>3 DEF CornerInv
  <2> QED BY <1>1, <1>2, <2>3, <2>4, CornersKept DEF CornerInv, CornerTypeOK, ArmedFresh
<1>3. CASE lost_monitor' = TRUE /\ UNCHANGED <<hot_corner, spent, again>>
  <2>1. again' = FALSE
    BY <1>3, Zenon DEF CornerInv, OncePerEntry, CornerTypeOK
  <2> QED BY <1>1, <1>3, <2>1, CornersKept DEF CornerInv, CornerTypeOK, HotCorner, ArmedFresh, ActiveZone
<1> QED BY <1>2, <1>3 DEF DwellTimer

\* Grabs, reloads and monitors do not touch the corners; a pointer that wlroots
\* moves is in none.
LEMMA OtherCornersKeep ==
    ASSUME CornerInv, UNCHANGED <<hot_corner, spent, again, lost_monitor>>,
           monitors' \subseteq Monitor, corner_config' \in CornerSettings, grabbed' \in BOOLEAN,
           cursor' = cursor \/ cursor' \in (Monitor \cup {NoMonitor}) \X {NoCorner}
    PROVE  CornerInv'
<1>1. again' = FALSE
  BY Zenon DEF CornerInv, OncePerEntry, CornerTypeOK
<1>2. cursor' \in Zone
  BY DEF CornerInv, CornerTypeOK, Zone
<1>3. cursor' \in spent' => cursor' = ActiveZone'
  BY HotCornersAssumption DEF CornerInv, CornerTypeOK, ActiveZone
<1> QED BY <1>1, <1>2, <1>3, CornersKept DEF CornerInv, CornerTypeOK, HotCorner, ArmedFresh, ActiveZone

----------------------------------------------------------------------------

\* At the start nothing ran and nothing is armed.
LEMMA CornersStart == CornerInit => CornerInv
<1> SUFFICES ASSUME CornerInit PROVE CornerInv
  OBVIOUS
<1>1. again \in BOOLEAN /\ OncePerEntry /\ lost_monitor \in BOOLEAN /\ grabbed \in BOOLEAN
  BY Zenon DEF CornerInit, OncePerEntry
<1>2. cursor \in Zone /\ spent = {} /\ hot_corner \in HotCorner /\ ~hot_corner.armed
  BY DEF CornerInit, Zone, HotCorner
<1> QED BY <1>1, <1>2 DEF CornerInit, CornerInv, CornerTypeOK, HotCorner, ArmedFresh

\* Every step keeps the invariant.
LEMMA CornersStep == CornerInv /\ [CornerNext]_cornerVars => CornerInv'
<1> SUFFICES ASSUME CornerInv, [CornerNext]_cornerVars PROVE CornerInv'
  OBVIOUS
<1>1. ASSUME NEW o \in Monitor \cup {NoMonitor}, NEW c \in Corner \cup {NoCorner}, Motion(o, c)
      PROVE  CornerInv'
  BY <1>1, MotionKeeps
<1>2. CASE DwellTimer
  BY <1>2, DwellKeeps
<1>3. CASE Grab
  <2>1. grabbed' \in BOOLEAN
    BY <1>3, Zenon DEF Grab
  <2> QED BY <1>3, <2>1, OtherCornersKeep DEF Grab, CornerInv, CornerTypeOK
<1>4. CASE ReloadCorners
  BY <1>4, OtherCornersKeep DEF ReloadCorners, CornerInv, CornerTypeOK
<1>5. ASSUME NEW o \in Monitor, UnplugMonitor(o)
      PROVE  CornerInv'
  <2>1. monitors' \subseteq Monitor
    BY <1>5 DEF UnplugMonitor, CornerInv, CornerTypeOK
  <2>2. cursor' = cursor \/ cursor' \in (Monitor \cup {NoMonitor}) \X {NoCorner}
    BY <1>5, <2>1 DEF UnplugMonitor
  <2> QED BY <1>5, <2>1, <2>2, OtherCornersKeep DEF UnplugMonitor, CornerInv, CornerTypeOK
<1>6. ASSUME NEW o \in Monitor, PlugMonitor(o)
      PROVE  CornerInv'
  BY <1>6, OtherCornersKeep DEF PlugMonitor, CornerInv, CornerTypeOK
<1>7. CASE UNCHANGED cornerVars
  BY <1>7, OtherCornersKeep DEF cornerVars, CornerInv, CornerTypeOK
<1> QED BY <1>1, <1>2, <1>3, <1>4, <1>5, <1>6, <1>7 DEF CornerNext

\* The inductive invariant: types, no second run, and what ties the corners that ran
\* to the active corner and its timer.
THEOREM CornersInvariant == CornerSpec => []CornerInv
BY CornersStart, CornersStep, PTL DEF CornerSpec

\* A corner runs its function at most once per entry (hot_corner_timer_cb and
\* process_hot_corners), whatever grabs, hops, reloads and monitors come in between.
THEOREM RunsOnce == CornerSpec => []OncePerEntry
<1>1. CornerInv => OncePerEntry
  BY DEF CornerInv
<1> QED BY <1>1, CornersInvariant, PTL


----------------------------------------------------------------------------
(***************************************************************************)
(* Hooks and rules.  A walk that has come to a place has called what        *)
(* matches up to there, and nothing it has passed changes while it waits.   *)
(***************************************************************************)

\* A walk in a list R called exactly the matches up to its place, each once.
Done(w, R) ==
    /\ w.at \in Nat /\ w.at <= Len(R)
    /\ w.called \in Seq(Nat) /\ IsInjective(w.called)
    /\ Range(w.called) = {R[j].id : j \in {x \in 1 .. w.at : R[x].match = w.match}}

\* It called them in the order of their ids.
InOrder(w) == \A i, j \in 1 .. Len(w.called) : i < j => w.called[i] < w.called[j]

WalkedIn(w, h, r) ==
    /\ w \in Walk
    /\ w.over = "hooks" => Done(w, h) /\ InOrder(w)
    /\ w.over = "rules" => Done(w, r)

\* No two entries of a list have the same id.
Distinct(R) == \A i, j \in 1 .. Len(R) : R[i].id = R[j].id => i = j

ListsRight(h, r, n) ==
    /\ h \in Seq(Hook) /\ \A i \in 1 .. Len(h) : h[i].id = i
    /\ r \in Seq(Rule) /\ Distinct(r) /\ n \in Nat \ {0} /\ \A i \in 1 .. Len(r) : r[i].id < n

WalksRight(ws, h, r) ==
    /\ ws \in Seq(Walk)
    /\ \A k \in 1 .. Len(ws) : WalkedIn(ws[k], h, r)

ScriptInv == ListsRight(hooks, rules, next_rule) /\ WalksRight(walks, hooks, rules)

\* A set of natural numbers has a least one.
LEMMA LeastNatural ==
    ASSUME NEW I \in SUBSET Nat, I # {}
    PROVE  Min(I) \in I /\ \A j \in I : Min(I) <= j
<1> DEFINE R == OpToRel(<, Nat)
<1>1. IsWellFoundedOn(R, Nat)
  BY NatLessThanWellFounded
<1>2. \A x, y \in Nat : <<y, x>> \in R <=> y < x
  BY DEF OpToRel
<1> HIDE DEF R
<1>3. PICK x \in I : \A y \in I : ~(<<y, x>> \in R)
  BY <1>1, WFMin
<1>4. x \in Nat /\ \A y \in I : y \in Nat /\ ~(y < x)
  BY <1>2, <1>3
<1>5. x \in I /\ \A y \in I : x <= y
  BY <1>4
<1> QED
  BY <1>5 DEF Min

\* NextMatch is the first match after the place of a walk, or 0 if there is none.
LEMMA NextMatchFirst ==
    ASSUME NEW w, w.at \in Nat, NEW i, i = NextMatch(w), NEW R, R = Registered(w.over),
           Len(R) \in Nat
    PROVE  /\ i = 0 => \A j \in w.at + 1 .. Len(R) : R[j].match # w.match
           /\ i # 0 => /\ i \in w.at + 1 .. Len(R) /\ R[i].match = w.match
                       /\ \A j \in w.at + 1 .. i - 1 : R[j].match # w.match
<1> DEFINE I == { j \in w.at + 1 .. Len(R) : R[j].match = w.match }
<1>1. i = IF I # {} THEN Min(I) ELSE 0
  BY DEF NextMatch, SelectInSubSeq
<1>2. I \in SUBSET Nat
  OBVIOUS
<1>3. \A j \in w.at + 1 .. Len(R) : R[j].match = w.match => j \in I
  OBVIOUS
<1>4. \A j \in I : j \in w.at + 1 .. Len(R) /\ R[j].match = w.match /\ j # 0
  OBVIOUS
<1> HIDE DEF I
<1>5. CASE I = {}
  BY <1>1, <1>3, <1>5
<1>6. CASE I # {}
  <2>1. i \in I /\ \A j \in I : i <= j
    BY <1>1, <1>2, <1>6, LeastNatural
  <2>2. ASSUME NEW j \in w.at + 1 .. i - 1
        PROVE  R[j].match # w.match
    <3>1. i \in w.at + 1 .. Len(R) /\ i \in Nat
      BY <1>4, <2>1
    <3>2. j \in w.at + 1 .. Len(R) /\ j < i /\ ~(i <= j)
      BY <3>1
    <3> QED
      BY <1>3, <2>1, <3>2
  <2> QED
    BY <1>4, <2>1, <2>2
<1> QED
  BY <1>5, <1>6

\* The list of a walk, with distinct ids,
Keyed(R) == Len(R) \in Nat /\ Distinct(R) /\ \A j \in 1 .. Len(R) : R[j].id \in Nat

\* the next match in it,
NextIn(w, R, i) ==
    /\ i \in w.at + 1 .. Len(R) /\ R[i].match = w.match
    /\ \A j \in w.at + 1 .. i - 1 : R[j].match # w.match

\* and that all the walk called is before it.
Passed(w, R, i) == \A k \in 1 .. Len(w.called) : \E j \in 1 .. i - 1 : w.called[k] = R[j].id

\* A walk that moves on to its next match has called that one too.
LEMMA CalledOne ==
    ASSUME NEW w, NEW R, Done(w, R), Keyed(R), NEW i, NextIn(w, R, i),
           NEW v, v.at = i, v.match = w.match, v.called = Append(w.called, R[i].id)
    PROVE  Done(v, R) /\ Passed(w, R, i)
<1> DEFINE c == w.called
           e == v.called
           n == Len(c)
           new == R[i].id
           seen == {R[j].id : j \in {x \in 1 .. w.at : R[x].match = w.match}}
<1>1. /\ w.at \in Nat /\ w.at <= Len(R) /\ c \in Seq(Nat) /\ IsInjective(c) /\ Range(c) = seen
      /\ i \in w.at + 1 .. Len(R) /\ R[i].match = w.match
      /\ \A j \in w.at + 1 .. i - 1 : R[j].match # w.match
      /\ Len(R) \in Nat /\ Distinct(R)
      /\ i \in Nat /\ i \in 1 .. Len(R) /\ new \in Nat
  BY DEF Done, Keyed, NextIn
<1>2. /\ e \in Seq(Nat) /\ Len(e) = n + 1 /\ n \in Nat /\ e[n + 1] = new
      /\ \A k \in 1 .. n : e[k] = c[k]
  BY <1>1
<1>3. DOMAIN c = 1 .. n /\ DOMAIN e = 1 .. n + 1
  BY <1>1, <1>2
<1>4. \A k \in 1 .. n : c[k] \in seen
  BY <1>1, <1>3 DEF Range
<1>5. ASSUME NEW k \in 1 .. n
      PROVE  \E j \in 1 .. i - 1 : c[k] = R[j].id
  <2>1. PICK j \in 1 .. w.at : c[k] = R[j].id
    BY <1>4
  <2>2. j \in 1 .. i - 1
    BY <1>1, <2>1
  <2> QED
    BY <2>1, <2>2
<1>6. ASSUME NEW k \in 1 .. n
      PROVE  c[k] # new
  <2>1. PICK j \in 1 .. i - 1 : c[k] = R[j].id
    BY <1>5
  <2>2. j \in 1 .. Len(R) /\ j # i
    BY <1>1
  <2> QED
    BY <1>1, <2>1, <2>2 DEF Distinct
<1> HIDE DEF c, e, n, new
<1>7. IsInjective(e)
  <2> SUFFICES ASSUME NEW k \in 1 .. n + 1, NEW m \in 1 .. n + 1, e[k] = e[m]
               PROVE  k = m
    BY <1>3 DEF IsInjective
  <2>1. CASE k \in 1 .. n /\ m \in 1 .. n
    BY <1>1, <1>2, <1>3, <2>1 DEF IsInjective
  <2>2. CASE k \in 1 .. n /\ m = n + 1
    BY <1>2, <1>6, <2>2
  <2>3. CASE m \in 1 .. n /\ k = n + 1
    BY <1>2, <1>6, <2>3
  <2>4. CASE k = n + 1 /\ m = n + 1
    BY <2>4
  <2> QED
    BY <1>2, <2>1, <2>2, <2>3, <2>4
<1>8. Range(e) = {R[j].id : j \in {x \in 1 .. i : R[x].match = w.match}}
  <2> DEFINE T == {R[j].id : j \in {x \in 1 .. i : R[x].match = w.match}}
  <2>1. T = seen \cup {new}
    <3>1. ASSUME NEW x \in 1 .. i, R[x].match = w.match
          PROVE  x \in 1 .. w.at \/ x = i
      <4>1. x \in w.at + 1 .. i - 1 \/ x \in 1 .. w.at \/ x = i
        BY <1>1
      <4> QED
        BY <1>1, <3>1, <4>1
    <3>2. 1 .. w.at \subseteq 1 .. i /\ i \in 1 .. i /\ R[i].match = w.match
      BY <1>1
    <3> DEFINE A == {x \in 1 .. w.at : R[x].match = w.match}
               B == {x \in 1 .. i : R[x].match = w.match}
    <3>3. B = A \cup {i}
      BY <3>1, <3>2
    <3> HIDE DEF A, B
    <3>4. {R[j].id : j \in B} = {R[j].id : j \in A} \cup {R[i].id}
      BY <3>3
    <3> QED
      BY <3>4 DEF A, B, new
  <2>2. \A y : y \in Range(e) <=> y \in Range(c) \/ y = new
    <3> SUFFICES ASSUME NEW y
                 PROVE  y \in Range(e) <=> y \in Range(c) \/ y = new
      OBVIOUS
    <3>1. /\ y \in Range(e) <=> \E k \in 1 .. n + 1 : y = e[k]
          /\ y \in Range(c) <=> \E k \in 1 .. n : y = c[k]
      BY <1>3 DEF Range
    <3>2. ASSUME NEW k \in 1 .. n + 1, y = e[k]
          PROVE  y \in Range(c) \/ y = new
      <4>1. CASE k \in 1 .. n
        BY <1>2, <3>1, <3>2, <4>1
      <4>2. CASE k = n + 1
        BY <1>2, <3>2, <4>2
      <4> QED
        BY <1>2, <4>1, <4>2
    <3>3. ASSUME NEW k \in 1 .. n, y = c[k]
          PROVE  y \in Range(e)
      <4>1. k \in 1 .. n + 1 /\ y = e[k]
        BY <1>2, <3>3
      <4> QED
        BY <3>1, <4>1
    <3>4. y = new => y \in Range(e)
      <4>1. n + 1 \in 1 .. n + 1 /\ e[n + 1] = new
        BY <1>2
      <4> QED
        BY <3>1, <4>1
    <3> QED
      BY <3>1, <3>2, <3>3, <3>4
  <2> HIDE DEF T
  <2>3. Range(e) = T
    BY <1>1, <2>1, <2>2
  <2> QED
    BY <2>3 DEF T
<1> QED
  BY <1>1, <1>2, <1>5, <1>7, <1>8 DEF Done, Passed, c, e, n

\* What a walk has called does not depend on what is after its place.
LEMMA DoneFollows ==
    ASSUME NEW w, NEW R, NEW S, Done(w, R), w.at <= Len(S), Len(S) \in Nat,
           \A j \in 1 .. w.at : S[j] = R[j]
    PROVE  Done(w, S)
<1> DEFINE A == {x \in 1 .. w.at : R[x].match = w.match}
           B == {x \in 1 .. w.at : S[x].match = w.match}
<1>1. A = B
  OBVIOUS
<1>2. {R[j].id : j \in A} = {S[j].id : j \in B}
  BY <1>1
<1> QED
  BY <1>2 DEF Done

\* The walks wait while a list grows, or changes after their places.
LEMMA WalksFollow ==
    ASSUME NEW ws, NEW h, NEW r, WalksRight(ws, h, r), NEW hh, NEW rr,
           Len(h) \in Nat, Len(hh) \in Nat, Len(rr) \in Nat, Len(h) <= Len(hh),
           \A j \in 1 .. Len(h) : hh[j] = h[j],
           \A k \in 1 .. Len(ws) : ws[k].over = "rules" =>
               ws[k].at <= Len(rr) /\ \A j \in 1 .. ws[k].at : rr[j] = r[j]
    PROVE  WalksRight(ws, hh, rr)
<1> SUFFICES ASSUME NEW k \in 1 .. Len(ws)
             PROVE  WalkedIn(ws[k], hh, rr)
  BY DEF WalksRight
<1>1. WalkedIn(ws[k], h, r)
  BY DEF WalksRight
<1>2. ws[k].over = "hooks" => Done(ws[k], hh) /\ InOrder(ws[k])
  <2> SUFFICES ASSUME ws[k].over = "hooks"
               PROVE  Done(ws[k], hh) /\ InOrder(ws[k])
    OBVIOUS
  <2>1. Done(ws[k], h) /\ InOrder(ws[k])
    BY <1>1 DEF WalkedIn
  <2>2. ws[k].at \in Nat /\ ws[k].at <= Len(h)
    BY <2>1 DEF Done
  <2>3. ws[k].at <= Len(hh) /\ \A j \in 1 .. ws[k].at : hh[j] = h[j]
    BY <2>2
  <2> QED
    BY <2>1, <2>3, DoneFollows
<1>3. ws[k].over = "rules" => Done(ws[k], rr)
  BY <1>1, DoneFollows DEF WalkedIn
<1> QED
  BY <1>1, <1>2, <1>3 DEF WalkedIn

\* Hooks are appended with the next ids,
LEMMA HooksGrow ==
    ASSUME NEW h, NEW r, NEW n, ListsRight(h, r, n), NEW E \in Seq(Event), NEW new,
           new = [i \in 1 .. Len(E) |-> [match |-> E[i], id |-> Len(h) + i]]
    PROVE  /\ ListsRight(h \o new, r, n)
           /\ Len(h) \in Nat /\ Len(h \o new) \in Nat /\ Len(h) <= Len(h \o new)
           /\ \A j \in 1 .. Len(h) : (h \o new)[j] = h[j]
<1>1. h \in Seq(Hook) /\ Len(h) \in Nat /\ Len(E) \in Nat /\ \A i \in 1 .. Len(h) : h[i].id = i
  BY DEF ListsRight
<1>2. \A i \in 1 .. Len(E) : [match |-> E[i], id |-> Len(h) + i] \in Hook
  BY <1>1 DEF Hook
<1>3. new \in Seq(Hook) /\ Len(new) = Len(E)
  BY <1>1, <1>2
<1>4. h \o new \in Seq(Hook) /\ Len(h \o new) = Len(h) + Len(E)
  BY <1>1, <1>3
<1>5. \A j \in 1 .. Len(h) : (h \o new)[j] = h[j]
  BY <1>1, <1>3
<1>6. ASSUME NEW j \in 1 .. Len(h) + Len(E)
      PROVE  (h \o new)[j].id = j
  <2>1. CASE j <= Len(h)
    BY <1>1, <1>5, <2>1
  <2>2. CASE j > Len(h)
    <3>1. (h \o new)[j] = new[j - Len(h)] /\ j - Len(h) \in 1 .. Len(E)
      BY <1>1, <1>3, <2>2
    <3>2. new[j - Len(h)].id = Len(h) + (j - Len(h))
      BY <3>1
    <3> QED
      BY <1>1, <3>1, <3>2
  <2> QED
    BY <1>1, <2>1, <2>2
<1> QED
  BY <1>1, <1>4, <1>5, <1>6 DEF ListsRight

\* and so are rules.
LEMMA RulesGrow ==
    ASSUME NEW h, NEW r, NEW n, ListsRight(h, r, n), NEW A \in Seq(AppId), NEW new,
           new = [i \in 1 .. Len(A) |-> [match |-> A[i], id |-> n + i - 1]]
    PROVE  /\ ListsRight(h, r \o new, n + Len(A))
           /\ Len(r) \in Nat /\ Len(r \o new) \in Nat /\ Len(r) <= Len(r \o new)
           /\ \A j \in 1 .. Len(r) : (r \o new)[j] = r[j]
<1>1. /\ r \in Seq(Rule) /\ Len(r) \in Nat /\ Len(A) \in Nat /\ Distinct(r)
      /\ n \in Nat \ {0} /\ \A i \in 1 .. Len(r) : r[i].id < n
  BY DEF ListsRight
<1>2. \A i \in 1 .. Len(A) : [match |-> A[i], id |-> n + i - 1] \in Rule
  BY <1>1 DEF Rule
<1>3. new \in Seq(Rule) /\ Len(new) = Len(A)
  BY <1>1, <1>2
<1>4. r \o new \in Seq(Rule) /\ Len(r \o new) = Len(r) + Len(A)
  BY <1>1, <1>3
<1>5. \A j \in 1 .. Len(r) : (r \o new)[j] = r[j]
  BY <1>1, <1>3
<1>6. ASSUME NEW j \in 1 .. Len(r) + Len(A), j > Len(r)
      PROVE  (r \o new)[j].id = n + (j - Len(r)) - 1
  <2>1. (r \o new)[j] = new[j - Len(r)] /\ j - Len(r) \in 1 .. Len(A)
    BY <1>1, <1>3, <1>6
  <2> QED
    BY <2>1
<1>7. \A j \in 1 .. Len(r) : r[j].id \in Nat
  <2>1. \A j \in 1 .. Len(r) : r[j] \in Rule
    BY <1>1
  <2> QED
    BY <2>1 DEF Rule
<1>8. \A j \in 1 .. Len(r) + Len(A) :
         /\ j <= Len(r) => (r \o new)[j].id = r[j].id /\ r[j].id \in Nat /\ r[j].id < n
         /\ j > Len(r) => (r \o new)[j].id = n + (j - Len(r)) - 1
  BY <1>1, <1>5, <1>6, <1>7
<1>9. \A j \in 1 .. Len(r) + Len(A) : (r \o new)[j].id < n + Len(A)
  BY <1>1, <1>8
<1>10. Distinct(r \o new)
  <2> SUFFICES ASSUME NEW i \in 1 .. Len(r) + Len(A), NEW j \in 1 .. Len(r) + Len(A),
                      (r \o new)[i].id = (r \o new)[j].id
               PROVE  i = j
    BY <1>4 DEF Distinct
  <2>1. CASE i <= Len(r) /\ j <= Len(r)
    BY <1>1, <1>8, <2>1 DEF Distinct
  <2>2. CASE i > Len(r) /\ j > Len(r)
    BY <1>1, <1>8, <2>2
  <2>3. CASE i <= Len(r) /\ j > Len(r)
    BY <1>1, <1>8, <2>3
  <2>4. CASE i > Len(r) /\ j <= Len(r)
    BY <1>1, <1>8, <2>4
  <2> QED
    BY <1>1, <2>1, <2>2, <2>3, <2>4
<1> QED
  BY <1>1, <1>4, <1>5, <1>9, <1>10 DEF ListsRight

\* A sequence without its last element.
LEMMA FrontOf ==
    ASSUME NEW S, NEW s \in Seq(S), s # <<>>
    PROVE  /\ Front(s) \in Seq(S) /\ Len(s) \in Nat \ {0} /\ Len(Front(s)) = Len(s) - 1
           /\ \A i \in 1 .. Len(s) - 1 : Front(s)[i] = s[i]
<1> DEFINE n == Len(s) - 1
           f == SubSeq(s, 1, n)
<1>1. Len(s) \in Nat \ {0} /\ n \in Nat /\ n = Len(s) - 1
  OBVIOUS
<1>2. \A i \in 1 .. n : s[i] \in S
  OBVIOUS
<1> HIDE DEF n
<1>3. f \in Seq(S) /\ Len(f) = n /\ \A i \in 1 .. n : f[i] = s[i]
  <2>1. /\ f \in Seq(S) /\ Len(f) = IF 1 <= n THEN n - 1 + 1 ELSE 0
        /\ \A i \in 1 .. n - 1 + 1 : f[i] = s[1 + i - 1]
    BY <1>1, <1>2, SubSeqProperties
  <2>2. n - 1 + 1 = n /\ \A i \in 1 .. n : 1 + i - 1 = i
    BY <1>1
  <2> HIDE DEF f
  <2> QED
    BY <1>1, <2>1, <2>2
<1>4. Front(s) = f
  BY DEF Front, n
<1> QED
  BY <1>1, <1>3, <1>4

\* The list f is r without the i-th element, whose place the last one has.
LastInPlace(r, i, f) ==
    /\ Len(r) \in Nat \ {0} /\ Len(f) = Len(r) - 1
    /\ \A j \in 1 .. Len(r) - 1 : (j = i => f[j] = r[Len(r)]) /\ (j # i => f[j] = r[j])

\* What precedes the i-th place is the same in both.
SameBefore(r, i, f) ==
    \A at \in Nat : at < i => at <= Len(f) /\ \A j \in 1 .. at : f[j] = r[j]

\* That is what remove_rule does.
LEMMA TakenOut ==
    ASSUME NEW r \in Seq(Rule), NEW i \in 1 .. Len(r), NEW f, f = Front([r EXCEPT ![i] = Last(r)])
    PROVE  f \in Seq(Rule) /\ LastInPlace(r, i, f)
<1> DEFINE s == [r EXCEPT ![i] = Last(r)]
           m == Len(r)
<1>0. f = Front(s)
  OBVIOUS
<1>1. /\ s \in Seq(Rule) /\ Len(s) = m /\ s # <<>> /\ m \in Nat \ {0}
      /\ \A j \in 1 .. m : j # i => s[j] = r[j]
      /\ s[i] = r[m]
  BY DEF Last
<1> HIDE DEF s
<1>2. f \in Seq(Rule) /\ Len(f) = m - 1 /\ \A j \in 1 .. m - 1 : f[j] = s[j]
  BY <1>0, <1>1, FrontOf
<1> HIDE DEF m
<1>3. ASSUME NEW j \in 1 .. m - 1
      PROVE  (j = i => f[j] = r[m]) /\ (j # i => f[j] = r[j])
  <2>0. f[j] = s[j]
    BY <1>2
  <2>1. f[j] = s[j] /\ j \in 1 .. m
    BY <1>1, <2>0
  <2>2. CASE j = i
    BY <1>1, <2>1, <2>2
  <2>3. CASE j # i
    BY <1>1, <2>1, <2>3
  <2> QED
    BY <2>2, <2>3
<1> QED
  BY <1>1, <1>2, <1>3 DEF LastInPlace, m

\* A list stays right that is like another but for one place, which the last one takes.
LEMMA ListShrinks ==
    ASSUME NEW h, NEW r, NEW n, ListsRight(h, r, n), NEW i \in 1 .. Len(r),
           NEW f, f \in Seq(Rule), LastInPlace(r, i, f)
    PROVE  ListsRight(h, f, n) /\ SameBefore(r, i, f)
<1> DEFINE m == Len(r)
<1>1. /\ Distinct(r) /\ \A j \in 1 .. m : r[j].id < n
      /\ m \in Nat \ {0} /\ m = Len(r) /\ Len(f) = m - 1 /\ i \in 1 .. m
      /\ \A j \in 1 .. m - 1 : (j = i => f[j] = r[m]) /\ (j # i => f[j] = r[j])
  BY DEF ListsRight, LastInPlace
<1> HIDE DEF m
<1>2. ASSUME NEW j \in 1 .. m - 1
      PROVE  \E p \in 1 .. m : f[j] = r[p] /\ p = IF j = i THEN m ELSE j
  <2>1. CASE j = i
    BY <1>1, <2>1
  <2>2. CASE j # i
    BY <1>1, <2>2
  <2> QED
    BY <2>1, <2>2
<1>3. \A j \in 1 .. Len(f) : f[j].id < n
  BY <1>1, <1>2
<1>4. Distinct(f)
  <2> SUFFICES ASSUME NEW j \in 1 .. m - 1, NEW k \in 1 .. m - 1, f[j].id = f[k].id
               PROVE  j = k
    BY <1>1 DEF Distinct
  <2>1. PICK p \in 1 .. m : f[j] = r[p] /\ p = IF j = i THEN m ELSE j
    BY <1>2
  <2>2. PICK q \in 1 .. m : f[k] = r[q] /\ q = IF k = i THEN m ELSE k
    BY <1>2
  <2>3. p = q
    BY <1>1, <2>1, <2>2 DEF Distinct
  <2> QED
    BY <1>1, <2>1, <2>2, <2>3
<1>5. ASSUME NEW at \in Nat, at < i
      PROVE  at <= Len(f) /\ \A j \in 1 .. at : f[j] = r[j]
  <2>1. at <= m - 1 /\ \A j \in 1 .. at : j \in 1 .. m - 1 /\ j # i
    BY <1>1, <1>5
  <2> QED
    BY <1>1, <2>1
<1> QED
  BY <1>3, <1>4, <1>5 DEF ListsRight, SameBefore

\* A rule that is removed leaves its place to the last one.
LEMMA RuleLeaves ==
    ASSUME NEW h, NEW r, NEW n, ListsRight(h, r, n), NEW i \in 1 .. Len(r), NEW f,
           f = Front([r EXCEPT ![i] = Last(r)])
    PROVE  ListsRight(h, f, n) /\ Len(f) \in Nat /\ SameBefore(r, i, f)
<1>1. r \in Seq(Rule)
  BY DEF ListsRight
<1>2. f \in Seq(Rule) /\ LastInPlace(r, i, f)
  BY <1>1, TakenOut
<1> QED
  BY <1>2, ListShrinks

\* A new walk has called nothing.
LEMMA WalkBegins ==
    ASSUME ScriptInv, NEW over \in {"hooks", "rules"}, NEW match \in Event \cup AppId,
           Enter(over, match)
    PROVE  ScriptInv' /\ Len(walks') >= Len(walks)
<1> DEFINE w == [over |-> over, match |-> match, at |-> 0, called |-> <<>>,
                 due |-> Matching(over, match)]
           ws == walks'
           n == Len(walks)
<1>1. /\ walks \in Seq(Walk) /\ n \in Nat /\ n = Len(walks)
      /\ \A k \in 1 .. n : WalkedIn(walks[k], hooks, rules)
      /\ hooks \in Seq(Hook) /\ rules \in Seq(Rule)
  BY DEF ScriptInv, WalksRight, ListsRight
<1>2. ws = Append(walks, w) /\ hooks' = hooks /\ rules' = rules /\ next_rule' = next_rule
  BY DEF Enter
<1>3. w \in Walk
  <2>1. \A j \in 1 .. Len(hooks) : hooks[j].id \in Nat
    <3>1. \A j \in 1 .. Len(hooks) : hooks[j] \in Hook
      BY <1>1
    <3> QED
      BY <3>1 DEF Hook
  <2>2. \A j \in 1 .. Len(rules) : rules[j].id \in Nat
    <3>1. \A j \in 1 .. Len(rules) : rules[j] \in Rule
      BY <1>1
    <3> QED
      BY <3>1 DEF Rule
  <2>3. \A x \in Range(Registered(over)) : x.id \in Nat
    <3>1. DOMAIN hooks = 1 .. Len(hooks) /\ DOMAIN rules = 1 .. Len(rules)
      BY <1>1
    <3>2. /\ \A x \in Range(hooks) : x.id \in Nat
          /\ \A x \in Range(rules) : x.id \in Nat
      BY <2>1, <2>2, <3>1 DEF Range
    <3> QED
      BY <3>2 DEF Registered
  <2>4. Matching(over, match) \in SUBSET Nat
    BY <2>3 DEF Matching
  <2>5. <<>> \in Seq(Nat)
    OBVIOUS
  <2> QED
    BY <2>4, <2>5 DEF Walk
<1>4. WalkedIn(w, hooks, rules)
  <2>1. w.called = <<>> /\ w.at = 0 /\ w.match = match
    OBVIOUS
  <2> HIDE DEF w
  <2>2. \A R : Len(R) \in Nat => Done(w, R)
    <3> SUFFICES ASSUME NEW R, Len(R) \in Nat
                 PROVE  Done(w, R)
      OBVIOUS
    <3>1. DOMAIN w.called = {} /\ 1 .. w.at = {}
      BY <2>1
    <3>2. Range(w.called) = {} /\ IsInjective(w.called)
      BY <3>1 DEF Range, IsInjective
    <3>3. {R[j].id : j \in {x \in 1 .. w.at : R[x].match = w.match}} = {}
      BY <3>1
    <3> QED
      BY <2>1, <3>2, <3>3 DEF Done
  <2>3. InOrder(w)
    BY <2>1 DEF InOrder
  <2>4. Len(hooks) \in Nat /\ Len(rules) \in Nat
    BY <1>1
  <2> QED
    BY <1>3, <2>2, <2>3, <2>4 DEF WalkedIn
<1> HIDE DEF w, ws, n
<1>5. /\ ws \in Seq(Walk) /\ Len(ws) = n + 1 /\ ws[n + 1] = w
      /\ \A k \in 1 .. n : ws[k] = walks[k]
  BY <1>1, <1>2, <1>3
<1>6. \A k \in 1 .. Len(ws) : WalkedIn(ws[k], hooks, rules)
  <2> SUFFICES ASSUME NEW k \in 1 .. n + 1
               PROVE  WalkedIn(ws[k], hooks, rules)
    BY <1>5
  <2>1. CASE k = n + 1
    BY <1>4, <1>5, <2>1
  <2>2. CASE k # n + 1
    <3>1. k \in 1 .. n
      BY <1>1, <2>2
    <3> QED
      BY <1>1, <1>5, <3>1
  <2> QED
    BY <2>1, <2>2
<1>7. ScriptInv'
  BY <1>2, <1>5, <1>6 DEF ScriptInv, WalksRight, ws
<1> QED
  BY <1>1, <1>5, <1>7 DEF ws

\* The innermost walk calls its next match.
LEMMA WalkCalls ==
    ASSUME ScriptInv, CallNext
    PROVE  ScriptInv' /\ Len(walks') >= Len(walks)
<1> DEFINE n == Len(walks)
           w == walks[n]
           R == Registered(w.over)
           i == NextMatch(w)
           call == Append(w.called, R[i].id)
<1>1. /\ walks \in Seq(Walk) /\ n \in Nat \ {0} /\ n = Len(walks)
      /\ \A k \in 1 .. n : WalkedIn(walks[k], hooks, rules)
      /\ w = walks[n] /\ w \in Walk /\ i > 0
  BY DEF ScriptInv, WalksRight, CallNext, Last
<1>2. walks' = [walks EXCEPT ![n].at = i, ![n].called = call]
  BY DEF CallNext, Last
<1>3. /\ hooks \in Seq(Hook) /\ rules \in Seq(Rule) /\ Distinct(rules)
      /\ \A j \in 1 .. Len(hooks) : hooks[j].id = j
      /\ hooks' = hooks /\ rules' = rules /\ next_rule' = next_rule
  BY DEF ScriptInv, ListsRight, CallNext
<1>4. /\ w.over \in {"hooks", "rules"} /\ w.at \in Nat /\ w.called \in Seq(Nat)
      /\ w = [over |-> w.over, match |-> w.match, at |-> w.at, called |-> w.called, due |-> w.due]
  BY <1>1 DEF Walk
<1>5. /\ Len(R) \in Nat /\ Distinct(R) /\ Done(w, R)
      /\ \A j \in 1 .. Len(R) : R[j].id \in Nat
  <2>1. WalkedIn(w, hooks, rules)
    BY <1>1
  <2>2. CASE w.over = "hooks"
    <3>1. R = hooks /\ Done(w, hooks)
      BY <2>1, <2>2 DEF Registered, WalkedIn
    <3>2. Distinct(hooks)
      BY <1>3 DEF Distinct
    <3>3. Len(hooks) \in Nat /\ \A j \in 1 .. Len(hooks) : hooks[j].id \in Nat
      BY <1>3
    <3> QED
      BY <3>1, <3>2, <3>3
  <2>3. CASE w.over = "rules"
    <3>1. R = rules /\ Done(w, rules)
      BY <2>1, <2>3 DEF Registered, WalkedIn
    <3>2. \A j \in 1 .. Len(rules) : rules[j] \in Rule
      BY <1>3
    <3>3. Len(rules) \in Nat /\ \A j \in 1 .. Len(rules) : rules[j].id \in Nat
      BY <1>3, <3>2 DEF Rule
    <3> QED
      BY <1>3, <3>1, <3>3
  <2> QED
    BY <1>4, <2>2, <2>3
<1>6. R = Registered(w.over) /\ i = NextMatch(w)
  OBVIOUS
<1> HIDE DEF n, w, R, i
<1>7. /\ i \in w.at + 1 .. Len(R) /\ R[i].match = w.match
      /\ \A j \in w.at + 1 .. i - 1 : R[j].match # w.match
  BY <1>1, <1>4, <1>5, <1>6, NextMatchFirst
<1>8. R[i].id \in Nat /\ i \in Nat
  BY <1>4, <1>5, <1>7
<1>9. call \in Seq(Nat) /\ call = Append(w.called, R[i].id)
  BY <1>4, <1>8
<1> HIDE DEF call
<1> DEFINE v == [over |-> w.over, match |-> w.match, at |-> i, called |-> call, due |-> w.due]
<1>10. v \in Walk /\ v.over = w.over /\ v.match = w.match /\ v.at = i /\ v.called = call
  BY <1>1, <1>8, <1>9 DEF Walk
<1>11. walks' = [walks EXCEPT ![n] = v]
  <2> DEFINE e == [walks EXCEPT ![n].at = i]
             u == [over |-> w.over, match |-> w.match, at |-> i, called |-> w.called, due |-> w.due]
  <2>1. e = [walks EXCEPT ![n] = u]
    <3>1. [w EXCEPT !.at = i] = u
      BY <1>4
    <3>2. e = [walks EXCEPT ![n] = [w EXCEPT !.at = i]]
      BY <1>1
    <3> QED
      BY <3>1, <3>2
  <2>2. e[n] = u
    BY <1>1, <2>1
  <2>3. [e EXCEPT ![n].called = call] = [e EXCEPT ![n] = v]
    <3>1. [u EXCEPT !.called = call] = v
      OBVIOUS
    <3> HIDE DEF e, u, v
    <3>2. [e EXCEPT ![n].called = call] = [e EXCEPT ![n] = [e[n] EXCEPT !.called = call]]
      OBVIOUS
    <3> QED
      BY <2>2, <3>1, <3>2
  <2>4. walks' = [e EXCEPT ![n].called = call]
    BY <1>2
  <2> HIDE DEF e, u, v
  <2>5. [e EXCEPT ![n] = v] = [walks EXCEPT ![n] = v]
    BY <1>1, <2>1
  <2> QED
    BY <2>3, <2>4, <2>5
<1> HIDE DEF v
<1>12. Done(v, R) /\ Passed(w, R, i)
  <2>1. v.called = Append(w.called, R[i].id) /\ v.at = i /\ v.match = w.match
    BY <1>9, <1>10
  <2>2. Keyed(R) /\ NextIn(w, R, i) /\ Done(w, R)
    BY <1>5, <1>7 DEF Keyed, NextIn
  <2> QED
    BY <2>1, <2>2, CalledOne
<1>13. WalkedIn(v, hooks, rules)
  <2>1. WalkedIn(w, hooks, rules)
    BY <1>1
  <2>2. CASE w.over = "hooks"
    <3>1. R = hooks /\ InOrder(w)
      BY <1>6, <2>1, <2>2 DEF Registered, WalkedIn
    <3>2. R[i].id = i /\ \A j \in 1 .. i - 1 : R[j].id = j
      BY <1>3, <1>4, <1>5, <1>7, <3>1
    <3>3. \A k \in 1 .. Len(w.called) : w.called[k] < i /\ w.called[k] \in Nat
      BY <1>8, <1>12, <3>2 DEF Passed
    <3>4. InOrder(v)
      <4>1. /\ Len(call) = Len(w.called) + 1 /\ call[Len(call)] = i /\ Len(w.called) \in Nat
            /\ \A k \in 1 .. Len(w.called) : call[k] = w.called[k]
        BY <1>4, <1>8, <1>9, <3>2
      <4> QED
        BY <1>10, <3>1, <3>3, <4>1 DEF InOrder
    <3> QED
      BY <1>10, <1>12, <2>2, <3>1, <3>4 DEF WalkedIn
  <2>3. CASE w.over = "rules"
    BY <1>6, <1>10, <1>12, <2>3 DEF Registered, WalkedIn
  <2> QED
    BY <1>4, <2>2, <2>3
<1>14. /\ walks' \in Seq(Walk) /\ Len(walks') = n
       /\ \A k \in 1 .. n : WalkedIn(walks'[k], hooks, rules)
  BY <1>1, <1>10, <1>11, <1>13
<1> QED
  BY <1>1, <1>3, <1>14 DEF ScriptInv, WalksRight

\* The innermost walk ends when nothing is left, so it called every match.
LEMMA WalkEnds ==
    ASSUME ScriptInv, EndWalk
    PROVE  /\ ScriptInv'
           /\ \A w \in Ended : /\ w.over \in {"hooks", "rules"}
                               /\ Matching(w.over, w.match) = Range(w.called)
                               /\ IsInjective(w.called)
                               /\ w.over = "hooks" => InOrder(w)
<1> DEFINE n == Len(walks)
           w == walks[n]
           R == Registered(w.over)
           i == NextMatch(w)
<1>1. /\ walks \in Seq(Walk) /\ walks # <<>> /\ n \in Nat \ {0} /\ n = Len(walks)
      /\ \A k \in 1 .. n : WalkedIn(walks[k], hooks, rules)
      /\ w = walks[n] /\ w \in Walk /\ i = 0 /\ walks' = Front(walks)
      /\ hooks' = hooks /\ rules' = rules /\ next_rule' = next_rule
  BY DEF ScriptInv, WalksRight, EndWalk, Last
<1>2. /\ walks' \in Seq(Walk) /\ Len(walks') = n - 1
      /\ \A k \in 1 .. n - 1 : walks'[k] = walks[k]
  BY <1>1, FrontOf
<1>3. ScriptInv'
  <2>1. \A k \in 1 .. Len(walks') : WalkedIn(walks'[k], hooks, rules)
    BY <1>1, <1>2
  <2> QED
    BY <1>1, <1>2, <2>1 DEF ScriptInv, WalksRight
<1>4. Ended = {w}
  BY <1>1, <1>2 DEF Ended, Last
<1>5. hooks \in Seq(Hook) /\ rules \in Seq(Rule)
  BY DEF ScriptInv, ListsRight
<1>6. w.over \in {"hooks", "rules"} /\ w.at \in Nat
  BY <1>1 DEF Walk
<1>7. Done(w, R) /\ Len(R) \in Nat /\ R \in Seq(Hook) \cup Seq(Rule) /\ (w.over = "hooks" => InOrder(w))
  <2>1. WalkedIn(w, hooks, rules)
    BY <1>1
  <2> QED
    BY <1>5, <1>6, <2>1 DEF WalkedIn, Registered
<1>8. R = Registered(w.over) /\ i = NextMatch(w)
  OBVIOUS
<1> HIDE DEF n, w, R, i
<1>9. \A j \in w.at + 1 .. Len(R) : R[j].match # w.match
  BY <1>1, <1>6, <1>7, <1>8, NextMatchFirst
<1>10. Matching(w.over, w.match) = Range(w.called)
  <2> DEFINE A == {x \in 1 .. w.at : R[x].match = w.match}
             B == {x \in 1 .. Len(R) : R[x].match = w.match}
  <2>1. A = B
    BY <1>6, <1>7, <1>9 DEF Done
  <2>2. DOMAIN R = 1 .. Len(R)
    BY <1>7
  <2>3. Matching(w.over, w.match) = {R[j].id : j \in B}
    <3>1. {x \in Range(R) : x.match = w.match} = {R[j] : j \in B}
      BY <2>2 DEF Range
    <3> QED
      BY <1>8, <3>1 DEF Matching
  <2>4. Range(w.called) = {R[j].id : j \in A}
    BY <1>7 DEF Done
  <2> HIDE DEF A, B
  <2> QED
    BY <2>1, <2>3, <2>4
<1> QED
  BY <1>3, <1>4, <1>6, <1>7, <1>10 DEF Done

\* What a function registers or removes leaves the walks as they are, if it removes
\* no rule that a walk has passed.
LEMMA ListsChange ==
    ASSUME ScriptsAssumption, RemovesPassed = FALSE, ScriptInv,
           \/ \E event \in Event : On(event)
           \/ \E app \in AppId : AddRule(app)
           \/ \E r \in Range(rules) : RemoveRule(r.id)
           \/ ReloadScripts
    PROVE  ScriptInv' /\ Len(walks') >= Len(walks)
<1> DEFINE h == hooks
           r == rules
           m == next_rule
           ws == walks
<1>1. /\ ListsRight(h, r, m) /\ WalksRight(ws, h, r) /\ h \in Seq(Hook) /\ r \in Seq(Rule)
      /\ Len(h) \in Nat /\ Len(r) \in Nat /\ ws \in Seq(Walk) /\ Len(ws) \in Nat
      /\ \A k \in 1 .. Len(ws) : WalkedIn(ws[k], h, r)
  <2>1. ListsRight(h, r, m) /\ WalksRight(ws, h, r)
    BY DEF ScriptInv
  <2> HIDE DEF h, r, m, ws
  <2>2. h \in Seq(Hook) /\ r \in Seq(Rule)
    BY <2>1 DEF ListsRight
  <2>3. ws \in Seq(Walk) /\ \A k \in 1 .. Len(ws) : WalkedIn(ws[k], h, r)
    BY <2>1 DEF WalksRight
  <2> QED
    BY <2>1, <2>2, <2>3
<1>2. \A k \in 1 .. Len(ws) : ws[k].over = "rules" => ws[k].at \in Nat /\ ws[k].at <= Len(r)
  BY <1>1 DEF WalkedIn, Done
<1>3. ASSUME NEW event \in Event, On(event)
      PROVE  ScriptInv' /\ walks' = walks
  <2> DEFINE E == <<event>>
             new == [i \in 1 .. Len(E) |-> [match |-> E[i], id |-> Len(h) + i]]
  <2>1. E \in Seq(Event)
    OBVIOUS
  <2>2. hooks' = h \o new /\ rules' = r /\ next_rule' = m /\ walks' = ws
    BY <1>3 DEF On, NewHooks
  <2>3. new = [i \in 1 .. Len(E) |-> [match |-> E[i], id |-> Len(h) + i]]
    OBVIOUS
  <2> HIDE DEF E, new, h, r, m, ws
  <2>4. /\ ListsRight(h \o new, r, m) /\ Len(h \o new) \in Nat /\ Len(h) <= Len(h \o new)
        /\ \A j \in 1 .. Len(h) : (h \o new)[j] = h[j]
    BY <1>1, <2>1, <2>3, HooksGrow
  <2>5. WalksRight(ws, h \o new, r)
    BY <1>1, <1>2, <2>4, WalksFollow
  <2> QED
    BY <2>2, <2>4, <2>5 DEF ScriptInv, ws
<1>4. ASSUME NEW app \in AppId, AddRule(app)
      PROVE  ScriptInv' /\ walks' = walks
  <2> DEFINE A == <<app>>
             new == [i \in 1 .. Len(A) |-> [match |-> A[i], id |-> m + i - 1]]
  <2>1. A \in Seq(AppId) /\ Len(A) = 1
    OBVIOUS
  <2>2. hooks' = h /\ rules' = r \o new /\ next_rule' = m + 1 /\ walks' = ws
    BY <1>4 DEF AddRule, NewRules, Fresh
  <2>3. new = [i \in 1 .. Len(A) |-> [match |-> A[i], id |-> m + i - 1]]
    OBVIOUS
  <2> DEFINE rr == r \o new
  <2>4. rules' = rr
    BY <2>2
  <2> HIDE DEF A, new, h, r, m, ws
  <2>5. /\ ListsRight(h, rr, m + Len(A)) /\ Len(rr) \in Nat /\ Len(r) <= Len(rr)
        /\ \A j \in 1 .. Len(r) : rr[j] = r[j]
    <3>1. ListsRight(h, r, m) /\ A \in Seq(AppId)
      BY <1>1, <2>1
    <3>2. ListsRight(h, rr, m + Len(A))
      BY <2>3, <3>1, RulesGrow
    <3>3. Len(rr) \in Nat /\ Len(r) <= Len(rr)
      BY <2>3, <3>1, RulesGrow
    <3>4. \A j \in 1 .. Len(r) : rr[j] = r[j]
      BY <2>3, <3>1, RulesGrow
    <3> QED
      BY <3>2, <3>3, <3>4
  <2> HIDE DEF rr
  <2>9. Len(rr) \in Nat
    BY <2>5
  <2>6. ListsRight(h, rr, m + 1)
    BY <2>1, <2>5
  <2>7. ASSUME NEW k \in 1 .. Len(ws), ws[k].over = "rules"
        PROVE  ws[k].at <= Len(rr) /\ \A j \in 1 .. ws[k].at : rr[j] = r[j]
    BY <1>1, <1>2, <2>5, <2>7
  <2>8. WalksRight(ws, h, rr)
    BY <1>1, <2>7, <2>9, WalksFollow
  <2> QED
    BY <2>2, <2>4, <2>6, <2>8 DEF ScriptInv, ws
<1>5. ASSUME NEW x \in Range(rules), RemoveRule(x.id)
      PROVE  ScriptInv' /\ walks' = walks
  <2> DEFINE I == {j \in 1 .. Len(r) : r[j].id = x.id}
             i == IF I # {} THEN Min(I) ELSE 0
             f == Front([r EXCEPT ![i] = Last(r)])
  <2>1. /\ i > 0 /\ \A w \in Range(ws) : w.over = "rules" => i > w.at
        /\ rules' = f /\ hooks' = h /\ next_rule' = m /\ walks' = ws
    BY <1>5 DEF RemoveRule, SelectInSeq
  <2>2. i \in 1 .. Len(r)
    <3>1. I # {} /\ I \in SUBSET Nat
      BY <2>1
    <3>2. i \in I
      BY <3>1, LeastNatural
    <3> QED
      BY <3>2
  <2>3. f = Front([r EXCEPT ![i] = Last(r)])
    OBVIOUS
  <2> HIDE DEF I, i, f, h, r, m, ws
  <2>4. ListsRight(h, f, m) /\ Len(f) \in Nat /\ SameBefore(r, i, f)
    BY <1>1, <2>2, <2>3, RuleLeaves
  <2>5. ASSUME NEW k \in 1 .. Len(ws), ws[k].over = "rules"
        PROVE  ws[k].at <= Len(f) /\ \A j \in 1 .. ws[k].at : f[j] = r[j]
    <3>1. ws[k] \in Range(ws)
      BY <1>1 DEF Range
    <3>2. ws[k].at \in Nat /\ ws[k].at < i
      BY <1>2, <2>1, <2>2, <2>5, <3>1
    <3> QED
      BY <2>4, <3>2 DEF SameBefore
  <2>6. WalksRight(ws, h, f)
    BY <1>1, <2>4, <2>5, WalksFollow
  <2> QED
    BY <2>1, <2>4, <2>6 DEF ScriptInv, ws
<1>6. ASSUME ReloadScripts
      PROVE  ScriptInv' /\ walks' = walks
  <2> DEFINE E == ConfigHooks
             A == ConfigRules
             hs == [i \in 1 .. Len(E) |-> [match |-> E[i], id |-> Len(h) + i]]
             rs == [i \in 1 .. Len(A) |-> [match |-> A[i], id |-> m + i - 1]]
  <2>1. E \in Seq(Event) /\ A \in Seq(AppId)
    BY DEF ScriptsAssumption
  <2>2. /\ hooks' = h \o hs /\ rules' = r \o rs /\ next_rule' = m + Len(A) /\ walks' = ws
        /\ ws = <<>>
    BY <1>6 DEF ReloadScripts, NewHooks, NewRules, Fresh
  <2>3. /\ hs = [i \in 1 .. Len(E) |-> [match |-> E[i], id |-> Len(h) + i]]
        /\ rs = [i \in 1 .. Len(A) |-> [match |-> A[i], id |-> m + i - 1]]
    OBVIOUS
  <2> HIDE DEF E, A, hs, rs, h, r, m, ws
  <2>4. ListsRight(h \o hs, r, m)
    BY <1>1, <2>1, <2>3, HooksGrow
  <2>5. ListsRight(h \o hs, r \o rs, m + Len(A))
    BY <2>1, <2>3, <2>4, RulesGrow
  <2>6. WalksRight(ws, h \o hs, r \o rs)
    BY <1>1, <2>2 DEF WalksRight
  <2> QED
    BY <2>2, <2>5, <2>6 DEF ScriptInv, ws
<1> QED
  BY <1>1, <1>3, <1>4, <1>5, <1>6

\* What the configuration registers at first is right.
LEMMA ScriptsStart ==
    ASSUME ScriptsAssumption, ScriptInit
    PROVE  ScriptInv
<1> DEFINE none == <<>>
           hs == [i \in 1 .. Len(ConfigHooks) |-> [match |-> ConfigHooks[i], id |-> Len(none) + i]]
           rs == [i \in 1 .. Len(ConfigRules) |-> [match |-> ConfigRules[i], id |-> 1 + i - 1]]
<1>1. ListsRight(none, none, 1) /\ Len(none) = 0
  BY DEF ListsRight, Distinct
<1>2. /\ ConfigHooks \in Seq(Event) /\ ConfigRules \in Seq(AppId)
      /\ Len(ConfigHooks) \in Nat /\ Len(ConfigRules) \in Nat
  BY DEF ScriptsAssumption
<1>3. hooks = hs
  <2>1. \A i \in 1 .. Len(ConfigHooks) : Len(none) + i = i
    BY <1>1, <1>2
  <2> QED
    BY <2>1 DEF ScriptInit
<1>4. rules = rs
  <2>1. \A i \in 1 .. Len(ConfigRules) : 1 + i - 1 = i
    BY <1>2
  <2> QED
    BY <2>1 DEF ScriptInit
<1>5. /\ hs = [i \in 1 .. Len(ConfigHooks) |-> [match |-> ConfigHooks[i], id |-> Len(none) + i]]
      /\ rs = [i \in 1 .. Len(ConfigRules) |-> [match |-> ConfigRules[i], id |-> 1 + i - 1]]
  OBVIOUS
<1> HIDE DEF hs, rs, none
<1>6. ListsRight(none \o hs, none, 1)
  BY <1>1, <1>2, <1>5, HooksGrow
<1>7. ListsRight(none \o hs, none \o rs, 1 + Len(ConfigRules))
  BY <1>2, <1>5, <1>6, RulesGrow
<1>8. none \o hs = hs /\ none \o rs = rs
  <2>1. hs \in Seq(Hook) /\ rs \in Seq(Rule)
    <3>1. \A i \in 1 .. Len(ConfigHooks) : hooks[i] \in Hook
      BY <1>2 DEF ScriptInit, Hook
    <3>2. \A i \in 1 .. Len(ConfigRules) : rules[i] \in Rule
      BY <1>2 DEF ScriptInit, Rule
    <3>3. hooks \in Seq(Hook)
      BY <1>2, <3>1 DEF ScriptInit
    <3>4. rules \in Seq(Rule)
      BY <1>2, <3>2 DEF ScriptInit
    <3> QED
      BY <1>3, <1>4, <3>3, <3>4
  <2> QED
    BY <2>1 DEF none
<1>9. WalksRight(walks, hooks, rules)
  BY DEF ScriptInit, WalksRight
<1>10. next_rule = 1 + Len(ConfigRules)
  BY <1>2 DEF ScriptInit
<1> QED
  BY <1>3, <1>4, <1>7, <1>8, <1>9, <1>10 DEF ScriptInv

\* Every step keeps the invariant, and only the end of a walk takes one away.
LEMMA ScriptsStep ==
    ASSUME ScriptsAssumption, RemovesPassed = FALSE, ScriptInv, [ScriptNext]_scriptVars
    PROVE  /\ ScriptInv'
           /\ \A w \in Ended : /\ w.over \in {"hooks", "rules"}
                               /\ Matching(w.over, w.match) = Range(w.called)
                               /\ IsInjective(w.called)
                               /\ w.over = "hooks" => InOrder(w)
<1>1. Len(walks) \in Nat
  BY DEF ScriptInv, WalksRight
<1>2. Len(walks') >= Len(walks) => (Len(walks') \in Nat => Ended = {})
  BY <1>1 DEF Ended
<1>3. ScriptInv' => Len(walks') \in Nat
  BY DEF ScriptInv, WalksRight
<1>4. ASSUME NEW event \in Event, FireHook(event)
      PROVE  ScriptInv' /\ Len(walks') >= Len(walks)
  BY <1>4, WalkBegins DEF FireHook
<1>5. ASSUME NEW app \in AppId, ApplyRuntimeRules(app)
      PROVE  ScriptInv' /\ Len(walks') >= Len(walks)
  BY <1>5, WalkBegins DEF ApplyRuntimeRules
<1>6. CASE CallNext
  BY <1>2, <1>3, <1>6, WalkCalls
<1>7. CASE EndWalk
  BY <1>7, WalkEnds
<1>8. CASE \/ \E event \in Event : On(event)
           \/ \E app \in AppId : AddRule(app)
           \/ \E r \in Range(rules) : RemoveRule(r.id)
           \/ ReloadScripts
  BY <1>2, <1>3, <1>8, ListsChange
<1>9. CASE UNCHANGED scriptVars
  <2>1. hooks' = hooks /\ rules' = rules /\ next_rule' = next_rule /\ walks' = walks
    BY <1>9 DEF scriptVars
  <2> QED
    BY <1>1, <1>2, <2>1 DEF ScriptInv
<1> QED
  BY <1>2, <1>3, <1>4, <1>5, <1>6, <1>7, <1>8, <1>9 DEF ScriptNext

\* A walk under way has called exactly the matches up to its place, and the ids of hooks
\* are their places, however walks nest (fire_hook_*, apply_runtime_rules)
THEOREM ScriptsInvariant == ASSUME RemovesPassed = FALSE PROVE ScriptSpec => []ScriptInv
<1>1. ScriptInit => ScriptInv
  BY ScriptsAssumption, ScriptsStart
<1>2. ScriptInv /\ [ScriptNext]_scriptVars => ScriptInv'
  BY ScriptsAssumption, ScriptsStep
<1> QED
  BY <1>1, <1>2, PTL DEF ScriptSpec

\* However the functions of hooks and rules register, remove and cause other events, a
\* walk calls every match once, hooks in the order of their registration, as long as no
\* function removes a rule that a walk has passed (fire_hook_*, apply_runtime_rules)
THEOREM WalksAreComplete == ASSUME RemovesPassed = FALSE PROVE ScriptSpec => WalksComplete
<1>1. ScriptInv /\ [ScriptNext]_scriptVars =>
          [ \A w \in Ended :
              /\ AllCalled(w)
              /\ IsInjective(w.called)
              /\ w.over = "hooks" =>
                   /\ \A i, j \in 1 .. Len(w.called) : i < j => w.called[i] < w.called[j]
                   /\ Matching("hooks", w.match) = Range(w.called) ]_scriptVars
  <2> SUFFICES ASSUME ScriptInv, [ScriptNext]_scriptVars, NEW w \in Ended
               PROVE  /\ AllCalled(w)
                      /\ IsInjective(w.called)
                      /\ w.over = "hooks" =>
                           /\ \A i, j \in 1 .. Len(w.called) :
                                 i < j => w.called[i] < w.called[j]
                           /\ Matching("hooks", w.match) = Range(w.called)
    OBVIOUS
  <2>1. /\ Matching(w.over, w.match) = Range(w.called)
        /\ IsInjective(w.called)
        /\ w.over = "hooks" => InOrder(w)
    BY ScriptsAssumption, ScriptsStep
  <2> QED
    BY <2>1 DEF AllCalled, InOrder
<1> QED
  BY <1>1, ScriptsInvariant, PTL DEF ScriptSpec, WalksComplete
=============================================================================
