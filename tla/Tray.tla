-------------------------------- MODULE Tray --------------------------------
(***************************************************************************)
(* The system tray (src/tray.cpp): a StatusNotifierWatcher and its host on  *)
(* the session bus.  Applications register items; the tray asks each for    *)
(* all its properties, again whenever it says that they changed, and        *)
(* forgets it when its name goes.  The answers are asynchronous, and a      *)
(* pending call holds a pointer to the item, which may be freed meanwhile.  *)
(*                                                                         *)
(* The bus delivers what is sent to the tray in one order.  The properties  *)
(* of an application are reduced to one, its look: an icon, or passive.     *)
(*                                                                         *)
(* Every monitor has a bar with the tray, or one bar is for all.  The bars  *)
(* share the items and the place an item was last drawn at, in any of them; *)
(* the rectangle of the module, shared as well, is written by the same      *)
(* drawing and holds these places.  Where the tray starts in a bar depends  *)
(* on its width and on the other modules.                                   *)
(***************************************************************************)
EXTENDS Naturals, Sequences, FiniteSets, SequencesExt

CONSTANTS
    App,         \* applications with one tray item each
    WellKnown,   \* those that register a well-known name, and not their unique one
    Address,     \* where an item may be allocated
    MaxInbox,    \* messages the bus holds for the tray
    MaxCalls,    \* GetAll calls an application has not answered
    LateReleases,  \* whether a name is given up by an application that stays on
                 \* the bus while messages of it are unread or calls to it open, or
                 \* taken by another while the tray has to read about its last owner
    TrayBar,     \* the bars
    TrayStart,   \* where the tray may start in each of them
    Nobody

ASSUME TrayConstants ==
    /\ WellKnown \subseteq App /\ {MaxInbox, MaxCalls} \subseteq Nat
    /\ LateReleases \in BOOLEAN /\ Nobody \notin App \cup Address
    /\ TrayBar # {} /\ TrayStart \in [TrayBar -> (SUBSET Nat) \ {{}}]

VARIABLES
    apps,      \* [App -> [name, kept, look, calls, late]]: whether it holds the name
               \* it registers, whether it gave up no name since it did, its status
               \* and icon, the calls it has to answer (the item each is for, Nobody
               \* once it timed out), whether any did
    inbox,     \* messages to the tray, oldest first
    items,     \* tray->items: [service, at, look, x], x being rendered_x
    icons,     \* what each bar shows, as it was last drawn: a sequence of services
    starts,    \* where the tray starts in it
    last_drawn, \* the bar that was drawn last
    tray_dirty \* the bars that were told that the items changed, and not drawn since

shownVars == <<icons, starts, last_drawn>>
trayVars == <<apps, inbox, items, icons, starts, last_drawn, tray_dirty>>

Look == {"passive", "icon"}
Unknown == [of |-> Nobody, look |-> "none"]     \* nothing was fetched yet
Looks == {Unknown} \cup [of : App, look : Look]

Message ==
    [kind : {"register", "changed", "vanished"}, from : App] \cup
    [kind : {"reply"}, from : App, at : Address, look : Look]

Services == { items[i].service : i \in DOMAIN items }
Sent(messages) == inbox \o messages
Room(n) == Len(inbox) + n <= MaxInbox

TrayTypeOK ==
    /\ apps \in [App -> [name : BOOLEAN, kept : BOOLEAN, look : Look,
                         calls : Seq(Address \cup {Nobody}), late : BOOLEAN]]
    /\ inbox \in Seq(Message) /\ Len(inbox) <= MaxInbox
    /\ items \in Seq([service : App, at : Address, look : Looks, x : Nat])
    /\ IsInjective([i \in DOMAIN items |-> items[i].at])
    /\ icons \in [TrayBar -> Seq(App)] /\ tray_dirty \subseteq TrayBar
    /\ starts \in [TrayBar -> Nat] /\ last_drawn \in TrayBar

TrayInit ==
    /\ apps = [a \in App |-> [name |-> FALSE, kept |-> TRUE, look |-> "icon", calls |-> <<>>,
                              late |-> FALSE]]
    /\ inbox = <<>> /\ items = <<>> /\ tray_dirty = {}
    /\ icons = [b \in TrayBar |-> <<>>] /\ last_drawn \in TrayBar
    /\ starts \in [TrayBar -> UNION { TrayStart[b] : b \in TrayBar }]
    /\ \A b \in TrayBar : starts[b] \in TrayStart[b]

----------------------------------------------------------------------------
(* The applications *)

\* no message of a is on its way
Quiet(a) == \A i \in DOMAIN inbox : inbox[i].from # a

\* it takes its name and registers, or registers again.  A unique name is never
\* given twice: an application that starts again stands for one that is new
Register(a) ==
    /\ Room(1)
    /\ apps[a].name \/ (LateReleases /\ a \in WellKnown) \/ Quiet(a)
    /\ apps' = [apps EXCEPT ![a].name = TRUE, ![a].kept = TRUE]
    /\ inbox' = Sent(<<[kind |-> "register", from |-> a]>>)
    /\ UNCHANGED <<items, shownVars, tray_dirty>>

\* only one that is registered has anything to tell
ChangeLook(a) ==
    /\ apps[a].name /\ Room(1)
    /\ \E look \in Look \ {apps[a].look} : apps' = [apps EXCEPT ![a].look = look]
    /\ inbox' = Sent(<<[kind |-> "changed", from |-> a]>>)
    /\ UNCHANGED <<items, shownVars, tray_dirty>>

\* an answer to a call that timed out is dropped by the connection
Answer(a) ==
    /\ apps[a].calls # <<>> /\ Room(1)
    /\ apps' = [apps EXCEPT ![a].calls = Tail(@)]
    /\ inbox' = IF Head(apps[a].calls) = Nobody THEN inbox
                ELSE Sent(<<[kind |-> "reply", from |-> a, at |-> Head(apps[a].calls),
                             look |-> apps[a].look]>>)
    /\ UNCHANGED <<items, shownVars, tray_dirty>>

\* it leaves the bus, which answers its calls with errors: on_props_reply ignores
\* those.  NameOwnerChanged comes for its unique name and for its well-known one
Quit(a) ==
    /\ apps[a].name /\ Room(1)
    /\ apps' = [apps EXCEPT ![a].name = FALSE, ![a].calls = <<>>, ![a].late = FALSE]
    /\ inbox' = Sent(<<[kind |-> "vanished", from |-> a]>>)
    /\ UNCHANGED <<items, shownVars, tray_dirty>>

\* a well-known name is given up by an application that lives on: the one it
\* registers, or, if it registers its unique name, any other (a media player's).
\* NameOwnerChanged has the unique name as the old owner.  If it registers a
\* well-known name, the end of another is not heard by anyone
Release(a) ==
    /\ apps[a].name /\ Room(1)
    /\ LateReleases \/ (Quiet(a) /\ apps[a].calls = <<>>)
    /\ apps' = IF a \in WellKnown THEN [apps EXCEPT ![a].name = FALSE]
               ELSE [apps EXCEPT ![a].kept = FALSE]
    /\ inbox' = Sent(<<[kind |-> "vanished", from |-> a]>>)
    /\ UNCHANGED <<items, shownVars, tray_dirty>>

\* five seconds without an answer to the oldest call
TimeOut(a) ==
    /\ \E i \in DOMAIN apps[a].calls :
        /\ apps[a].calls[i] # Nobody
        /\ \A j \in 1..(i - 1) : apps[a].calls[j] = Nobody
        /\ apps' = [apps EXCEPT ![a].calls[i] = Nobody, ![a].late = TRUE]
    /\ UNCHANGED <<inbox, items, shownVars, tray_dirty>>

----------------------------------------------------------------------------
(* The tray: watch_dispatch_cb dispatches the oldest message *)

Received(kind) == inbox # <<>> /\ Head(inbox).kind = kind /\ inbox' = Tail(inbox)

\* request_item_properties; a fresh answer makes up for one that was late
Request(a, at) ==
    /\ Len(apps[a].calls) < MaxCalls
    /\ apps' = [apps EXCEPT ![a].calls = Append(@, at), ![a].late = FALSE]

\* mutant: an item whose properties are still to come is not seen
FoundFetched(a) == { i \in DOMAIN items : items[i].service = a /\ items[i].look # Unknown }

\* find_item
Found(a) == { i \in DOMAIN items : items[i].service = a }

\* register_item: a second item of a service is ignored
RegisterItem ==
    /\ Received("register")
    /\ LET a == Head(inbox).from
       IN  IF Found(a) # {} THEN UNCHANGED <<apps, items, tray_dirty>>
           ELSE \E at \in Address \ { items[i].at : i \in DOMAIN items } :
                    /\ items' = Append(items, [service |-> a, at |-> at, look |-> Unknown, x |-> 0])
                    /\ tray_dirty' = TrayBar
                    \* the bus answers with an error for a name nobody holds
                    /\ IF apps[a].name THEN Request(a, at) ELSE UNCHANGED apps
    /\ UNCHANGED shownVars

\* mutant: what is not shown is not asked again
RefreshedShown(a) ==
    { i \in DOMAIN items : a \notin WellKnown /\ items[i].service = a /\ items[i].look.look # "passive" }

\* PropertiesChanged comes from a unique name: an item that is registered under
\* another is not found
Refreshed(a) == IF a \in WellKnown THEN {} ELSE Found(a)

PropertiesChanged ==
    /\ Received("changed")
    /\ LET a == Head(inbox).from
       IN  IF Refreshed(a) = {} \/ ~apps[a].name THEN UNCHANGED apps
           ELSE \E i \in Refreshed(a) : Request(a, items[i].at)
    /\ UNCHANGED <<items, shownVars, tray_dirty>>

\* unregister_item, of the name that vanished and of its old owner: a message from
\* an application stands for either, whichever its item is under.  The first item
\* of the service goes
NameVanished ==
    /\ Received("vanished")
    /\ LET gone == Found(Head(inbox).from)
       IN  IF gone = {} THEN UNCHANGED <<items, tray_dirty>>
           ELSE /\ \E i \in gone : (\A j \in gone : i <= j) /\ items' = RemoveAt(items, i)
                /\ tray_dirty' = TrayBar
    /\ UNCHANGED <<apps, shownVars>>

\* mutant: the call was made for the newest item
AskedLast(at) == DOMAIN items \ 1 .. Len(items) - 1

\* on_props_reply: the item is looked up by its address
Asked(at) == { i \in DOMAIN items : items[i].at = at }

PropsReply ==
    /\ Received("reply")
    /\ items' = [i \in DOMAIN items |->
                    IF i \in Asked(Head(inbox).at)
                    THEN [items[i] EXCEPT !.look = [of |-> Head(inbox).from, look |-> Head(inbox).look]]
                    ELSE items[i]]
    /\ tray_dirty' = IF Asked(Head(inbox).at) = {} THEN tray_dirty ELSE TrayBar
    /\ UNCHANGED <<apps, shownVars>>

----------------------------------------------------------------------------
(* The bars *)

\* passive items are left out, those without a status are not
Visible == { i \in DOMAIN items : items[i].look.look # "passive" }

\* the services of the others, in the order of the list
TrayIcons ==
    LET nth(n) == CHOOSE i \in Visible : Cardinality({ j \in Visible : j <= i }) = n
    IN  [n \in 1..Cardinality(Visible) |-> items[nth(n)].service]

\* mutant: hidden items take room
RenderedAmongAll(i) == i

\* the place of the icon of the i-th item in the tray
RenderedX(i) == Cardinality({ j \in 1..i : items[j].look.look # "passive" })

\* tray_draw in bar b, by the frame that follows a change (bar_notify_tray_changed)
\* or because another of its modules changed
DrawTray(b) ==
    /\ icons' = [icons EXCEPT ![b] = TrayIcons]
    /\ \E start \in TrayStart[b] :
        /\ starts' = [starts EXCEPT ![b] = start]
        /\ items' = [i \in DOMAIN items |->
                        IF i \in Visible THEN [items[i] EXCEPT !.x = start + RenderedX(i)]
                        ELSE items[i]]
    /\ last_drawn' = b
    /\ tray_dirty' = tray_dirty \ {b}
    /\ UNCHANGED <<apps, inbox>>

\* tray_handle_click at x, in whichever bar: whom it calls
Clicked(x) ==
    LET hit == { i \in Visible : items[i].x = x }
    IN  IF hit = {} THEN Nobody ELSE items[CHOOSE i \in hit : \A j \in hit : i <= j].service

TrayNext ==
    \/ \E a \in App : Register(a) \/ ChangeLook(a) \/ Answer(a) \/ Quit(a) \/ Release(a) \/ TimeOut(a)
    \/ RegisterItem \/ PropertiesChanged \/ NameVanished \/ PropsReply
    \/ \E b \in TrayBar : DrawTray(b)

----------------------------------------------------------------------------
(* Properties *)

\* Messages from a, of a kind
Coming(a, kind) == { i \in DOMAIN inbox : inbox[i].from = a /\ inbox[i].kind = kind }

\* An application is registered at most once, and once its messages are read it is
\* there, if it holds its name and gave up no other; else it is gone.  That one
\* which lives on loses its item with another name is what message_filter does
ItemsMatch ==
    \A a \in App :
        /\ Cardinality({ i \in DOMAIN items : items[i].service = a }) <= 1
        /\ Coming(a, "register") = {} /\ Coming(a, "vanished") = {} =>
               (a \in Services <=> apps[a].name /\ apps[a].kept)

\* A reply reaches only the item it was asked for, however items come and go
\* while it is on its way (the walk in on_props_reply)
OwnLook == \A i \in DOMAIN items : items[i].look.of \in {Nobody, items[i].service}

\* An item that shows an old look will be told the new one, unless a call timed
\* out: a call, an answer or a change is on its way (PropertiesChanged).  An item
\* under a well-known name is only told the first
Current ==
    \A i \in DOMAIN items :
        LET a == items[i].service
        IN  apps[a].name /\ ~apps[a].late /\ Coming(a, "vanished") = {}
              /\ (a \in WellKnown => items[i].look = Unknown)
              /\ items[i].look # [of |-> a, look |-> apps[a].look]
            => \/ items[i].at \in Range(apps[a].calls)
               \/ \E j \in Coming(a, "reply") : inbox[j].at = items[i].at
               \/ Coming(a, "changed") # {}

\* A bar for which no frame is due shows every item that is not passive, and a
\* click on an icon calls the application whose icon it is, if the tray starts
\* there where it did in the last drawing (generation, bar_notify_tray_changed,
\* tray_handle_click with the rendered_x of the last drawing)
IconClicks ==
    \A b \in TrayBar \ tray_dirty :
        /\ icons[b] = TrayIcons
        /\ starts[b] = starts[last_drawn] =>
               \A n \in DOMAIN icons[b] : Clicked(starts[b] + n) = icons[b][n]

\* "Handle a click at bar-local position bx" (include/tray.hpp:20): in every bar, one
\* that another was drawn after included
ClicksInEveryBar ==
    \A b \in TrayBar \ tray_dirty :
        \A n \in DOMAIN icons[b] : Clicked(starts[b] + n) = icons[b][n]
============================================================================
