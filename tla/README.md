# A TLA+ model of nnwm

nnwm is a tiling Wayland compositor in C++ on wlroots, configured in Lua. It is
one process with one `wl_event_loop` thread: everything it does is a callback
(a Wayland request, an input event, a timer, a wlroots signal) that runs to its
end before the next one starts. There are no data races; what is hard is that
some forty callbacks share one web of raw pointers (`struct nnwm_server` with
its lists of windows and outputs) and may come in any order that clients, the
user and the hardware choose.

## Inventory

| part | source | state it keeps | operations | models |
|---|---|---|---|---|
| window manager core | `nnwm.cpp`, `nnwm.hpp` | `toplevels`, `outputs`, `focused_output`, per-output `active_workspace`, `last_focused`, `layout_mode` | list walks, `focus_toplevel`, `arrange_windows`, `output_cycle` | `WmState` |
| user actions | `actions.cpp` | none of their own | focus, swap, workspace, monitor, scratchpad, layout, window flags | `WindowManager`, `Overview` (by direction) |
| xdg-shell | `xdg_shell.cpp` | life of a window, popups, decorations | new, map with rules, unmap, destroy, requests | `WindowManager`, `Pointer` (requests to move and resize) |
| outputs | `output.cpp` | life of a monitor | new, destroy, apply/test configuration, VT resume, power, frames | `WindowManager` (all but power, modes, frames) |
| foreign toplevels | `foreign_toplevel.cpp` | handles of taskbars | activate, close, mirror of state | `WindowManager` (activate) |
| pointer | `cursor.cpp` | `cursor_mode`, grab, tile drag, hot corner, constraints | motion, button, axis, drag and drop | `Pointer`, `HotCorners` |
| overview | `nnwm.cpp`, `actions.cpp`, `cursor.cpp` | `overview` per output, dragged window | enter, leave, animate, walk, drag, click | `Overview`, `Pointer` |
| layouts | `nnwm.cpp` 2576-3050 | ratios, scroll offsets | rectangles of seven layouts and of scratchpads | `Layouts` |
| animations | `nnwm.cpp` 672-870 | `dying_toplevels`, tweens of a window | open, close, geometry, slide, step | `Animation` |
| layer shell | `layer_shell.cpp` | surfaces per output | map, unmap, commit | `Shells` |
| XWayland | `xwayland.cpp` | second life cycle of windows | map, unmap, destroy, requests | `Shells` |
| bar | `bar.cpp` | bars per output, what is dirty | notify, tick, draw, click, reload | `Bar` |
| tray | `tray.cpp` | D-Bus items and pending calls | register, change, vanish, reply, time out, click | `Tray` |
| workspace protocol | `ext_workspace.cpp` | resources per client | bind, activate, notify, rebuild | `ExtWorkspace` |
| keyboard | `actions.cpp` 1997-2350 | repeat timer per keyboard | key, repeat, new, destroy | `Keyboard` |
| idle detection | `lua/config.cpp` 2278-2323 | `is_idle`, a timer | activity, expiry, reload | `Idle` |
| session lock | `session_lock.cpp` | `session_lock` | lock, surfaces, unlock, client death | `SessionLock` |
| Lua configuration | `lua/config.cpp` | timers, hooks, rules, bindings | add, fire, cancel, remove, reload | `Timers`, `Scripts`; reload also in `Keyboard`, `Idle`, `ExtWorkspace`, `Bar`, `HotCorners`, `Animation` |
| IPC, `nnwmctl` | `ipc.cpp`, `nnwmctl.cpp` | read and write buffers per client | read, execute, write, close | `Ipc` |
| startup | `main.cpp` | none | | the initial states and the reload callback |

Interactions: xdg-shell, XWayland, actions, outputs and pointer call the core
directly (`focus_toplevel`, `arrange_windows`) and read what earlier callbacks left
in `last_focused`, `focused_output` and the keyboard focus of the seat. Hooks, rules
and timers call actions through Lua, from the middle of the callback that fired
them. The lock and layers take the seat's keyboard focus away and give it back. The
core tells bars, the workspace protocol and taskbars what it did.

What makes the parts correct:

- core and actions: each mapped window is in the list once, in one place, and
  moves only when a command moves it; remembered pointers die with what they
  point at; the keyboard is on a window that is mapped and visible; a workspace
  shows its windows and no others;
- outputs: a monitor that goes takes no window with it and leaves no pointer;
- scratchpads: membership, scene tree and visibility agree;
- pointer: a grab dies with its window and its button, a drop exchanges two windows
  and disturbs no other, a corner fires once per entry;
- overview: leaving it, by any way, restores what every workspace shows;
- layouts: tiles fill the usable area without overlap, the focused one is on the screen;
- animations: they end where the layout is, whatever interrupts them;
- layers: a launcher that closes gives the keyboard back to a visible window;
- bars: each is drawn again after what it shows has changed;
- tray: items are those of living services, each with its own look, and a click
  reaches the item that was drawn there;
- workspace protocol: the handles match the workspaces, the clients see switches;
- keyboard and idle detection: a repetition ends with its key, a present user is
  watched;
- session lock: only the client that locked unlocks, on its request; its death does not;
- timers: no freed timer is used, none is lost, early or called while paused;
- hooks and rules: each that matches is called once, whatever a function registers;
- IPC: whole replies in order, and neither side waits for ever.

## Modules

`WmState` holds the shared state as one record `s` and the helpers of the core
as operators from a state to a state: `FocusToplevel(s, w)` is `focus_toplevel`,
`ArrangeOutput(s, o)` is `arrange_windows`. A callback calls several helpers,
each of which reads what the previous one wrote, and composing operators keeps
that order. The record has:

- `toplevels`, `outputs`: the intrusive lists, as sequences in list order;
- `win[w]`: an object slot. `life` is `free` (no object), `fresh` (created, not
  mapped), `linked` (in the list) or `unlinked` (unmapped, not deleted). The
  remaining fields are those of `nnwm_toplevel`: owner, workspace, flags,
  scratchpad, plus the scene tree it hangs in and whether its node is enabled;
- `out[o]`: `nnwm_output`, with `on` for `wlr_output->enabled`;
- `focused_output`, `kb_focus` (the seat's focused surface), `shown_pads`;
- `crashed`: set when the code follows a null or freed pointer. The behaviour
  from there on is undefined, so the model stops.

`WindowManager` has one operator per callback and one action per event, grouped
as `ClientStep`, `UserStep` and `MonitorStep`. The parameter `Events` selects
the kinds of event an instance looks at, so that a small instance can go deep.
An action is a callback with everything it calls: `Unmap` includes the pointer
refresh at its end, `Map` the rules, the optional workspace switch, the focus
and the arrangement.

`Placement` is the abstract specification: where windows are. Only the window
with the keyboard moves, except that the windows of a monitor that goes move on
together. `WindowManager` instantiates it with `home` computed from the record
(`KeepsPlacement`).

`WindowManagerDocs` states what comments, the changelog and the Lua stubs say
of these callbacks and the code does not do. `MCWindowManager` gives the
constants their values, and is extended by the other MC modules about windows.

Abstractions of the window manager: geometry, borders, drawing, client configure
events and Lua hooks change nothing in the record; rectangles and animations have
modules of their own. `nnwm_layout_mode` has seven values of which four behave
differently for the state modelled: `tile` stands for the horizontal and vertical
tile layouts, `scroll` for both scroll layouts (which differ from `tile` only in
reading `last_focused`). `prev_focused` is never read and left out. There is a
keyboard on the seat; a window is matched by at most one rule.

### On top of the window manager

`Overview` adds `overview` per output: toggling it, the exit animation and its end
per output, and the commands that go by direction, inside (slot by slot, over the
edge to the next monitor) and outside (tabs, windows, monitors). Monitors have
coordinates (`Centre`), windows have none: `find_dir_target` may return any window
it looks at.

`Pointer` adds one record `pointer` (mode, grabbed window, drop target, dragged
thumbnail, buttons held). A grab is not one event: press, motions and release are
actions, and every callback of `Overview` and `WindowManager` may come in between.
The place of the pointer is chosen anew by each event, because bindings and focus
changes warp it. `PointerDocs` has what the documents say. `MCDesktop` instantiates
all of it.

`Shells` adds the surfaces of layer shell (`layers`), which may hold the keyboard
(`kb_focus` ranges over windows and layers), and the windows of XWayland, which
are windows of `WindowManager` with map, unmap, destroy and fullscreen callbacks of
their own. `MCShells` instantiates it.

`MCScratchpads` tells one of two stories of `WindowManager`, chosen by its variable
`story`: windows that go in and out of the global scratchpad on a monitor that
stays, or windows on monitors that come and go.

### What is shown

`MCScreen` composes five modules that share no state; its variable `part` picks the
one that moves, so the state space is the sum of theirs, not the product.

`Layouts` computes rectangles, one operator per branch of `arrange_windows_impl`
(`HTile`, `VTile`, `HScroll`, `VScroll`, `Content` and `TabBar`), with its integer
divisions and the pixels they leave to the last window. Ratios are percentages. The
state is one workspace whose windows, layout, ratio, maximized window and
configuration change, because the scroll offset depends on what it was before.

`Animation` follows the scene node of a tiled window through the animations of a
build with SceneFX: position (none, home, somewhere, off the screen), running
geometry and fade animations, whether the node is hidden when they end. A frame
(`AnimationFrame`) moves every animation a step, which may be the last one.

`Bar` keeps for each bar what it was drawn with, and compares it with the desktop.
`Told` is `redraw_if_cares`: it marks a bar dirty when it hosts a module that cares.
Bars are drawn by frames, by a tick, or when they are created.

`Tray` is the watcher, the session bus (`inbox`, what was sent to the tray in
order) and applications that come and go. Addresses of items are reused. A
property call may be answered late, after its item is gone, or time out. An
application may leave the bus (`Quit`) or give up a name and live on (`Release`): the
one it registered, or another. `message_filter` unregisters the item of the name and that of its
old owner, so an application that is registered under its unique name loses its item
with any name; `kept` says that it gave up none since. `LateReleases` says whether
this may come while messages or calls of the application are pending. The bars of all
monitors (`TrayBar`) share the items and the field `rendered_x`, which every drawing
overwrites; `starts` is where the tray began in each bar when it was last drawn.

`ExtWorkspace` keeps, for each manager and output, the handles with their index,
whether they were removed and the state last sent. A group of an unplugged output
stays; following its pointer sets `misused`, and the model goes on as if the memory
were intact.

### Beside the windows

`MCServices` composes five modules in the same way (variable `service`). They share
no state with `WindowManager`: what a binding, a timer or an IPC line makes the
window manager do is one of its `UserStep`s.

`Keyboard` extends `SessionLock` and `Idle`, because a key press is the place
where the three meet. One action per branch of `keyboard_handle_key` (VT switch,
overview, overlay, bound, forwarded), each starting with `NotifyActivity` as the
function does. A key stands for a chord; a binding may toggle the overview or the
overlay; `ran` remembers what the last step ran. `Repeats` is the return value of
`handle_keybinding`, a `bool`. A repetition re-arms its timer once, so a held key
runs its binding at most twice more.

`SessionLock` has `StaleLock` for a `session_lock` that points to a deleted lock.
From wlroots it takes that surfaces die with their lock and output, that an
unlock is accepted only after `locked`, and that the end of a lock, by its client or by
`wlr_session_lock_v1_destroy`, calls `session_lock_destroy`. The unlock handler calls
the latter with its listener attached and goes on with the deleted lock:
`lock_misused` records it, and the model goes on as a build that survives it does.
`unlocked` remembers which locks ended by their own request.

`Timers`: an element of `Timer` is an address, which `NewTimer` may reuse. A
callback is two steps, `FireStart` and `FireEnd`, between which its Lua function
may call any method and create timers; `OwnCalls` says which methods a function
may call on the handle of its own timer. Time is counted twice, in the timer
(`left`) and for the script (`owed`), so that `OnTime` does not repeat the code.
Periods of 0, which disarm the timer, are left out.

`Scripts`: hooks and runtime rules are walked by C code that calls Lua, which may
register, remove, and cause another event. The walks under way are a stack, each
with its place in the list (`at`), what it called and what was due when it began.
`RemovesPassed` says whether a function may remove rules at or before the place of
a walk.

`HotCorners`: the pointer is in a corner of a monitor or in none. The ghost
variables `spent` and `again` remember which corners ran since the pointer entered
them; `hot_corner` is what the code remembers.

`Ipc` is one connection: the compositor's two buffers, the kernel's two, and
`nnwmctl`. Text is counted in units that carry the number of their line, enough to
see a reply cut, lost, doubled or overtaken. A write to a client that is gone
fails: `SIGPIPE` is taken to be ignored, which `main.cpp` itself does not arrange.

## Runs

Except for the services, runs are bounded only by the constants: there is no bound
on the length of a behaviour. Three of them start with one monitor or with two
and allow less on two; the action constraints `TilingBound`, `DesksBound` and
`GridBound` say what (a state one step beyond them is checked, and not left).
`MaxFlags` bounds the flags set at a time in `shells`. Ids and lists that would grow
stop at named bounds:
`MaxHandles` (handles of a workspace group), `MaxHooks`, `MaxRules` and `MaxWalks`
(what scripts register and how deep calls nest), `MaxTiles`, and `MaxInbox` and
`MaxCalls` (messages on the bus and unanswered calls of an application).

| run | instance | shows |
|---|---|---|
| `tiling` | 3 windows: every command of the list, all layouts, dialogs, rules and floating on one monitor, or tiled windows on two monitors of two workspaces | `TypeOK`, `Lists`, `LastFocusedOwned`, `ScreenRight`, refinement of `Placement` (`KeepsPlacement`) |
| `shells` | 2 windows, one of XWayland: every flag and request on one monitor, three flags set at a time, or two monitors and a layer surface | `FocusMapped`, `KeyboardReturns` |
| `outages` | 2 windows and a named scratchpad, 2 monitors that are disabled, enabled, unplugged and plugged, VT resume, activation and fullscreen requests | `OutputPointers` |
| `scratchpads` | 3 windows and the global scratchpad on one monitor, or 2 windows on 2 monitors that are unplugged and plugged; VT resume and activation | `NoOrphans`, `PadWhole`, `PadsKeepPlacement` |
| `grabs` | 3 windows on 2 monitors side by side, 2 buttons, focus follows the mouse | `GrabSafe`, `DropExchanges` |
| `overview` | 2 windows, 3 workspaces in a grid of two columns; one monitor with thumbnails, or two with directions and exit animations | `Restored` |
| `screen` | up to 4 tiles and 4 windows in a scratchpad on 3 screens with 2 ratios; 2 animated windows, 2 workspaces, 2 configurations; bars on 2 monitors, 2 windows, 2 workspaces, 3 configurations; 2 applications with tray items, one under a well-known name, 2 addresses, 2 bars of which one has the tray at one place and the other at two; 1 workspace client, 2 monitors, groups of 3 handles | `TilesFit`, `FrontOnScreen`; `Settled`, `FadingUnmapped`; `BarsTold`; `ItemsMatch`, `OwnLook`, `Current`, `IconClicks`; `HandlesMatch`, `SwitchesSeen`; types |
| `services` | 1 keyboard, 3 keys, 2 configurations, 2 locks, 2 outputs; 2 timers, 2 handles, periods 1 and 2, callbacks that pause and resume themselves; 2 events, 2 rules for a kind of window and those functions add, 2 walks deep; 2 monitors with 2 corners, 3 settings; 1 connection, six requests of up to 4 lines, buffers of 3, 6 and 4 units | `IdleWatched`, `RepeatHeld`, `OnlyHolderUnlocks`; `NoUseAfterFree`, `HandleOwner`, `TimerArmed`, `OnTime`, `TimerCalled`; `WalksComplete`; `OncePerEntry`; `RepliesWhole`, `ConnectionEnds`; types |

Why the bounds are enough: a list operation concerns a window, a neighbour and
one more window that must not be disturbed, hence three windows where order
matters; the other hazards concern a window that moves and one that stays,
hence two. Two workspaces distinguish active from hidden, two monitors source
from destination; the overview has three, so that its grid has a hole. Windows are
interchangeable where no rule and no shell names one, and are then a symmetry set
(all properties checked under symmetry are safety properties).

On the screen: sizes do not divide by the number of tiles, so each rounding occurs,
and four tiles are a master, a first, a middle and a last one of the stack. Of two
animated windows one moves and one interrupts. Two bars distinguish the one that is
told from the one forgotten, the global bar is a third configuration. One address
that is freed and one in use are what a stale reply can confuse. Two bars of the tray
are the one that is clicked and the one drawn after it, at the same place or not.
`screen` and `late_reply` have a `VIEW`: two states are one if they differ only in the
icons and places of bars that are to be drawn again, and in the place of items that are not
shown. No property and no action reads these before the drawing that overwrites them.

For the services: two timers are one that is freed and one that gets its address,
and periods of 1 and 2 tell "at once" from "later". The requests of `Ipc` contain a
line longer than the read buffer, replies that fit the write buffer but not the
socket, and replies that fit neither. A keyboard knows nothing of other keyboards.
Two locks are the holder and the one refused; two outputs are one covered and one
not. A walk inside a walk is as deep as one can see another. Two corners of two
monitors tell the corner, the monitor and both apart.

`outages` does not check for deadlock: a dangling pointer is followed there (`crashed`),
after which the program really stops. `services` does not either, as a connection
ends. Everywhere else a deadlock would be reported: a crashed state has no successor,
so those runs show that none comes. In `scratchpads` the global scratchpad leaves a
dangling pointer behind, and only the instance that has one lets a crashed state
stutter; the instance with hotplug shows that there is none.

### Disagreements

Four runs have `"expect": "violation"`. Each checks one sentence of the
repository that the code does not keep, on a small instance that shows it;
`findings` in `PROJECT.json` quotes it:

- `thumbnail`: a click on a thumbnail of the overview drops the window where it is
  and never focuses it;
- `rule_skipped`: a rule that removes itself keeps the last rule from its window;
- `self_cancel`: a callback that cancels its own timer returns into freed memory;
- `late_reply`: an item of the tray shows the look of another application: the item
  of one that lives on was unregistered with a name it gave up, its address was used
  for another item, and then its answer came (`OwnLook` with `LateReleases`,
  `tray.cpp:571`).

The model shows more of them. Those with a definition come up when the definition
is added to a configuration (with the `Events` or the constant named here):

- `NoDanglingOutput` (`"plug"`, `"unplug"`): an unmapped window keeps the pointer to its destroyed
  output (`output.cpp:232`);
- `SwapReturnsEarly` (`"fullscreen"`): `swap::left` with a fullscreen window focused and
  nothing tiled dereferences null (`CHANGELOG.md:1209`);
- `TabsShareArea` (two monitors): a workspace switch on one monitor shows every tab
  of the other (`stubs/nnwm.lua:849`);
- `HiddenPadUnfocused` (`"scratchpad"`): hiding the scratchpad may leave the keyboard on
  a window hidden with it (`stubs/nnwm.lua:779`);
- `OnlyInteractiveReturns`: a notification that closes takes the keyboard as well
  (`layer_shell.cpp:105`);
- `FadingUnmapped` with `Remaps`: a window that maps again while it fades out is in
  two lists (`nnwm.hpp:276`);
- `SlidesOut`: windows that should slide off the screen are hidden at the first frame
  (`CHANGELOG.md:1141`, `actions.cpp:630`);
- `ClicksInEveryBar`: bars of different widths or modules have the tray at different
  places, and after the drawing of one a click on another is tested against the
  wrong ones, so it calls another application or none (`tray.hpp:20`, and
  `tray.cpp:60` "bar-local x set during draw pass");
- `NoLockMisused`: every unlock request deletes its lock twice: `session_lock.cpp:98`
  destroys it, which calls `session_lock_destroy`, and lines 99-102 use it and delete it again,
  though the former is for a client that "crashes without sending unlock" (line 119);
- `PillClicks`: a click is tested against the pills of now; after a change that told
  no bar these are not those on the screen (`CHANGELOG.md:213`, `bar.cpp:1518`);
- `NoRepeatHonoured`: `repeat = false` does not stop the repetition
  (`CHANGELOG.md:187`); `SuppressedWhileLocked`: a held binding repeats although the
  session was locked (`CHANGELOG.md:1311`);
- `ResumeTold`: a reload while the user is away clears `is_idle`, and the hook
  `resume` never comes (`CHANGELOG.md:170`);
- `LockedSent`: when the last uncovered output is unplugged, `locked` is not sent
  (`CHANGELOG.md:1312`);
- `CooldownLeft`: a hop from corner to corner leaves the first one marked, so it does
  not fire when it is entered again (`nnwm.hpp:367`); `RunsUnderPointer`: a corner runs
  although a grab took the pointer away; `MonitorAlive`: its timer follows a pointer to
  a monitor that was unplugged;
- `GroupPerOutput`, `OutputsAlive`: workspace groups do not follow outputs, so a
  request for an unplugged one follows a pointer to freed memory
  (`CHANGELOG.md:1079`);
- `ViewCurrent`: a reload that moves an output to another workspace does not tell the
  clients (`CHANGELOG.md:810`).

Without a definition of their own, in the window manager:

- a rule `floating = false` does not keep a dialog tiled (`xdg_shell.cpp:104`);
- a rule with `focused` leaves the workspace when it is already active and
  `workspace_back_and_forth` is on (`nnwm.hpp:593`), and so does switching to the
  active one (`stubs/nnwm.lua:742`);
- a sticky window sent to a hidden workspace is hidden (`actions.cpp:544`);
- sending the only tiled window away clears the focus though a floating window
  is visible (`stubs/nnwm.lua:729`); closing a window that is not the remembered one
  clears the keyboard;
- `layout.tabbed.toggle` never leaves the tabbed layout (`stubs/nnwm.lua:848`);
- closing the last scratchpad window leaves the overlay open
  (`CHANGELOG.md:1003`), and closing the focused one may leave the keyboard on
  it (`xdg_shell.cpp:205`);
- a window that was in a named scratchpad and is sent to the global one is part
  of neither (`stubs/nnwm.lua:761`);
- focusing a monitor focuses its first tiled window, not the remembered one
  (`stubs/nnwm.lua:816`);
- with all monitors disabled, windows and focus are on none, and enabling one
  again does not adopt them (`CHANGELOG.md:19`, `output.cpp:382`); a disabled monitor
  keeps its `last_focused` pointers, which may be dangling by the time it is enabled.

In the other parts:

- pointer: `overview_drag_toplevel` and `tile_drag_target` outlive their windows if
  these unmap while dragged (event `unmap_dragged`, and with `thumbnails` a target of a
  tile drag that goes on underneath); a release in the overview does not end a grab that
  was begun outside it (`cursor.cpp:1019` returns first), so it lasts with no button down; a request to move that comes after
  the release starts a grab no button ends (`stray_request`); dropping a tile on another
  monitor leaves `last_focused` behind (`drop_elsewhere`); moving a window across
  monitors, or to a slot of the overview, does not update it either;
- overview: a drop draws the overview on monitors that are not in it; keys are
  swallowed in it, bindings included (`stubs/nnwm.lua:743`);
- layers: an interactive one takes the keyboard back at every commit; a window that
  maps or unmaps under a launcher takes the keyboard from it; a layer that unmaps with
  nothing to focus keeps it; layers of an unplugged output are not closed;
- XWayland: a window with a parent floats before the rules have run; unmapping in a
  scratchpad leaks the scene tree (`xwayland.cpp:252`), and mapping again while it is
  there makes a second one (`PadWhole` fails with the event `remap`);
- layouts: `toggle_maximize` acts in the horizontal tile layout only
  (`stubs/nnwm.lua:809`, `CHANGELOG.md:1049`); with more windows than pixels sizes are
  negative (`nnwm.cpp:2993`);
- animations: the style "fade" leaves windows of the old workspace enabled
  (`actions.cpp:601`); the close style "scale" never hides its window; the destruction
  of an xdg window cuts its fade short (`CHANGELOG.md:1135`);
- bars: moving a window to a workspace or a monitor, unplugging and plugging tell no
  bar (`Silent`; `bar.cpp:1030`); a reload recreates bars without arranging windows
  (`CHANGELOG.md:346`);
- tray: an application registered under its unique name loses its item, and is not
  shown again, when it gives up any other name and lives on (`tray.cpp:1005` "remove
  vanished items"; `ItemsMatch` says so with `kept`); an item under a well-known name is never refreshed; a call that times out
  leaves the old look; the answer to it waits for the next message;
- scripts: a reload registers hooks, rules and timers again without removing the old
  ones (`nnwm.hpp:414` says they survive); a hook that hooks its own event never ends.

A passing run leaves out the events whose disagreement breaks its properties:
scratchpads are in no run that checks `LastFocusedOwned` or `ScreenRight`,
disabled monitors in none that checks `LastFocusedOwned`, `NoOrphans` or a placement,
sticky and fullscreen windows in none that checks `ScreenRight`, tabs are checked on
one monitor, `workspace_back_and_forth` is off where rules focus, named and global
scratchpads do not meet, and no event named in this section occurs in `grabs`.

## Fairness

The windows, the screen, keys, scripts and corners assume none: a callback always
runs to its end, and whether another one comes is up to clients, user and hardware.

`services` has liveness properties. `TimerFairness`: time passes; the event loop
calls a timer that stays due, and one that is due again and again because its
callback's turn is taken by others (strong fairness of `FireStart`: the loop
dispatches all its ready sources in turn); a Lua function returns. `IpcFairness`:
while the event loop has a ready descriptor or `nnwmctl` something to do, one of
their steps comes (weak fairness of `IpcWork`, all steps but the death of the
client); none of them is promised its turn. Nothing makes a client die.

## Proofs

`WmStateProofs` and `WindowManagerProofs` prove for every set of windows and
monitors, every number of workspaces, every set of scratchpads and rules:

- `TypeCorrect`: `Spec => []TypeOK`,
- `ListsCorrect`: `Spec => []Lists`,
- `OutputPointersCorrect`: `Spec => []OutputPointers`.

Assumptions: at least one workspace, null pointers are no objects, the default
layout is a layout, rules are well-typed, and the monitors connected at start
are finitely many.

The invariant is `Good`: the record is well typed; `toplevels` lists exactly
the linked windows, each once; `outputs` has no duplicates; every linked window
and `focused_output` refer to a listed output or to none. None of the three
theorems is inductive alone: a walk returns a window only because the list
holds nothing else, a window is arranged on a live output only because its
pointer is good, and a swap keeps the list injective only because the neighbour
found by the walk is not the window itself.

The argument has two layers. `WmStateProofs` proves what list operations do
(`Holds`: a list holds a set, once each) and that most helpers are *calm*: they
map a well-typed state to a well-typed one, leave both lists, every `life` and
every `output` pointer alone, and give `focused_output` a live value.
Calmness composes (`CalmChain`) and preserves `Good` (`GoodCalm`), so focus,
workspace and layout commands need one short lemma each. `WindowManagerProofs`
does the rest by hand: the swaps, map and unmap change the list; a move to
another monitor, `NewOutput`, `OutputDestroy`, disabling and VT resume change
pointers; `DestroyToplevel` frees an object that is already unlinked.

`ServicesProofs` proves of the timers, for every set of addresses, handles and periods, that the
handles own their timers (`HandlesOwn`) and that no callback comes early or while
paused (`CalledOnTime`). The invariant is `TimerInv`: types, `HandleOwner`, its
converse `Owned` (a live timer is what its handle points to, which is why an
address that is freed and used again cannot have two handles), and `Waiting`: a
script waits at most as long as its timer will. `Waiting` relates the two counts of
time; `OnTime` needs it of every timer that runs, and it must speak of
`remaining` while the timer is paused, or a resumption would not keep it. Two more
theorems assume something of the scripts:

- `NeverFreed` (`NoUseAfterFree`): no callback cancels its own timer. The run
  `self_cancel` shows that the assumption is needed. The extra invariant,
  `RunningLive`, says that the timer whose callback runs is live;
- `NeverLost` (`TimerArmed`): no period is 0, which would disarm the timer.

Of the seat it proves, for every set of keyboards, keys, configurations, lock
clients and outputs: `RepetitionHeld` (`RepeatHeld`), `Watched` (`IdleWatched`),
`HolderUnlocks` (`OnlyHolderUnlocks`) and
`SeatTypeCorrect`. The lock and idle detection share no variable with the keys, so
`SeatNext` is first shown to take a step of each or leave it alone (`SeatSteps`), and
each part has its own lemma. What has to be added to the properties is `OneLock`: the
only lock object alive is the one that holds the session, so a request to unlock
comes from the holder; and `LivingDidNotUnlock`: a lock that is alive is not among those
that ended by their request, so the end of the holder is seen to be one or not. `RepeatHeld` and `IdleWatched` are inductive with their types.

Of the hot corners it proves, for every set of monitors, corners and settings, that a
corner runs at most once per entry (`RunsOnce`: `OncePerEntry`). This is a fact
about the past, which the code keeps in two different places: a corner that is
active is not entered again, and one whose timer is armed has not run. The invariant
`CornerInv` says so: a corner that ran while the pointer is in it is the active one
(even if a grab hid the motions in between), and `ArmedFresh`. The bits of
`hot_corner_cooldown`, which the code has for the purpose, are not needed.

Of hooks and rules it proves, for any events, rules and depth of nesting, that every call
to the hooks of an event, and every application of the rules to a window, has called when it
ends all that matches and is still registered, each once and hooks in the order of their registration
(`WalksAreComplete`: `WalksComplete`), while the functions it calls register more, remove
rules and start further walks. It assumes that no function removes a rule the walk has passed:
`rule_skipped` shows that the code breaks the property without that. The invariant,
`ScriptInv` (`ScriptsInvariant`), is the property's own claim for a walk that has not ended:
it called exactly the matches up to its place (`Done`). It needs what is true of the ids: a hook's id is its
place, and those of the rules are distinct and below `next_rule` (an id given twice would make a rule
look called before it is). `remove_rule` moves the last rule into the gap, so
what has to be proved of it is that the places before the gap stay as they were (`SameBefore`).

`WindowSafetyProofs` goes on from `Good` to what the window manager is for. Each theorem
names the events it leaves out, as the disagreements above break the property with them:

| theorem | property | left out | why |
|---|---|---|---|
| `NoneLeftBehind` | `NoOrphans` | `disable` | all monitors may be disabled, and enabling one adopts no window |
| `RememberedOwned` | `LastFocusedOwned` | scratchpads, `disable` | a window taken out of a scratchpad, or off a disabled monitor, is still remembered |
| `NoBadDereference` | no crash | those, `swap`, `request_fullscreen` | a dangling `last_focused` is followed; a swap with nothing tiled and a request before the first map dereference null |
| `KeyboardMapped` | `FocusMapped` | scratchpads, `disable`, `unplug` | the keyboard stays on the window that closes if no monitor is left |
| `PadsWhole` | `PadWhole` | `remap`, two kinds of pads | an X11 window mapped again gets a second tree; a named window sent to the global pad is in neither |
| `ImplementsPlacement` | `KeepsPlacement` | `disable` | a window on no monitor has no place to leave from |

The argument is the same for all of them. What a callback does to the windows falls in
few classes (`Callback`): nothing but reorder them (`Reordered`), move one (`Sends`), create,
map or unmap one, open or close a scratchpad, hand over those of a monitor (`Hands`: it
comes, goes or is turned off, or a VT is resumed), or stop (`Breaks`). The class of each
callback is proved once, with what it guarantees about the pointers if they were
sound before; then a property has to be preserved by these classes instead of by more
than forty handlers. The invariants:

- `NoneLeftBehind`: `Good` and `Hosted`: if there is a monitor, the focused one is a live
  one and so is that of every window. It needs `Good`, as a window is handed to the
  monitor that `output_cycle` finds in the list;
- `RememberedOwned`, `NoBadDereference`: `PointersInv`, which adds `Remembered` (a
  remembered window is mapped and there) and `Padless` (no window is in a scratchpad).
  The second needs all of the first: what is followed without a test is what is
  remembered;
- `KeyboardMapped`: in addition, that there is a monitor, since otherwise
  nothing takes the keyboard from a window that is unmapped;
- `PadsWhole`: `PadsInOrder`, which also says which tree belongs to which kind of
  scratchpad, and what a window that was not yet mapped looks like;
- `ImplementsPlacement`: `Hosted`, and every window in a scratchpad hangs in the tree of
  one. Each class of callback is a step of `Placement` (`CallbackPlaced`) or a stutter;
  what a monitor hands over is `Evacuate` (`GivesEvacuates`). `Hosted` is
  what `Placement` promises of the hosts: no window is on no monitor while there is one.

`WindowScreenProofs` proves `ScreenStaysRight` (`ScreenRight`): after any callbacks, every
workspace shows its windows and no others, of a tabbed one exactly one, and the
keyboard is on a window that shows and that its workspace remembers. New, map, unmap,
destroy, clicks and hovers, focus, swaps, switches and moves between workspaces and
monitors, all layouts and flags but sticky, new monitors and VT resume are in it, for
any number of windows, monitors and workspaces; also fullscreen windows, which no
run that checks `ScreenRight` has. Its invariant is `Right`:

- `Base`: `Good`, `Remembered` and `Hosted` from above, there is a monitor, and windows are in
  no scratchpad and not sticky;
- for every monitor, `Pict`: its windows that are not tiled show exactly on the active
  workspace (`Loose`), the tiled ones all show, or one if the layout is tabbed (`Fronted`);
  and this is the one that the workspace remembers, if that one is tiled;
- `KeyboardRight`: the keyboard is on a shown window that is remembered, or on none.

`Pict` depends on what is remembered only where tabs are, so a step is *tame* if it
keeps the windows and the picture of every monitor, or changes only what an
arrangement after it repairs: `RightArrange` makes a picture from `Loose` alone. Most
callbacks are a tame step and an arrangement; a switch is the sweep of `switch_to`
(`Swept`) and then both. `Right` ends with a crash, which the theorem allows (a swap
with nothing tiled), and the screen stays as it was (`RightUntilCrash`).
`ScreenAlone` says what is left out, and why:

| left out | why |
|---|---|
| scratchpads | a window taken out of one is still remembered |
| `disable`, `unplug` | windows that are handed over keep their workspace number and what was shown of them, whatever the new monitor shows |
| `activate` | the workspace is switched on the focused monitor, not on that of the window, and the keyboard goes to a hidden one |
| `remap` | a window that was hidden when it unmapped is not enabled when it maps |
| `request_fullscreen` | a tab in the back that becomes fullscreen stays hidden |
| `sticky` | a window that stops being sticky stays where it is shown |
| rules | that make a window sticky, or send it to another workspace and do not focus it, or focus it with `workspace_back_and_forth` |
| tabbed layouts and two monitors | the sweep of a switch enables the tabs in the back of the other monitor, which is not arranged |

The last one is the disagreement `TabsShareArea`; the theorem has tabs with one monitor or
any monitors without tabs. `TilingBound` has the same reason.

`ScreenProofs` proves of each part of the screen, for all its constants:

- `HandlesUnique` (`HandlesMatch`), `SwitchesShown` (`SwitchesSeen`) and `ExtTypeCorrect` of
  the workspace protocol. The invariant, `ExtInv`, says it of every client and output, also of
  those that are not bound or not connected, whose handles come back with them
  (`AllMatch`), and that the outputs show workspaces there are (`Valid`): a rebuild
  announces what is past the largest index of the live handles (`NextIndexPast`).
  `SwitchesSeen` speaks of steps that leave count and monitors alone: a reload or a new
  monitor may leave a client with a stale view (`ViewCurrent`);
- `FadesAreUnmapped` (`FadingUnmapped`) and `AnimationsSettle` (`Settled`) of the animations,
  if no window is mapped twice (`Remaps` is FALSE, as the first disagreement shows it must be).
  `Settled` speaks of animations that are over; its invariant `AnimationInv` of those that
  are not: a window of the active workspace is shown and home, or on its way there with
  `geo_then_hide` cleared; one of another workspace is hidden, or still sliding (then
  its last frame hides it). Every interruption has to re-establish this, which is
  what the sweep of `switch_to`, the arrangement after it and the clearing of
  `geo_then_hide` are for. `AnimationsSettle` also assumes that workspaces do not
  fade into each other: that style leaves the old windows on the screen;
- `BarsAreTold` (`BarsTold`) and `BarTypeCorrect` of the bars. A switch tells the bar of its
  output and the global one; no other bar is outdated by it because every bar but the global
  one hangs on its own output (`Hung`) and the window that gets the focus is on the
  output that switched, which in turn needs that a remembered window is on the
  workspace that remembers it (`Owned`). That a clicked pill is a workspace at all
  (`NthPillIsPill`) is an argument about cardinalities: the rank of the pill is less
  than their number.
- `OnlyHeldNamesListed` (`ItemsMatch`), `RepliesFindTheirItem` (`OwnLook`), `OldLooksAreRenewed`
  (`Current`), `ClicksReachTheirIcon` (`IconClicks`) and `TrayTypeCorrect` of the tray.
  `ItemsMatch` speaks of names whose messages are read; `Foretold` of those that are not:
  the last message about an application says whether it is `Enrolled` (holds its name,
  and gave up no other since it registered), and if there is
  none the list does. With it goes `OneEach`, as a name that vanishes takes only the
  first item found. It assumes nothing of when names are given up. For the looks, `Owed` says that all an application still owes the
  tray is about its item: calls are pending at the address of the item (`Pending`),
  answers on their way come from there (`Replying`), and when it says that a name vanished
  no call to it is pending, no answer comes after, and nothing before if it lives on (`Leaving`). The address of an item is used again only when it
  is gone, so an answer that is late finds the item it was asked for. `Informed` is the
  same for `Current`: an item with an old look has a call, an answer or a change before
  it, and the last of them brings the look of now. Both assume `~LateReleases`:
  names are given up by living applications only when nothing of them is pending, and
  taken again only after the tray has read what the last owner sent. The run
  `late_reply` shows what happens otherwise. `IconClicks` is about places: the rank of
  a shown item among the shown ones is injective and onto (`TrayIconsNth`, a fact of
  cardinalities), hence the item drawn at a place is the one that is hit there. For
  several bars the invariant (`Placed`) says that the places are those of the bar drawn
  last; another has them if the tray starts there at the same place, which is what
  the property asks for, and `ClicksInEveryBar` does not;
- `ScreenTypesCorrect`: the parts keep their types together, as `TypesOK` of the run `screen`
  (with `Remaps` FALSE, as above).

`LayoutProofs` proves the layouts for every screen, gap, ratio and number of windows. The
invariant is `DeskInv` (`RectanglesCurrent`): the rectangles are those that the layout
gives the windows there are now. That is not true of a scratchpad, which keeps its
rectangles when the ratio of the workspace below changes, so for it the invariant
says that they are those of some ratio. Two theorems follow from it by
arithmetic alone:

- `TilesAlwaysFit` (`TilesFit`), if every window has room (`Roomy`): at every ratio the
  master and the stack get a pixel and each window of the stack gets one, and the
  tab bar is smaller than the area. Nothing in the code ensures it: with more windows
  than pixels sizes become negative. A pixel is in one tile because a natural number is
  in exactly one of the intervals between multiples of the pitch, the last of which has no
  end (`RowOf`, by the least counterexample); the stack whose rounded quotients would
  leave pixels over ends in the window that takes them. `vtile` is `htile` turned over the
  diagonal, in the code as a second branch and in the proof as a lemma
  (`VTileDivides`). A smart tab bar that is hidden has no pixels, and then the content is
  all there is;
- `FrontAlwaysOnScreen` (`FrontOnScreen`), if gaps are not negative and columns not wider than
  the screen (`Strips`), neither of which the configuration is refused for. The front column
  is either centred or, near the start of the strip, further to the left, but not left of
  the gap; its neighbours are a column and a gap away. It has to be the front of the last
  arrangement: that is why a change of focus arranges a scrolling layout, while a tiled
  one, whose rectangles do not depend on the focus (`FramesFollow`), is left as it is.

`PointerProofs` goes on from `Good` to the overview and the pointer, under `DesktopSpec`:

- `DesktopCorrect`: with every kind of event, `TypeOK` always, and `Lists` and
  `OutputPointers` until the program crashes. `Spec` has none of these handlers, and
  a drop is the one that can break them: it crashes if its monitor was unplugged;
- `GrabbedStayMapped` (`GrabbedMapped`), `DropsExchange` (`DropExchanges`): without the
  events `stray_request` and `thumbnails`. The window of a grab and its drop target are
  mapped since no callback but unmap takes a window out of the list (`RetainsLinked`
  on top of the classes of callbacks, `OverviewKeeps`), and unmap ends the grab or
  looks for another target. A drop exchanges two places of the list because both are in
  it (`ExchangePlaces`), and what follows, focus and arrangement, is calm;
- `GrabsAreSafe` (`GrabSafe`): in behaviours in which no monitor is in the overview
  (`[](InOverview(server) = {})`), a button is also down for as long as there is a grab.

The invariant is `GrabInv`: `Sane` (good or crashed), `Grips` (a grab has its window) and
`Among` (all the pointer refers to is mapped, and nothing is dragged in the overview). Its
last part cannot be left out: if a tile drag goes on while a thumbnail is dragged, the
motion does not look for the target any more and the target may unmap. `Leads` says
what a step does to all of it; it is proved once for each action.

Only model-checked, and why:

- `KeyboardReturns` of `Shells`: its runs have sticky windows and requests, which
  `ScreenStaysRight` leaves out, and surfaces that take the keyboard;
- `PadsKeepPlacement` is the refinement with scratchpads of `MCScratchpads`, whose two
  stories are `ImplementsPlacement` with other events;
- `Restored` of `Overview`: what is shown after the overview, also with sticky windows;
- `RepliesWhole` of `Ipc`, which filters and folds sequences: what these compute is
  induction over data;
- `TimerCalled` and `ConnectionEnds`: liveness under fairness. That a timer is
  also called, which `NeverLost` does not say, is among them;
- the conjunction `TypesOK` of `MCServices`; timers and the seat are theorems.

## Not modelled

- popups, decorations, gamma, output power and modes, frames but for animations and
  bars: pass-through to wlroots, with no state another part reads;
- drawing, of bars, borders, title bars, tab labels, overview cells, tray icons and
  menus; reading options, most of `config.cpp`, which is parsing;
- directional focus and moves among tiled windows: which rectangle is nearest is
  geometry (`Overview` lets it be any);
- pointer constraints, scrolling, client drag and drop but for its start and end,
  gestures, switches, virtual keyboards;
- override-redirect and configure requests of XWayland, urgent hints;
- an action called inside a hook that the callback of the core fired: `Scripts` has
  the walks, `WindowManager` the actions, but not one inside the other. The hook
  `output_disconnect` is fired while its output is still listed (`output.cpp:206`), so
  a hook that focuses the next monitor may choose the dying one;
- handles of windows given to Lua: a script that keeps one holds a pointer that is
  never reset (`config.cpp:1644`).

## Plan

What a proof could still add is `Restored` on top of `ScreenStaysRight`.
