# Formal models of HoloNight Shell

TLA+ models of the C++ core of HoloNight Shell (`src/libs`, `src/apps`,
`src/integrations`), the TLC configurations that check them on small instances,
and proofs of some of their properties for every instance. Sections:
[the system](#the-system), [plan](#plan), [modules and code](#modules-and-code),
[runs](#runs), [fairness](#fairness), [proofs](#proofs),
[disagreements](#disagreements-between-code-and-documents),
[not modelled](#not-modelled).

## The system

The shell is one Qt process on a Wayland compositor, beside two small
authentication programs. Nearly all code runs on the Qt main thread as event
handlers that run to their end, so the unit of interleaving is a handler. What
happens *between* two handlers is where the difficulty is: D-Bus calls and
replies, network replies, timers, thread-pool results (`QFutureWatcher`), calls
posted to the loop (`Qt::QueuedConnection`, `deleteLater`), user input from QML,
and configuration reloads, in any order. A few services read another program
with blocking calls, between which that program moves on.

| Component | State | Operations and interactions | Hard part |
|---|---|---|---|
| Polkit agent (`apps/authentication/polkit`, `holonight-authentication`) | request queue, active record, prompt model, PAM session, profiles of the identities | polkitd begins and cancels; PAM prompts and completes through posted calls; the user answers, selects, retries, cancels | late callbacks, cancellation at every stage, coalesced activation, exit |
| Askpass helper (`apps/authentication/askpass`) | prompt model, exit status, stdout | one dialog, a response callback, SIGTERM | the status of two exits in one turn; partial writes |
| Live notifications (`notifications/NotificationService`, `NotificationPolicy`) | map of live ids, visible and queued lists per monitor, timers | Notify, replace, close, expire, dismiss, hover, reconfigure | id wrap, bumps and promotion, timers that are due and paused |
| Notification history and rules (`NotificationStore`, `NotificationRuleStore`) | lists in memory, files, one write in flight and one buffered | append, read, evict, edit, persist, load | crash and restart, failing writes, nested persist |
| Calendar (`CalendarService`, `calendar/`) | accounts, providers, fetch workers, back-off, SQLite cache, model, reminders, three pause flags | timers, sidebar, configuration, idle, lid, battery; CalDAV and iCalendar servers | workers ending after pause or removal; a server that changes during a fetch; a crash between two statements |
| Weather (`weather/`) | configuration, location, requests, back-off, cache file, two pause flags | start, reconfigure, replies, retries, idle, lid | replies of an older request, stalled retries |
| Overlays and per-monitor surfaces (`holonight-surfaces`) | open, pending, closing surfaces; one host per monitor | toggle, show, hide; provider, outputs and hosts come and go; compositor focus closes them | queued host signals of replaced surfaces |
| OSD (`osd/`, `OsdSurface`) | last values, suppression, hide timer, surface | channel events, hide, animation end | stale teardown, provider loss |
| Tray, media players, network, Bluetooth | mirrors of D-Bus objects | owner changes, property replies, commands | late replies for objects that are gone; reads that overtake signals |
| Launcher, MIME, session integration, portal, launches | scans, caches, default applications, diagnostics, processes | file watches, workers, processes, systemd | a scan overtaken by a newer change; one answer of three racing ones |
| Storage, idle, battery, power profiles, brightness, audio | rows, flags and levels | signals of daemons, commands to them | order of the first value and of what follows it |
| Compositor, keyboard layout | Hyprland sockets, windows, workspaces | reconnects, event stream, snapshots | a stream that breaks in the middle of a query |
| Configuration (`ConfigService`, `holonight-shell-config`) | the document, the published configuration | file watch, validation, parsing, writing | three readers of the same settings |
| `ShellApplication` | none of its own but wiring | starts and connects everything | what it derives from several surfaces |

What makes the components correct, in short: each authorization request is
answered once, by the session that belongs to it; the notification lists, timers
and map never disagree, and no file goes back to an older snapshot; polling is
quiet while paused and resumes afterwards; what is shown belongs to the
configuration in force and is, once everything has come to rest, what the other
program last said; a surface the user closed stays closed and each event reaches
the surface it was meant for; what was asked for is answered once. `PROJECT.json`
lists the hazards at their lines, with the properties that cover them.

## Plan

Most important behaviour first.

1. Authentication: `PromptModel`, `PolkitAgent`, the abstract `AuthorizationQueue`
   it implements, `Askpass`, `AccountProfiles`; proofs. *Done.*
2. Notifications: `NotificationToasts`, `NotificationHistory`,
   `NotificationRules`. *Done.*
3. Activity-gated services: `CalendarSync`, `Weather`. *Done.*
4. Surfaces: `LayerHosts`, `DesktopOverlays`, `OnScreenDisplay`,
   `MonitorSurfaces`. *Done.*
5. D-Bus mirrors: `Network`, `SystemTray`, `MediaPlayers`, `Bluetooth`. *Done.*
6. Services that keep what they read: `Launcher`, `MimeDefaults`,
   `SessionIntegration`, `ApplicationLaunch`, `Portal`, `Configuration`,
   `CalendarCache`, `CalendarFetch`, `DesktopEntries`. *Done.*
7. Devices: `Storage`, `Power`, `AudioApplications`, `Compositor`. *Done.*
8. Proofs of the safety of all of these. *Done*, see [proofs](#proofs), which also
   says what stays with TLC and why.

The abstract specification is `AuthorizationQueue`. The mirrors' promise is
stated without a module of its own, as "equal to the other program when nothing
is under way".

## Modules and code

State variables carry the members they stand for in a comment beside their
declaration, actions the handler's name; `map` in `PROJECT.json` gives the lines.
A model's action is the whole handler with every call it makes. A call into
another modelled object is an operator on that object's record. What the other
program is, does and has sent is a variable of the environment beside it
(`...Bus`, `...Inbox`, `...Daemon`), and messages on one connection keep their
order.

Authentication
* **`PromptModel`** is `AuthenticationPromptModel` as a record with one operator
  per method; a refused call returns its argument. Both front ends use it.
* **`PolkitAgent`** is the listener bridge, the coordinator and the session
  adapter. `posted` is the Qt event queue: requests, cancellations and PAM
  completions are delivered in order, interleaved with prompts, user input, the
  coalesced activation and exit. Generations and request tokens are counted up to
  a bound. **`AuthorizationQueue`** states what that agent promises without any
  of it: requests in arrival order, one in front of the user, only that one
  granted, results final. `PolkitAgent!Implements` maps the agent to it.
* **`Askpass`** is one process: prompt model, response callback, SIGTERM and
  status. `QGuiApplication::exit` does not stop the handlers of the same turn.
* **`AccountProfiles`**: the password file at once and two D-Bus calls per user,
  whose replies may come when their request is over.

Notifications
* **`NotificationToasts`**: ids wrap at `MaxId`; a timer is absent, running or
  paused with time left or due. Configuration may change the limit at any time.
* **`NotificationHistory`**: the store's single writer with its buffered newer
  snapshot, the worker's success or failure, kill and restart.
* **`NotificationRules`**: the rules with their cap, edits, and the same kind of
  writer; the filter decides what a notification does.

Polling
* **`CalendarSync`**: workers are counted per account; the three timers are one
  flag, since they are always started and stopped together; the passing of a
  stored time is an event.
* **`Weather`**: a configuration is a model value of one of four kinds
  (coordinates, coordinates whose city is looked up, looked-up place, unusable);
  a request in flight carries what it asks for, so that a reply can be told from
  one of an earlier configuration.

Surfaces
* **`LayerHosts`** holds what `TransientSurfaceHost` and
  `PairedTransientSurfaceHost` do to the surface they own, as operators on a
  record: the open that waits for a provider, the host, the requested output.
  The two modules below and the tray's menu build on it.
* **`DesktopOverlays`** is the shell's overlays. `posted` is the queue of signals
  of their hosts; a signal keeps whether its host is still the current one, which
  is what `is_current` and `generation_` compare. A compositor step (`...Mapped`,
  `...Ends`) posts one, a `...Signal` action handles it. `FocusMoves`,
  `ProviderLost`, `ProviderBack`, `OutputRemoved` and `OutputAdded` reach all
  overlays in one handler chain, and with them the suppressions
  `ShellApplication` derives.
* **`OnScreenDisplay`**: `Observed` is `onEventObserved` with the display
  connected to it, through `ensureSurface`, `pushPendingContent` and `present()`.
  The queue also holds the posted `destroyAfterHide`. `view` is whether the
  root's opacity has left 0, which decides whether hiding starts a fade.
* **`MonitorSurfaces`**: one host per monitor. The code tells a queued signal of an
  earlier host by the host's address, which a new one may have again; the model
  has the address and, to tell the two apart, a number the code has not. The
  kind of manager decides the wallpapers by place, the visibility by covered
  screens and deadline, the cover lookups, of which an answer may be empty.

Mirrors of other programs
* **`Network`** has both readers of NetworkManager: the service's synchronous
  reads on the main thread, between which NetworkManager changes or fails, and
  the backend's reading on a worker, property after property. Operations run on
  workers and post a refresh that waits for the reading under way. The rows come
  out of a hash and an unstable sort: of rows that compare equal any order.
* **`SystemTray`** is watcher, rows and the menu: the watcher counts items per
  service, the rows are found by an index that a removal must move; the menu
  surface keeps plain pointers to client and model, which the model of it names
  by the client's number. A bus name is not taken again while a message about its
  former owner is under way (names are unique or carry a process id): without
  that, `onServiceUnregistered` of the former would remove the items of the new.
* **`MediaPlayers`**: signals wait in the order of the bus, a blocking read
  overtakes them or fails, as a subscription may, and of the time a player was last
  active only the rank is kept. `unread`, `missed` and `guess` are ghosts: what a
  failed read was to bring, who could not be subscribed to, and whether the choice
  rests on either. Signals of a player that could not be are delivered and ignored;
  and the cover cache with requests that are coalesced into one
  download and one decode, and evicted by age.
* **`Bluetooth`**: who owns the discovery on which adapter, and the chain pair,
  trust, connect, of which every result may come late.

Services that keep what they read
* **`Launcher`**: a directory on the disk, the cache it is first shown from, the
  scan (a future that has read, ended, and been reported), rows by query, the
  selection, launches and recents over restarts.
* **`DesktopEntries`**: the parser of desktop files as a fold over their lines, the
  scan file by file with the directories in their order, `launcher.db` with its
  version and rows, opening and transactions that fail, and the search's scores.
  The texts are compared with a definition of what a text means, the scores with
  the order of field and closeness they stand for, and the rows with the files.
* **`MimeDefaults`**: `xdg-mime` and `xdg-settings` processes as values read or
  written at their own moment and reported later; the generations that tell a
  stale query; the lists that are watched, of those that are written.
* **`SessionIntegration`**: each diagnostic reads the session at its own moment;
  a refresh asked for meanwhile runs afterwards.
* **`ApplicationLaunch`**: the worker's steps against systemd, the deadline
  inside it, the timer outside it, and `runGuardedProcess`, whose three handlers
  race for one callback.
* **`Portal`**: the probe's calls as a set, the broker's owner changes between
  any two of them.
* **`Configuration`**: a document has one setting of each kind of reader and of
  each derived default. `Failures` is the validator, `Product` the parser,
  `Written` the writer, so that their agreement is a property of three
  translations and not of one. Accounts and overrides are tables by name; three
  names stand for those a header may hold bare, those with a dot, which a header
  without quotes takes for a table within a table, and those it cannot hold.
* **`CalendarCache`**: each statement outside a transaction and each transaction
  is a step that may fail, and the shell may end before the next. Its second half
  is the reminders the sync manager sends from it: minutes, the window, and what is
  remembered of earlier ones.
* **`CalendarFetch`**: the lines of a feed, folded and not, through the parser to
  one event per uid; and one fetch of a CalDAV account, request after request
  against a server that moves events and renames calendars, and whose answers may be
  cut short or be something else.

Devices
* **`Storage`** (drives, volumes and media come and go on their own),
  **`Power`** (battery, its warnings and whether anybody hears them, the profile
  daemons under two names, brightness, raw values against percentages, with reads
  and a watch that may fail, and idle with the inhibitors held and polled),
  **`AudioApplications`** (a volume asked for an application is inherited by its
  later streams).
* **`Compositor`**: the Hyprland connection, an event stream whose chunks may end
  within a line and a command socket that is not ordered with it; and what is
  built on it: snapshots, the order of activation, and the overview that stands
  still while it is open.

**`Subsequences`** is what the proofs need of lists of which a loop keeps some
elements (`erase_if`, `removeIf`): `SubSeqAt`, by index, and `ElementsIn`, by
element, with the lemmas about them. The
modules `...Proofs` hold the theorems.

The MC modules put components that share no state into one run: `used` says
which one a behaviour is of, and the others keep their initial state (in
`ServicesMC` they have none, `Unused`). Every component is thus explored alone
and completely, and the number of states is the sum, not the product.
`SurfacesMC` uses the overlays in pairs, since these do meet.

## Runs

All runs explore their instance completely.

| Run | Question | Bounds, and why they are enough |
|---|---|---|
| `authentication` | Is every request answered once, by its own session; is the dialog usable; does the agent implement the queue and serve it? Do askpass's status and output stand for the answer? Is a profile of the request it is shown in? | 2 requests, 2 identities, generation 3: one active and one queued or posted request show every overlap; two retries let a callback be one and two generations late. Askpass: complete but for the number of dialogs (12), on which nothing depends. Profiles: 2 requests of which both offer one user, and a group |
| `notifications` | Do lists, map and timers agree; do toasts move in turn? Is the history bounded, the file current when quiet and never older than before; is what is asked written? Are the rules obeyed and kept? | 3 ids that wrap (one visible, one queued, one new, or all on one monitor), limits 1 and 2; 3 records: one on disk, one in flight, one buffered; 2 applications at a cap of 1 rule, 4 edits: in flight, buffered, replaced |
| `activity` | One worker per account; popup within cache; polling on when unpaused? Is the weather of this configuration, a pause quiet, and does fetching go on? | 2 accounts (both provider types), 1 event, 2 configuration changes (add, then remove), back-off up to twice the first; 4 weather configurations, one of each kind, 2 places, interval 3, so that the back-off passes 1, 2 and the cap |
| `surfaces` | Does every owner know whether it has a surface; do the suppressions follow; is every monitor served by its one host; does a late answer hit the right surface? | 2 outputs of which one comes and goes, 2 answers under way, every pair of the five overlays: they meet only in the handlers that reach all. 2 monitors, 3 hosts (first, replaced, replaced again) at 2 addresses, so that the third has one again, 2 pictures |
| `osd` | Does the OSD appear only for changes, go away in time, never while needed, never stay blank? | 2 channels: one that is suppressed and never lost (brightness), one that is lost and never suppressed (layout), since channels share only the surface; 2 values, 2 outputs, 2 posted calls |
| `mirrors` | Is what the user did to the network shown in the end; does the tray hold the living items; is the player shown a playing one; is every cover request told; is only what the user pairs trusted? | 2 networks (one secured), 2 changes; 3 items of 2 programs, so that one has two, 2 messages under way; 3 menu clients; 2 players of one track, of which one may not answer, 2 signals, or 1 while the position is tracked (a change of track is left to the proof); 3 covers over a budget of 1, 4 requests; 2 adapters, 1 device |
| `services` | Is what is shown current at rest, and who starts something told once and truly (`ApplicationsAreServed`); does an accepted document mean what it says, before and after it is saved (`ConfigurationHolds`); is what a feed, a desktop file or a search says understood (`WhatIsReadIsUnderstood`); is no event lost or made up on its way into the cache and the reminders? | each file or service may change once or twice after the first reading, which is before, within and after a second one; documents: each setting, widget, account and override alone, accounts and overrides of every set of names, and the settings a default is derived from together; feeds: every single block and pairs that share a uid; CalDAV: 2 calendars, 1 event, 2 changes; reminders: 6 minutes, a window of 3; desktop files: 3 of 2 names, 2 changes, every text of 4 lines; MIME defaults: a default is set only while at most 1 query runs |
| `devices` | Is what is shown what the daemons said; does each warning come once; is the brightness the one asked for; do errors and cards stay? | 2 drives (one with a volume, one a disc), each with and without its volume or medium, 2 errors; charges above, between and below the thresholds, with and without anybody to hear of them; 2 profile daemons; brightness 0, 1, 51, 99, 100 of 120 raw steps, where rounding bites; 2 streams of 2 applications; chunks of 3 pieces over lines of 2, so that lines are torn; 3 windows, 4 snapshots |
| `toasts_stranded` | Does every toast with a timeout expire? **No.** | 2 ids, 1 monitor |
| `history_unread` | Does the count equal the unread entries? **No.** | 2 records |
| `calendar_idle` | Is polling off while idle? **No.** | as `activity` |
| `launcher_selection` | Does the selection survive a rescan? **No.** | as `services` |

In `surfaces` and `osd` a primary output stays connected: without any screen the
code opens nothing, and Qt replaces the last screen by a placeholder.

Symmetry is used in `notifications` only, over the two monitors: no definition
names or chooses one, the initial state treats them alike, and of the temporal
properties `AskedIsWritten` does not look at monitors, while the others are
about single steps.

Every passing property has a mutant in `PROJECT.json`: a plausible bug in the
mapped code under which TLC finds the property violated. Where a run's property
is a conjunction of properties of several components (`TrayIsTrue`,
`DaemonsAreMirrored`), each conjunct is stated with its comment in the
component's module.

Deadlock checking is off where a part ends (the agent, the helper, a launch, a
guarded process, a feed that has been read) or where its bounds end it; it is on
in all other passing runs.

## Fairness

* `PolkitAgent`: the event loop delivers posted calls and timers
  (`WF` per delivery), because Qt's loop does. PAM, polkitd and the user are not
  assumed to act, except where `RequestsAreServed` says so: an active request ends
  only if its session or user ends it.
* `NotificationHistory`: the thread pool runs the writer and the loop delivers
  its end; a write may still fail.
* `Weather`: timers fire, and a request is answered or fails, since every
  request has a transfer timeout. No fairness for users, configuration or pauses.
* `OnScreenDisplay`: posted calls are delivered and the fade of an existing root
  ends, as Qt's loop and animation driver do. The hide timer is not assumed to
  fire: what `OsdComesAndGoes` promises starts where it has.
* All others are checked for safety only. Their "in the end" is stated as
  safety: whenever nothing is pending, asked or under way, the two sides agree.

## Proofs

Proved with TLAPS, for every value of the constants: every invariant and every
safety property that the passing runs check, but one (`WhatIsReadIsUnderstood`,
see the end of this section). The argument is the same everywhere. The property is
not inductive, since it speaks of the state at rest, or of one list, while the next
handler depends on what is still under way: queued signals, replies, timers, a
write. The invariant therefore says what each of these still stands for. It was
first checked by TLC on the instance of the run. A lemma for each operator or
action shows that it keeps its part of the invariant, a lemma `...Step` puts
the actions together, and the theorem follows by temporal logic.

Assumptions on the constants: bounds are natural numbers; model values meant to
be distinct are (`OutputsAssumption`, `UnknownAssumption`,
`SurfaceNamesAssumption`: no output is called like an overlay); the identities
are finite and contain the current user (`PolkitAgent`); a weather configuration
is of one kind (`ConfigsAssumption`); items, players and access points are finite
(`TrayAssumption`, `MediaAssumption`, `NetworkAssumption`), no track is called like the unset one; adapters are not
devices (`BluetoothAssumption`), and no cover is both local and remote
(`ArtworkAssumption`). Of the devices: drives are not volumes and each volume is of
a drive (`StorageAssumption`); the two profile daemons have two names, which no
profile and no message is called by (`ProfilesAssumption`); brightness keys are raw
levels and the slider asks for integers (`BrightnessAssumption`); volumes are
numbers the code compares with, and no request is neither
a volume nor a flag (`AudioAssumption`); windows are finite
(`CompositorAssumption`), a chunk has a piece (`HyprlandAssumption`). Of the
services: there is a handler (`MimeAssumption`), a fact that changes is of systemd,
the files or the bus (`IntegrationAssumption`); documents, feeds and included
names are such (`ConfigAssumption`, `FeedAssumption`, `DavAssumption`, the latter
with finitely many calendars); an old database has one row per event and account
(`CacheAssumption`, its primary key), the reminders' window is more than a minute
and no time stands for "no start" (`RemindersAssumption`); within one directory a
desktop file has a name of its own (`DesktopAssumption`). The bounds in
`LauncherAssumption`, `PortalAssumption` and `IdleAssumption` are natural numbers.
Each is stated in the module that declares the constants, and TLC evaluates it in
the runs.

`AuthenticationProofs`
* `TypeCorrect`, by a type lemma per operator that several actions share
  (`FinishActive`, `StartSession`, ...).
* `RequestsAreOrdered`: `Spec => []RequestsInv`. `AnsweredOnce` is not inductive:
  that a request delivered from the loop has no result yet depends on it being
  nowhere else. `RequestsInv` says where each received request is: pending
  exactly while it is a posted call, a queue entry or the active record; these
  three hold disjoint, increasing tokens, older ones further on. The lemma
  `StepShape` reduces every action to one of a few shapes of change to these
  sets, and `RequestsStep` treats the shapes.
* `EveryRequestOnce` (`AnsweredOnce`) and `AnsweredIsFinal` (`NeverReopened`)
  follow from it.
* `AgentImplementsQueue`: `Spec => Implements`; initial states map to initial
  states and each shape to a step of `AuthorizationQueue` or a stutter.
* `DialogIsInStep`: `Spec => []DialogInv`, and from it `GrantsAreEarned` and
  `PromptsAreUsable`. A posted completion is believed if its generation is the
  active record's. That it is then the completion of this request's session needs
  that each PAM session has a generation of its own, the newest the highest, and
  that prompt, record and session agree on the current one. `SuccessesAreReal`
  is the part about the successes that are under way.
* `AskpassAnswersHonestly` from `AskpassInv`: the exit status is set by the
  response that closes the dialog, or by SIGTERM, which closes it and has the last
  word; until then nothing was written or accepted. The status is 0 exactly for a
  written secret, an acceptance or an ended notification, but for the SIGTERM.
* `ProfilesBelong`: `ProfilesAreOfThisRequest` is inductive as it stands.

`NotificationProofs` (with `Subsequences`)
* `ToastsAreConsistent`, `ToastsTakeTurns` from `ToastsInv`: each live id stands
  in one list of one monitor, once (`Standing`, `Holds`), and has the timer its
  lifecycle asks for. That no list holds an id twice is what makes removing
  the first match enough.
* `HistoryIsSafe`, `DiskGoesForward` from `HistoryInv`: the file, the snapshot in
  flight, the one buffered and the memory are a chain of which each `Follows`
  the one before, so that whatever reaches the file is not older than what
  is there.
* `RulesAreSafe` from `RulesInv`: no list in memory, in flight, buffered or in the
  file has two rules of one application (`Distinct`), so that an edit changes all
  the rules there are for it; and the newest of these lists is the one in memory,
  unless the last write failed.
* `NotificationsAreTyped` for the composed module.

`ActivityProofs`
* `CalendarIsConsistent` from `CalendarInv`, which bounds the fetches of an
  account, running and queued, by the configurations seen.
* `WeatherFollowsConfig` from `WeatherInv`: also the cache file is of a place of
  its configuration, and nothing is under way before the service starts.
  `ActivityIsTyped` for both.

`SurfaceProofs`
* `DisplayIsTimed`, `DisplayIsTyped`, `DisplayComesWithChanges` from
  `DisplayInv`: what the controller remembers of a channel is the value it has
  (`CacheFollows`), a queued signal that is still current is of a surface that is
  there, and if it tells of an end, that end has happened (`PostsAgree`). The
  second half of `OsdComesAndGoes`, `HidingEnds`, is liveness.
* `OverlaysAlwaysAgree`, `OverlaysAreTyped`, `SignalsEndOnlyTheEnded` from
  `OverlayInv`: the same of the overlays' queue (`SignalsAgree`), and without a
  provider no overlay has a surface. Without it a late signal could take down a
  successor.
* `MonitorsAreAlwaysServed`, `SurfacesAreTyped` from `MonitorInv`: no queued
  signal has a number not yet given, so that each is of the host with its number
  or of one that is gone, whose address a new one may have; the end of a host that
  is still there is queued (`HostsInv`); and a configured host shows what it should
  from the moment its own signal has been heard (`Heard`, `ShownInv`), not only
  when the queue is empty, whatever is heard of it from an earlier one.

`MirrorsProofs` (with `Subsequences`): a theorem of each module, and five of the
composed one, `MCSpec`, whose steps are steps of each.
* `NetworkIsFollowed`, and with it `NetworkIsAlwaysTold`, from `NetworkInv`. Each
  copy of NetworkManager's state carries the version at which its reading began:
  the shown state, the reading under way and the lists are as NetworkManager is
  now if that version is the current one (`ServiceFits`, `WorkerFits`,
  `ListsFit`), a reading under way is not older than the lists, and an operation's
  effect is in them or still to be read (`EffectsFit`).
* `TrayIsKept` and `MenuPointsToTheLiving`, with them `TrayIsAlwaysTrue`. `TrayInv`
  has the registry's fields agree on one set of items (`RegistryAgrees`), rows and
  index on the same (`RowsAgree`), and, by who is the watcher, says for each item
  that is gone or new which message under way will tell (`WatcherFits`,
  `FallbackFits`). `MenuInv`: a surface points to the client that lives or to none
  (`SurfaceFits`).
* `PlayersAreShown`, the mirror's promise that is the furthest from inductive,
  from `MediaInv`. The last signal under way that moves a player says whether it
  is on the bus, and every one is preceded by signals that say it can be sent
  (`PresenceInv`); the last signal after which a status or track is known again
  carries the value it has or causes a reading, and if there is none the record
  has it or it could not be read (`ValuesInv`). Each signal then finds its player
  noticed, or not if it comes, and the last one of a player that is known chooses
  among accurate records (`ChoiceIsRight`); a player that could not be subscribed to
  changes nothing of the choice (`ChoiceInv`, `Outcome`).
* `CoversAreTold`: each call is answered, or exactly one thing is under way that
  will answer it (`OneAnswer`), and entries and files are the same covers
  (`Accounts`). With the former, `MediaIsAlwaysTrue`.
* `BluetoothIsFollowed`, `BluetoothAlwaysFollows`: the property of the chain is
  inductive with its converse, that no two requests of a chain run at once
  (`PairingIsAsked`, `DiscoveryIsSettled`).
* `ServicesAreWellFormed` for the composed module.

`DevicesProofs` (with `Subsequences`): a theorem of each component, and four of the
composed module, `DaemonsAreAlwaysMirrored`, `PowerIsAlwaysFollowed`,
`NothingEverMovesUnasked` and `ServicesAreWellFormed`.
* `StorageAlwaysAgrees` from `StorageInv`: the rows are those of devices and
  operations at every moment; what is remembered of an operation is of one that
  runs, and each error shown has the timer of its own generation (`Remembered`).
  That a timer ends no other error is then an action property. The drives known are
  those that had a row at the last refresh, hence a drive is announced once as long
  as it has one (`Announced`).
* `LowBatteryIsAlwaysTold` from `BatteryInv`: for each property on its own, the
  signals under way lead from what is shown to the device (`SignalsLead`), since
  one signal brings some properties and a later one others; and the warnings
  called for by what is shown have been sent (`IsWarned`), each flag standing for
  the one notice that was sent or found nobody (`Warned`).
* `ProfilesAreAlwaysTrue` from `ProfilesInv`: the daemon followed lives, or its end
  is under way; it is the preferred one, or that one's coming is
  (`FollowsTheLiving`, `PrefersThePreferred`); the last profile under way is the one
  it has (`EndsWith`), unless one was missed.
* `BrightnessIsAlwaysTrue`: the percentage asked for survives the way through the
  raw value, whose rounding is an inequality about quotients (`PercentIsKept`), as
  long as it is the last request under way or the one carried out; and the slider is
  where the file is, if that is watched and its last read did not fail.
* `IdleIsAlwaysTrue` from `IdleInv`: the events of a replaced notification are told
  from those of the current one, and the last of these says what the seat is
  (`LastIs`); what the poll has read is the list unless a signal was missed.
* `LayoutIsAlwaysFollowed` from `HyprlandIsTold`: what has not been read from the
  stream ends with the tail of the line that told the layout, however it is torn,
  and an answer that no event overtook is the layout.
* `WindowsAreAlwaysOrdered` from `WindowsAreOrdered`: the numbers of the history
  order the windows as they were last activated, and the cards are the windows'.
* `GroupsAreAlwaysObeyed` from `GroupsAreFollowed`: each stream is in the row of
  its application, and what it was last told is what the row was last asked.

`ServicesProofs` (with `Subsequences`): likewise a theorem of each component, and of
the composed module `ApplicationsAreAlwaysServed`, `ConfigurationAlwaysHolds`,
`CalendarIsAlwaysPassedOn` and `ServicesAreAlwaysTyped`, through `UsedInv`.
* `LaunchesAreAlwaysHonest`, `ProcessesAlwaysAnswerOnce` from `LaunchInv` and
  `GuardedInv`: at each step of the worker the unit can be in a few states only
  (`UnitFits`), and until the caller is told its timer runs (`AnswerFits`).
* `ConfigurationIsAlwaysKept` from `ConfigInv`, and from lemmas about validator,
  parser and writer for each document: what the validator accepts the parser
  keeps, and what the writer makes of it is accepted and parsed to the same if the
  names may stand bare, and otherwise refused or parsed to the rest (`SavedOf`).
* `DefaultsAlwaysSettle` from `MimeInv`: of each type one query is live, and it
  either has not read or has read what is in the files; or there is none and the
  files' default is shown (`KeyFits`).
* `ReportIsAlwaysCurrent` from `IntegrationInv`: unless another refresh will follow,
  what the workers have read is not older than the last request (`JobsFit`).
* `PortalAlwaysSettles` from `PortalInv`: by how many of the probe's calls are out
  it waits for some of them (`ProbeFits`); without a broker the service is down, or
  will be before it hears of the next (`DownFits`), with one it is up or about to
  hear of it (`UpFits`), and what it shows of it is so, or what corrects it is under
  way (`FacesFit`, `SchemeFits`, `NamesFit`).
* `FetchesAreAlwaysComplete` from `DavInv`: an event that stayed where it is is
  fetched, or its calendar is still to be asked; what is fetched was somewhere.
* `CacheIsAlwaysKept` from `CacheInv`: at each point at which a migration may end
  or a statement fail, what is missing is still to be made, and what is dropped
  still to be made again (`Migrating`); a sync's remaining statements say what the
  rows already are (`HandlerFits`).
* `RemindersAreAlwaysGiven` from `RemindersInv`: the minutes that have passed leave
  no event behind that was not looked at (`SeenNear`, `SeenBegun`).
* `LauncherAlwaysCatchesUp` from `LauncherInv`: a change of the directory is in the
  rows, or a scan is due or has yet to read (`ScanIsDue`).
* `EntriesAlwaysSettle` from `EntriesInv`: a row that has its file's stamp says what
  the file does, whichever transaction failed and whenever the shell ended, except
  where a change was overtaken (`RowHolds`); and what a scan has found is the
  files', directory by directory (`FoundIsTheFiles`).

Only model-checked:
* Liveness (`AskedIsWritten`, `RequestsAreServed`, `FetchesAgain`, `HidingEnds`),
  which is beyond the prover as `ENABLED` is.
* `WhatIsReadIsUnderstood`: what the folds of the parsers compute for any text of a
  feed or a desktop file, which needs induction over data, and the order of the
  search's scores, which has no constants: TLC enumerates it completely. The
  well-formedness of what is read is part of `ServicesAreAlwaysTyped`.

`SelectSeq` cannot be expanded by the prover, so lists of which elements are kept
are written with `SubSeqAt` and `ElementsIn`, whose lemmas are proved from a least
counterexample.

## Disagreements between code and documents

Shown by a run (see `findings`): a toast whose due timer is paused never expires;
entries loaded when history is switched on are unread and not counted; calendar
polling starts while idle; a rescan moves the launcher's selection.

Seen while modelling, without a run of their own. Where a property excepts one of
them, its comment says so. Paths are shortened to the file's name; documents are
below `docs/sdd/`.

Authentication and notifications
* `polkit/main.cpp:98`: a request that is posted but not delivered has no result
  at exit (`authentication-frontends/SPEC.md:568-569`).
* `askpass/main.cpp:199`: a SIGTERM handled in the turn of an accepted answer
  overrides its status 0 (`authentication-frontends/SPEC.md:247-250`, REQ-F-019,
  lets the answer decide). `AskpassIsHonest` excepts exactly this (`Overridden`).
* `NotificationService.cpp:564`: raising `max_visible` promotes nothing, so a
  later arrival is shown before the toasts that wait
  (`notification-daemon/SPEC.md:266`). `ToastsMoveInTurn` says that this is the
  only way to it.
* `NotificationService.cpp:220`: a replacement restarts the timer of a toast
  under the pointer (`NotificationService.h:90` says paused).
* `NotificationStore.h:20`: the snapshot buffered behind a write is lost at exit
  (`notification-history/DESIGN.md:418`); a rule's likewise.
* `NotificationStore.cpp:295`: a write in flight keeps the `persist_body` it
  started with (`notification-history/SPEC.md:155`).

Calendar and weather
* `CalendarService.cpp:151`: a removed account's provider stays in the manager
  and is fetched at the next timer; `poc-remediation-phase4/DESIGN.md:784` knows
  it. Accounts removed while the shell is off keep their events:
  `removeStaleAccounts` is called by tests only. `removeAccount`
  (`CalendarSyncManager.cpp:216`) forgets a fetch in flight, beside which that timer
  starts a second one; `OneSyncPerAccount` excepts removed accounts.
* `CalendarSyncManager.cpp:253`: reminders are keyed by uid and account name and
  kept in memory; `sidebar-upcoming-calendar/SPEC.md:344-352` adds the start time
  and rebuilds the set at start-up. A moved event is not announced again, an
  event near at a restart twice, and one that comes near without a notification
  service is taken for announced. Nothing is announced while polling is paused.
* `CalendarCache.cpp:166`: a failed `ALTER` or `DROP` is passed over and version 5
  written all the same; then every sync fails until the file is deleted. If the
  `DELETE` of the version row fails, the old row stays first and each start
  migrates again. `CalendarCache.h` says version 3, `SPEC.md:236` version 1.
* `ICalParser.cpp`: an unterminated `VALARM` swallows the events that follow it; a
  `TZID` is read as local time; recurrence is not expanded (`SPEC.md:429-437`).
* `IcsProvider.cpp:39-63` keeps the last of several entries of one uid without
  `DTSTAMP`, `SPEC.md:166` the first.
* `CalDavProvider.cpp`: when the well-known address fails for a moment the
  configured one is asked (`SPEC.md:58-68`); if that lists no calendars the fetch
  succeeds with none and the account's events are deleted. So it does when a
  successful answer is no multistatus or ends early (`:74-128` never ask the reader
  for an error), although the sync should fail on invalid XML
  (`sidebar-upcoming-calendar/SPEC.md:77`). `FetchIsComplete` excepts both. An
  event that moves between two calendars during a fetch may be missed.
* `WeatherService.cpp:569`: a cache younger than an hour starts as not stale,
  and, as no stale timer runs for it, stays so until a fetch ends
  (`weather-widget/SPEC.md:76-77`).

Surfaces
* `OsdSurface.cpp:133`: a surface that is configured, or returns with the
  provider (`TransientSurfaceHost.cpp:112`), after the hide timer fired presents
  its old content with no timer left, and stays until the next change
  (`osd-overlay/SPEC.md:238`). `OsdIsTimed` excepts exactly these two cases.
* `LauncherSurfaceLifecycle.cpp:26`: a launcher asked for while there is no
  provider and then hidden or toggled opens when the provider comes.
* `TransientSurfaceHost.cpp:121`: a window overview that returns with the
  provider is open without `opened`, so that the order of its cards is not
  frozen; `OverlaysAgree` states only the other direction.
* `ShellApplication.cpp:466` says that `SidebarManager` drops the state of an
  unplugged monitor with no signal; `SidebarManager.cpp:254` emits
  `sidebarClosed`.
* `PerMonitorLayerManager.cpp:94-98`: a host whose allocation reuses the address
  of an earlier one of the monitor is taken for it while a signal of that one is
  queued, and removed if that tells of an end. `SurfacesFollowScreens` excepts
  such a surface (`surfaceLost`).
* `MprisWidgetManager.cpp:247`: an empty answer of the artwork cache leaves the
  widget without picture until the track changes or the widget is shown again;
  `SurfacesShowTheState` allows it (`ShowsArt`).
* `PerMonitorLayerManager.cpp`: a surface that failed is not made again, nor are
  all when the layer shell returns; a reordering of the screens does not refresh
  the wallpapers that go by place; the tick timer goes on after the last shown
  surface went.

Mirrors
* `NetworkService.cpp`: `online_` stays as it was when NetworkManager stops; a
  service that finds the backend available before itself never subscribes to
  `StateChanged`. The password dialog keeps the row while the list is sorted again
  (`shared-controls-adoption/REVIEW-CHECKPOINTS.md:795-798`).
* `TrayMenuSurface.cpp`: of two requests for a menu the one answered later is
  shown.
* `MprisService.cpp:216`: a player whose first read fails is shown without status
  and track, and is chosen only when a signal brings them; one whose subscription
  fails (`:202`) is never known; of an invalidated property whose read fails
  (`:312`) the old value stays. `MediaShowsThePlayers` excepts what was so not read.
* `MprisDbus.cpp:56`: a read that overtakes the signal of a start leaves the
  player without its time of activity.
* `LauncherService.cpp`: a `.desktop` file rewritten in place, or in a directory
  not yet watched, goes unnoticed; a launch that ends after the application's
  removal makes it recent again. A file rewritten after the scan read it is cached
  with the later time and size, and its row is then taken for unchanged at every
  start (`launcher-desktop-cache/SPEC.md:65`); a table that could not be dropped is
  used under the new version.
* `MimeService.cpp`: the browser's query carries no generation, and a refresh that
  meets a running query is dropped. Only the lists that exist at the start are
  watched (`:399`), and one that is gone when its change is handled no longer is
  (`:409`): what another program writes to a list made later is not shown until
  something else causes a reading. `MimeDefaultsSettle` excepts such a change.
* `PortalService.cpp`: a direct change of the broker's owner is not noticed.
* `StorageService.cpp`: an error of the files window has no expiry timer
  (`storage-topbar-widget/SPEC.md:249`); a drive may be ejected while its other
  volume is busy. A drive that stays connected is announced again when its medium or
  its last volume comes back (as `SPEC.md:183-187` has it, "not present in the
  previous refresh cycle").
* `IdleService.cpp`: replacing the threshold's notification while idle leaves
  `isIdle` true; a vanished client keeps its inhibitor.
* `BatteryService.cpp:78-80` promises the warnings a consistent state; presence is
  set before the level and the discharging flag, so that a battery put back in is
  warned of at the level it had when it was taken out.
* `LowBatteryMonitor.cpp:79-90` marks a warning as sent before it asks whether there
  is a notification service (`:98-101`): a notice that finds none is not sent later
  in this discharge (`power-extensions/SPEC.md:88-98`, REQ-F-007 and 008, have one
  fired). `LowBatteryIsTold` counts it as lost.
* `SysfsBackend.cpp`: a read that fails shows 0 until the next event (`:98`); without
  an inotify watch the slider stays where it was at the start (`:82-92`); without a
  logind session nothing is set, and nobody is told (`:100-104`). `BrightnessIsTrue`
  excepts the first two; of the third nothing was asked.
* `PowerProfilesService.cpp`: no fall-back to the preferred name while the legacy
  one stays. A daemon that takes the name over while it is owned is neither
  registered nor unregistered (`:56-62`), so its profile is not read before it
  changes, although detection is to re-run when the daemon is restarted (`:48-50`).
  `ProfilesAreTrue` excepts it.
* `ShellHyprlandIpcClient.cpp`: the query is skipped at a reconnect while a command
  runs, a failed query is not repeated, an event that overtakes its answer is
  overwritten by it, the line buffer survives a reconnect, and a stale connect
  timer aborts the new socket
  (`poc-readiness-review/units/U-01-foundational-core.md:38`).

Configuration
* `ConfigWriter.cpp` drops `[logo]`, and writes the names of accounts and overrides
  into headers without quotes (`:34`, `:107`, `:124`): of an accepted document with
  a name that has a blank it makes one that no start can read, and a name with a
  dot becomes a table within another, which is lost or makes the document refused.
  `SavingKeepsMeaning` says just this. (A name with quotes or a newline of its own
  could become any header; the model has none.)
* `ConfigSchema.cpp:288` checks the included and excluded calendars of an iCalendar
  account, which `parseCalendarIcsAccounts` passes over. `AcceptedIsKept` excepts
  them.
* `ConfigParsers.cpp:527` says that a disabled widget of unknown type is never
  rejected; `validateWidget` in `ConfigSchema.cpp` rejects it. An undated draft
  of a disabled countdown is written back with an empty deadline.

## Not modelled

* Of modelled components: QML layout and animation, geometry, icon and colour
  tables, unit formatting, texts, logging; JSON and SQL syntax (their results are
  model values); recurrence rules and time zones of calendars; execution lines,
  icons and categories of applications; VPN, strengths and speeds of the
  network; positions and metadata of players; the pairing agent's dialogs; UDisks
  going away after the first snapshot; times and health of the battery; slots and groups of windows; Polkit's session
  registration. `PROJECT.json` says for each component what is left out.
* Not modelled: the notification D-Bus server, which decodes and forwards; system
  information, a periodic snapshot; session commands and window activation, which
  start and forward; appearance, weather icons and logging, tables and output;
  the QML user interface, which appears as user input; packaging and scripts.
* Environment: the Qt event loop, polkitd, PAM, UPower, NetworkManager, BlueZ,
  UDisks, logind, systemd, the compositor, servers and the user appear as actions
  that are enabled whenever the code would accept them. `DocumentWatcher` and the
  device controllers are libraries outside the repository: the first is assumed to
  report every change, the others to answer every request or to lose the device.
