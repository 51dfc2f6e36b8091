-------------------------------- MODULE Power --------------------------------
(***************************************************************************)
(* The power of the session: its battery, its profile, its backlight, and  *)
(* whether the user is idle.                                               *)
(*                                                                         *)
(* BatteryService, which follows one UPower device, and LowBatteryMonitor, *)
(* which warns once in a discharge cycle.  UPower puts any of the changed  *)
(* properties in one signal; the setters run one after the other and each  *)
(* one tells the monitor at once.                                          *)
(***************************************************************************)
EXTENDS Integers, Sequences, FiniteSets

CONSTANTS Percents,      \* charges UPower reports
          Warning,       \* warningThreshold
          Critical,      \* criticalThreshold, as configured
          MaxBatterySignals     \* bound: signals on their way

VARIABLES
  batteryDevice,  \* UPower's device
  batteryInbox,   \* its PropertiesChanged signals on their way: the device and the names that changed
  battery,        \* BatteryService, with where start() is and whether a change was lost to it
  batteryWarned   \* warning_sent_ and critical_sent_; ghosts of this discharge: the notices that reached a
                  \* notification service, those that found none, and whether one was sent again

batteryVars == <<batteryDevice, batteryInbox, battery, batteryWarned>>

States == {"charging", "discharging", "fully_charged", "unknown"}
Names == {"State", "Percentage", "IsPresent"}
Levels == {"warning", "critical"}
\* UPower says nothing of the state of a battery that is absent.
Devices == {d \in [state : States, percent : Percents, present : BOOLEAN] : d.present \/ d.state = "unknown"}

BatteryTypeOK ==
  /\ batteryDevice \in Devices
  /\ batteryInbox \in Seq([device : Devices, changed : SUBSET Names])
  /\ battery \in [charging : BOOLEAN, discharging : BOOLEAN, fully : BOOLEAN, present : BOOLEAN,
                  percent : Percents \cup {0}, stage : {"new", "read", "started"}, missed : BOOLEAN]
  /\ batteryWarned \in [warning : BOOLEAN, critical : BOOLEAN, told : SUBSET Levels, lost : SUBSET Levels, again : BOOLEAN]

\* A critical threshold that is not below the warning is clamped under it.
CriticalThreshold == IF Critical >= Warning THEN Warning - 1 ELSE Critical

NoneSent == [warning |-> FALSE, critical |-> FALSE, told |-> {}, lost |-> {}, again |-> FALSE]

BatteryInit ==
  /\ batteryDevice \in Devices /\ batteryInbox = <<>>
  /\ battery = [charging |-> FALSE, discharging |-> FALSE, fully |-> FALSE, present |-> FALSE, percent |-> 0,
                stage |-> "new", missed |-> FALSE]
  /\ batteryWarned = NoneSent

----------------------------------------------------------------------------
(* LowBatteryMonitor.                                                      *)

\* sendNotification: nothing is sent when there is no notification service; heard are the
\* levels whose notice finds one.
SendNotification(sent, level, heard) ==
  IF level \in heard THEN [sent EXCEPT !.told = @ \cup {level}, !.again = @ \/ level \in sent.told]
  ELSE [sent EXCEPT !.lost = @ \cup {level}]

\* The flags are set before the notice is sent, and are not taken back.
CheckThresholds(sent, b, heard) ==
  IF b.discharging /\ b.percent <= CriticalThreshold /\ ~sent.critical
  THEN SendNotification([sent EXCEPT !.critical = TRUE, !.warning = TRUE], "critical", heard)
  ELSE IF b.discharging /\ b.percent <= Warning /\ ~sent.warning
       THEN SendNotification([sent EXCEPT !.warning = TRUE], "warning", heard)
       ELSE sent

\* onChargingChanged, onFullyChargedChanged and the absent half of onPresentChanged.
ResetBy(sent, before, after) ==
  IF \/ after.charging /\ ~before.charging
     \/ after.fully /\ ~before.fully
     \/ ~after.present /\ before.present THEN NoneSent ELSE sent

----------------------------------------------------------------------------
(* BatteryService.                                                         *)

BatteryWith(b, device, changed) ==
  [b EXCEPT !.charging = IF "State" \in changed THEN device.state = "charging" ELSE @,
            !.fully = IF "State" \in changed THEN device.state = "fully_charged" ELSE @,
            !.present = IF "IsPresent" \in changed THEN device.present ELSE @]

\* Mutant: a change of discharging is not checked.
ApplyUnchecked(b, sent, device, changed, heard) ==
  LET flags == BatteryWith(b, device, changed)
      percent == [flags EXCEPT !.percent = IF "Percentage" \in changed THEN device.percent ELSE @] IN
  [battery |-> [percent EXCEPT !.discharging = IF "State" \in changed THEN device.state = "discharging" ELSE @],
   sent |-> IF percent.percent # b.percent THEN CheckThresholds(ResetBy(sent, b, flags), percent, heard)
            ELSE ResetBy(sent, b, flags)]

\* applyStateUpdate: the resets, then percent with the discharging of before, then discharging.
ApplyStateUpdate(b, sent, device, changed, heard) ==
  LET flags == BatteryWith(b, device, changed)
      reset == ResetBy(sent, b, flags)
      inserted == IF flags.present /\ ~b.present THEN CheckThresholds(reset, flags, heard) ELSE reset
      percent == [flags EXCEPT !.percent = IF "Percentage" \in changed THEN device.percent ELSE @]
      charge == IF percent.percent # b.percent THEN CheckThresholds(inserted, percent, heard) ELSE inserted
      last == [percent EXCEPT !.discharging = IF "State" \in changed THEN device.state = "discharging" ELSE @] IN
  [battery |-> last,
   sent |-> IF last.discharging # b.discharging THEN CheckThresholds(charge, last, heard) ELSE charge]

BatteryTakes(b, device, changed) ==
  \E heard \in SUBSET Levels :
    LET applied == ApplyStateUpdate(b, batteryWarned, device, changed, heard) IN
    battery' = applied.battery /\ batteryWarned' = applied.sent

\* start: GetAll comes before the subscription.
ReadProperties ==
  /\ battery.stage = "new"
  /\ \/ BatteryTakes([battery EXCEPT !.stage = "read"], batteryDevice, Names)
     \/ battery' = [battery EXCEPT !.stage = "read", !.missed = TRUE] /\ UNCHANGED batteryWarned
  /\ UNCHANGED <<batteryDevice, batteryInbox>>

ConnectSignal ==
  /\ battery.stage = "read" /\ battery' = [battery EXCEPT !.stage = "started"]
  /\ UNCHANGED <<batteryDevice, batteryInbox, batteryWarned>>

OnPropertiesChanged ==
  /\ batteryInbox # <<>> /\ batteryInbox' = Tail(batteryInbox)
  /\ BatteryTakes(battery, Head(batteryInbox).device, Head(batteryInbox).changed)
  /\ UNCHANGED batteryDevice

\* UPower: what changed is signalled to those who subscribed.
DeviceChanges ==
  /\ \E device \in Devices \ {batteryDevice} :
       LET changed == {n \in Names : CASE n = "State" -> device.state # batteryDevice.state
                                       [] n = "Percentage" -> device.percent # batteryDevice.percent
                                       [] n = "IsPresent" -> device.present # batteryDevice.present} IN
       /\ batteryDevice' = device
       /\ IF battery.stage = "started"
          THEN Len(batteryInbox) < MaxBatterySignals
               /\ batteryInbox' = Append(batteryInbox, [device |-> device, changed |-> changed])
               /\ UNCHANGED battery
          ELSE battery' = [battery EXCEPT !.missed = @ \/ battery.stage = "read"] /\ UNCHANGED batteryInbox
  /\ UNCHANGED batteryWarned

BatteryNext == ReadProperties \/ ConnectSignal \/ OnPropertiesChanged \/ DeviceChanges

----------------------------------------------------------------------------
(* Properties.                                                             *)

\* Of a battery that is present, discharging and low a notice was sent in this cycle, of the
\* level it is at, and no notice is sent twice: the user was told, unless there was no
\* notification service at that moment, which is not tried again.  What is shown is the
\* device, once its signals are heard, unless it changed between GetAll and the subscription.
LowBatteryIsTold ==
  /\ battery.present /\ battery.discharging =>
       /\ battery.percent <= Warning => batteryWarned.told \cup batteryWarned.lost # {}
       /\ battery.percent <= CriticalThreshold => "critical" \in batteryWarned.told \cup batteryWarned.lost
  /\ ~batteryWarned.again /\ batteryWarned.told \cap batteryWarned.lost = {}
  /\ ~battery.charging \/ ~battery.discharging
  /\ battery.stage # "new" /\ batteryInbox = <<>> /\ ~battery.missed =>
       /\ battery.percent = batteryDevice.percent /\ battery.present = batteryDevice.present
       /\ battery.charging = (batteryDevice.state = "charging")
       /\ battery.discharging = (batteryDevice.state = "discharging")
       /\ battery.fully = (batteryDevice.state = "fully_charged")

----------------------------------------------------------------------------
(***************************************************************************)
(* PowerProfilesService.  Two bus names may hold the daemon; the preferred *)
(* one is followed.  initFromService blocks between its steps, and nothing *)
(* of the inbox is heard meanwhile.  profileMissed is a ghost: a change    *)
(* the service could not hear after it read, or failed to subscribe to.    *)
(***************************************************************************)

CONSTANTS Preferred, Legacy,   \* kFreedesktopService and kHadessService
          Profiles,            \* active profiles
          NoDaemon,            \* no service is followed
          MaxProfileSignals           \* bound: signals on their way

\* A profile is not called like the bus's news of an owner, nor like no profile.
ASSUME ProfilesAssumption ==
  /\ Preferred # Legacy /\ NoDaemon \notin {Preferred, Legacy} \cup Profiles
  /\ {"registered", "unregistered"} \cap Profiles = {}

VARIABLES
  profileDaemons,  \* the names that are owned, and the profile of each
  profileInbox,    \* NameOwnerChanged and PropertiesChanged on their way
  profiles,        \* service_, available_, active_profile_, the subscription and where init is
  profileMissed

profileVars == <<profileDaemons, profileInbox, profiles, profileMissed>>

DaemonNames == {Preferred, Legacy}

ProfileTypeOK ==
  /\ profileDaemons \in [owned : SUBSET DaemonNames, active : [DaemonNames -> Profiles]]
  /\ profileInbox \in Seq([name : DaemonNames, kind : {"registered", "unregistered"} \cup Profiles])
  /\ profiles \in [service : DaemonNames \cup {NoDaemon}, available : BOOLEAN, connected : BOOLEAN,
                   active : Profiles \cup {NoDaemon}, read : Profiles \cup {NoDaemon},
                   stage : {"new", "choose", "read", "connect", "quiet"}]
  /\ profileMissed \in BOOLEAN

Cleared == [service |-> NoDaemon, available |-> FALSE, connected |-> FALSE, active |-> NoDaemon,
            read |-> NoDaemon, stage |-> "quiet"]

ProfilesInit ==
  /\ profileDaemons \in [owned : SUBSET DaemonNames, active : [DaemonNames -> Profiles]]
  /\ profileInbox = <<>> /\ profiles = [Cleared EXCEPT !.stage = "new"] /\ profileMissed = FALSE

----------------------------------------------------------------------------
(* initFromService.                                                        *)

\* start: the watcher first.
StartProfiles ==
  /\ profiles.stage = "new" /\ profiles' = [profiles EXCEPT !.stage = "choose"]
  /\ UNCHANGED <<profileDaemons, profileInbox, profileMissed>>

\* The newer name, then the legacy one.
ChosenService(owned) ==
  IF Preferred \in owned THEN Preferred ELSE IF Legacy \in owned THEN Legacy ELSE NoDaemon

ChooseService ==
  /\ profiles.stage = "choose"
  /\ LET service == ChosenService(profileDaemons.owned) IN
     profiles' = IF service = NoDaemon THEN Cleared
                 ELSE [profiles EXCEPT !.connected = FALSE, !.service = service, !.stage = "read"]
  /\ UNCHANGED <<profileDaemons, profileInbox, profileMissed>>

Stale(service) == \E i \in DOMAIN profileInbox : profileInbox[i].name = service /\ profileInbox[i].kind \in Profiles

\* GetAll fails when the daemon went meanwhile, whose unregistration is on its way, or for its own reasons.
ReadProfiles ==
  /\ profiles.stage = "read"
  /\ \/ /\ profiles.service \in profileDaemons.owned
        /\ profiles' = [profiles EXCEPT !.stage = "connect", !.read = profileDaemons.active[profiles.service]]
        /\ profileMissed' = Stale(profiles.service)
     \/ profiles' = Cleared /\ profileMissed' = (profiles.service \in profileDaemons.owned)
  /\ UNCHANGED <<profileDaemons, profileInbox>>

ConnectProfiles ==
  /\ profiles.stage = "connect"
  /\ \/ /\ profiles' = [profiles EXCEPT !.stage = "quiet", !.connected = TRUE, !.active = profiles.read,
                                        !.read = NoDaemon, !.available = TRUE]
        /\ UNCHANGED profileMissed
     \/ profiles' = Cleared /\ profileMissed' = TRUE
  /\ UNCHANGED <<profileDaemons, profileInbox>>

----------------------------------------------------------------------------
(* What the bus says.                                                      *)

\* serviceUnregistered: the state is cleared when it was this service's.
DaemonGone(p, name) == IF p.service = name THEN Cleared ELSE p

HearBus ==
  /\ profiles.stage = "quiet" /\ profileInbox # <<>> /\ profileInbox' = Tail(profileInbox)
  /\ LET m == Head(profileInbox) IN
     profiles' = CASE m.kind = "registered" -> [profiles EXCEPT !.stage = "choose"]
                   [] m.kind = "unregistered" -> DaemonGone(profiles, m.name)
                   [] m.kind \in Profiles ->
                        IF profiles.connected /\ m.name = profiles.service THEN [profiles EXCEPT !.active = m.kind]
                        ELSE profiles
  /\ UNCHANGED <<profileDaemons, profileMissed>>

ProfileRoom == Len(profileInbox) < MaxProfileSignals

\* A daemon starts: initFromService will run for it.
DaemonStarts(name) ==
  /\ name \notin profileDaemons.owned /\ ProfileRoom
  /\ \E p \in Profiles : profileDaemons' = [profileDaemons EXCEPT !.owned = @ \cup {name}, !.active[name] = p]
  /\ profileInbox' = Append(profileInbox, [name |-> name, kind |-> "registered"])
  /\ UNCHANGED <<profiles, profileMissed>>

DaemonStops(name) ==
  /\ name \in profileDaemons.owned /\ ProfileRoom
  /\ profileDaemons' = [profileDaemons EXCEPT !.owned = @ \ {name}]
  /\ profileInbox' = Append(profileInbox, [name |-> name, kind |-> "unregistered"])
  /\ UNCHANGED <<profiles, profileMissed>>

\* Another daemon takes the name over, with another profile: the bus says neither registered
\* nor unregistered, and nothing is read.
DaemonReplaced(name) ==
  /\ name \in profileDaemons.owned
  /\ \E p \in Profiles \ {profileDaemons.active[name]} : profileDaemons' = [profileDaemons EXCEPT !.active[name] = p]
  /\ profileMissed' = (profileMissed \/ (profiles.service = name /\ (profiles.connected \/ profiles.stage = "connect")))
  /\ UNCHANGED <<profileInbox, profiles>>

\* The daemon's profile changes, on its own or by setProfile, which changes nothing here.
ProfileChanges(name) ==
  /\ name \in profileDaemons.owned /\ ProfileRoom
  /\ \E p \in Profiles \ {profileDaemons.active[name]} :
       /\ profileDaemons' = [profileDaemons EXCEPT !.active[name] = p]
       /\ IF profiles.connected /\ profiles.service = name
          THEN profileInbox' = Append(profileInbox, [name |-> name, kind |-> p]) /\ UNCHANGED profileMissed
          ELSE /\ profileMissed' = (profileMissed \/ profiles.stage = "connect")
               /\ UNCHANGED profileInbox
  /\ UNCHANGED profiles

ProfilesNext ==
  \/ StartProfiles \/ ChooseService \/ ReadProfiles \/ ConnectProfiles \/ HearBus
  \/ \E name \in DaemonNames : DaemonStarts(name) \/ DaemonStops(name) \/ DaemonReplaced(name) \/ ProfileChanges(name)

----------------------------------------------------------------------------
(* Properties.                                                             *)

\* Once the bus is heard, the service followed is owned, is the preferred one when that is
\* owned, and its profile is the one shown; a followed service is available, any other clears.
\* A change the service could not hear, and the other profile of a daemon that took the name
\* over while it was owned, are excused until it reads again.
ProfilesAreTrue ==
  /\ profiles.stage = "quiet" =>
       /\ profiles.available = (profiles.service # NoDaemon)
       /\ profiles.connected = profiles.available
       /\ ~profiles.available => profiles.active = NoDaemon
  /\ profiles.stage = "quiet" /\ profileInbox = <<>> /\ ~profileMissed =>
       /\ profiles.available => profiles.service \in profileDaemons.owned
       /\ Preferred \in profileDaemons.owned => profiles.service = Preferred
       /\ profiles.available => profiles.active = profileDaemons.active[profiles.service]

----------------------------------------------------------------------------
(* BrightnessService over SysfsBackend: SetBrightness calls go to logind   *)
(* without waiting, the file's inotify events are drained before one read, *)
(* and a percentage stands for a raw value.                                *)

CONSTANTS MaxBrightness,  \* max_brightness of the device
          Requests,       \* percentages asked for
          Keys,           \* raw values the keys set
          MaxBrightnessCalls        \* bound: SetBrightness calls on their way

ASSUME BrightnessAssumption ==
  MaxBrightness \in Nat /\ Keys \subseteq 0..MaxBrightness /\ Requests \subseteq Int

VARIABLES
  backlight,         \* the kernel's raw value
  backlightCalls,    \* SetBrightness calls logind has not carried out
  backlightEvents,   \* inotify has something to read
  brightness,        \* brightness_percent_
  brightnessBackend, \* SysfsBackend: is the file watched, is there a logind session; ghost: did the last read fail
  brightnessWanted   \* ghost: what was asked last, if no key and no failure came after it

brightnessVars == <<backlight, backlightCalls, backlightEvents, brightness, brightnessBackend, brightnessWanted>>

Nothing == -1
Raws == 0..MaxBrightness

BrightnessTypeOK ==
  /\ backlight \in Raws /\ backlightCalls \in Seq(Raws) /\ backlightEvents \in BOOLEAN
  /\ brightness \in 0..100 /\ brightnessWanted \in {Nothing} \cup (0..100)
  /\ brightnessBackend \in [watched : BOOLEAN, session : BOOLEAN, failed : BOOLEAN]

Clamp(low, x, high) == IF x < low THEN low ELSE IF x > high THEN high ELSE x

\* std::round of a / b, both positive.
Round(a, b) == (2 * a + b) \div (2 * b)

ComputePercent(raw) == IF MaxBrightness = 0 THEN 0 ELSE Clamp(0, Round(raw * 100, MaxBrightness), 100)

RawOf(percent) == Round(Clamp(0, percent, 100) * MaxBrightness, 100)

\* readBrightness, a failure of which counts as 0.
BrightnessRead(failed) == ComputePercent(IF failed THEN 0 ELSE backlight)

\* The backend asks for the session and watches the file, if it can, before the service reads it.
BrightnessInit ==
  /\ backlight \in Keys /\ backlightCalls = <<>> /\ backlightEvents = FALSE
  /\ brightnessBackend \in [watched : BOOLEAN, session : BOOLEAN, failed : BOOLEAN]
  /\ brightness = BrightnessRead(brightnessBackend.failed) /\ brightnessWanted = Nothing

\* Without a session nothing is asked for.
SetBrightnessPercent(percent) ==
  /\ Len(backlightCalls) < MaxBrightnessCalls
  /\ IF brightnessBackend.session
     THEN backlightCalls' = Append(backlightCalls, RawOf(percent)) /\ brightnessWanted' = Clamp(0, percent, 100)
     ELSE UNCHANGED backlightCalls /\ brightnessWanted' = Nothing
  /\ UNCHANGED <<backlight, backlightEvents, brightness, brightnessBackend>>

\* logind writes the file, or the call fails.
LogindWrites ==
  /\ backlightCalls # <<>> /\ backlightCalls' = Tail(backlightCalls)
  /\ \/ /\ backlight' = Head(backlightCalls) /\ backlightEvents' = brightnessBackend.watched
        /\ UNCHANGED brightnessWanted
     \/ brightnessWanted' = Nothing /\ UNCHANGED <<backlight, backlightEvents>>
  /\ UNCHANGED <<brightness, brightnessBackend>>

KeyPressed(raw) ==
  /\ backlight' = raw /\ backlightEvents' = brightnessBackend.watched /\ brightnessWanted' = Nothing
  /\ UNCHANGED <<backlightCalls, brightness, brightnessBackend>>

\* onInotifyEvent and onBrightnessChanged
OnInotifyEvent ==
  /\ backlightEvents /\ backlightEvents' = FALSE
  /\ \E failed \in BOOLEAN : /\ brightness' = BrightnessRead(failed)
                            /\ brightnessBackend' = [brightnessBackend EXCEPT !.failed = failed]
  /\ UNCHANGED <<backlight, backlightCalls, brightnessWanted>>

BrightnessNext ==
  \/ \E p \in Requests : SetBrightnessPercent(p)
  \/ LogindWrites \/ OnInotifyEvent \/ \E raw \in Keys : KeyPressed(raw)

\* Once calls and events are handled the slider is at the file's value, and at what was asked
\* last when the device has a step for each percentage, provided that the file is watched and
\* the last read did not fail; after one that failed the slider is at 0 until the next event.
BrightnessIsTrue ==
  /\ brightnessBackend.failed => brightness = 0
  /\ backlightCalls = <<>> /\ ~backlightEvents /\ brightnessBackend.watched /\ ~brightnessBackend.failed =>
       /\ brightness = ComputePercent(backlight)
       /\ brightnessWanted # Nothing /\ MaxBrightness >= 100 => brightness = brightnessWanted

----------------------------------------------------------------------------
(***************************************************************************)
(* IdleService and its ext-idle-notify backend, the keep-awake and         *)
(* ScreenSaver inhibitors held at logind, and the poll of the suspend      *)
(* inhibitors.  The compositor, logind and busctl answer asynchronously.   *)
(***************************************************************************)

CONSTANTS Inhibitors,   \* entries of logind's list
          MaxEvents,    \* bound: compositor events on their way
          MaxObjects,   \* bound: notification objects made
          MaxCookies    \* bound: next_cookie_

ASSUME IdleAssumption == MaxObjects \in Nat /\ MaxCookies \in Nat

VARIABLES
  idleSeat,      \* the compositor: the global, whether the user is idle, what it told each object
  idleEvents,    \* its events on their way: an object, and idled or resumed
  idleBackend,   \* backend_active_, tracker_idle_, threshold_ms_ and the thresholder_
  idle,          \* is_idle_, idle_backend_available_, user_inhibited_ and its inhibitor
  screenSaver,   \* inhibit_cookies_, next_cookie_ and the inhibitor
  sleepList,     \* logind's inhibitors, as they are and as the model shows them
  sleepPoll      \* SuspendInhibitorService: its timer, busctl process and pause

idleVars == <<idleSeat, idleEvents, idleBackend, idle, screenSaver, sleepList, sleepPoll>>

None == 0
Objects == 1..MaxObjects

IdleTypeOK ==
  /\ idleSeat.global \in BOOLEAN /\ idleSeat.away \in BOOLEAN
  /\ idleSeat.made \in 0..MaxObjects /\ idleSeat.idled \subseteq Objects
  /\ \A i \in DOMAIN idleEvents : idleEvents[i].object \in Objects \cup {None}
  /\ idleBackend.active \in BOOLEAN /\ idleBackend.object \in Objects \cup {None}
  /\ idle \in [idle : BOOLEAN, available : BOOLEAN, inhibited : BOOLEAN, fd : BOOLEAN, replaced : BOOLEAN]
  /\ screenSaver.cookies \subseteq 1..MaxCookies /\ screenSaver.next \in 1..(MaxCookies + 1)
  /\ screenSaver.fd \in BOOLEAN
  /\ sleepList.now \subseteq Inhibitors /\ sleepList.shown \subseteq Inhibitors /\ sleepList.missed \in BOOLEAN
  /\ sleepPoll.process \in {"none", "running", "killed", "read"} /\ sleepPoll.inFlight \in BOOLEAN
  /\ sleepPoll.paused \in BOOLEAN /\ sleepPoll.timer \in BOOLEAN /\ sleepPoll.entries \subseteq Inhibitors

IdleInit ==
  /\ idleSeat = [global |-> FALSE, away |-> FALSE, made |-> 0, idled |-> {}]
  /\ idleEvents = <<>>
  /\ idleBackend = [active |-> FALSE, object |-> None]
  /\ idle = [idle |-> FALSE, available |-> FALSE, inhibited |-> FALSE, fd |-> FALSE, replaced |-> FALSE]
  /\ screenSaver = [cookies |-> {}, next |-> 1, fd |-> FALSE]
  /\ sleepList = [now |-> {}, shown |-> {}, missed |-> FALSE]
  /\ sleepPoll = [process |-> "none", inFlight |-> FALSE, paused |-> FALSE, timer |-> FALSE, entries |-> {}]

----------------------------------------------------------------------------
(* The compositor.                                                         *)

IdleOthers == UNCHANGED <<screenSaver, sleepList, sleepPoll>>

\* The threshold passes without input: the object is told once.
UserLeaves ==
  /\ ~idleSeat.away /\ Len(idleEvents) < MaxEvents
  /\ idleSeat' = [idleSeat EXCEPT !.away = TRUE,
                                  !.idled = IF idleBackend.object = None THEN @ ELSE @ \cup {idleBackend.object}]
  /\ idleEvents' = IF idleBackend.object = None THEN idleEvents
                   ELSE Append(idleEvents, [object |-> idleBackend.object, idled |-> TRUE])
  /\ UNCHANGED <<idleBackend, idle>> /\ IdleOthers

\* The object that was replaced while idle is idled too when its own threshold passes.
LateThreshold ==
  /\ idleSeat.away /\ idleBackend.object # None /\ idleBackend.object \notin idleSeat.idled
  /\ Len(idleEvents) < MaxEvents
  /\ idleSeat' = [idleSeat EXCEPT !.idled = @ \cup {idleBackend.object}]
  /\ idleEvents' = Append(idleEvents, [object |-> idleBackend.object, idled |-> TRUE])
  /\ UNCHANGED <<idleBackend, idle>> /\ IdleOthers

\* Input: only an object that was told idled is told resumed.
UserReturns ==
  /\ idleSeat.away /\ Len(idleEvents) < MaxEvents
  /\ idleSeat' = [idleSeat EXCEPT !.away = FALSE, !.idled = {}]
  /\ idleEvents' = IF idleBackend.object \in idleSeat.idled
                   THEN Append(idleEvents, [object |-> idleBackend.object, idled |-> FALSE]) ELSE idleEvents
  /\ UNCHANGED <<idleBackend, idle>> /\ IdleOthers

\* onGlobalActiveChanged: createNotifications, or destroyNotifications without a word.
GlobalTurns ==
  /\ idleSeat.global \/ idleSeat.made < MaxObjects
  /\ LET active == ~idleSeat.global
         object == IF active THEN idleSeat.made + 1 ELSE None IN
     /\ idleSeat' = [idleSeat EXCEPT !.global = active, !.idled = {}, !.made = IF active THEN @ + 1 ELSE @]
     /\ idleBackend' = [idleBackend EXCEPT !.active = active, !.object = object]
     /\ idle' = [idle EXCEPT !.available = active, !.replaced = @ \/ idle.idle \/ idleEvents # <<>>]
  /\ UNCHANGED idleEvents /\ IdleOthers

\* setIdleThresholdMs and updateThreshold: the notification is made anew.
SetIdleThreshold ==
  /\ idleSeat.global /\ idleSeat.made < MaxObjects
  /\ idleSeat' = [idleSeat EXCEPT !.made = @ + 1, !.idled = {}]
  /\ idleBackend' = [idleBackend EXCEPT !.object = idleSeat.made + 1]
  /\ idle' = [idle EXCEPT !.replaced = @ \/ idle.idle \/ idleEvents # <<>>]
  /\ UNCHANGED idleEvents /\ IdleOthers

\* onThresholdExceeded
OnThresholdExceeded(i, idled) == [i EXCEPT !.idle = idled, !.replaced = FALSE]

\* An event of an object that was destroyed is dropped.
IdleEvent ==
  /\ idleEvents # <<>> /\ idleEvents' = Tail(idleEvents)
  /\ idle' = IF Head(idleEvents).object = idleBackend.object
             THEN OnThresholdExceeded(idle, Head(idleEvents).idled) ELSE idle
  /\ UNCHANGED <<idleSeat, idleBackend>> /\ IdleOthers

----------------------------------------------------------------------------
(* The inhibitors.                                                         *)

\* IdleInhibitor::acquire: logind may refuse.
SetIdleInhibited(held) ==
  /\ idle.inhibited # held
  /\ idle' \in IF held THEN {[idle EXCEPT !.inhibited = TRUE, !.fd = TRUE], idle}
               ELSE {[idle EXCEPT !.inhibited = FALSE, !.fd = FALSE]}
  /\ UNCHANGED <<idleSeat, idleEvents, idleBackend>> /\ IdleOthers

Inhibit ==
  /\ screenSaver.next <= MaxCookies
  /\ \/ screenSaver' = [screenSaver EXCEPT !.cookies = @ \cup {screenSaver.next}, !.next = @ + 1, !.fd = TRUE]
     \/ screenSaver.cookies = {} /\ UNCHANGED screenSaver
  /\ UNCHANGED <<idleSeat, idleEvents, idleBackend, idle, sleepList, sleepPoll>>

\* The inhibitor is kept while a cookie is left.
KeepsInhibitor(cookies) == cookies # {}

UnInhibit(c) ==
  /\ LET left == screenSaver.cookies \ {c} IN
     screenSaver' = IF c \notin screenSaver.cookies THEN screenSaver
                    ELSE [screenSaver EXCEPT !.cookies = left, !.fd = @ /\ KeepsInhibitor(left)]
  /\ UNCHANGED <<idleSeat, idleEvents, idleBackend, idle, sleepList, sleepPoll>>

----------------------------------------------------------------------------
(* The list of suspend inhibitors.                                         *)

PollOthers == UNCHANGED <<idleSeat, idleEvents, idleBackend, idle, screenSaver>>

InhibitorsChange(i) ==
  /\ sleepList' = [sleepList EXCEPT !.now = IF i \in @ THEN @ \ {i} ELSE @ \cup {i}, !.missed = TRUE]
  /\ UNCHANGED sleepPoll /\ PollOthers

\* poll and startAsyncPoll: one busctl at a time.
Poll(p) == IF p.inFlight THEN p ELSE [p EXCEPT !.inFlight = TRUE, !.process = "running"]

\* start, the timer every 5 seconds, and resumeActivity.
PollDue ==
  /\ ~sleepPoll.paused
  /\ sleepPoll' = [Poll(sleepPoll) EXCEPT !.timer = TRUE]
  /\ UNCHANGED sleepList /\ PollOthers

PausePolls ==
  /\ ~sleepPoll.paused /\ sleepPoll' = [sleepPoll EXCEPT !.paused = TRUE, !.timer = FALSE]
  /\ UNCHANGED sleepList /\ PollOthers

ResumePolls ==
  /\ sleepPoll.paused /\ sleepPoll' = [Poll([sleepPoll EXCEPT !.paused = FALSE]) EXCEPT !.timer = TRUE]
  /\ UNCHANGED sleepList /\ PollOthers

\* busctl reads; missed is whether the list changed since the last reading that counts.
BusctlReads ==
  /\ sleepPoll.process = "running"
  /\ sleepPoll' = [sleepPoll EXCEPT !.process = "read", !.entries = sleepList.now]
  /\ sleepList' = [sleepList EXCEPT !.missed = FALSE] /\ PollOthers

\* The timeout kills it; the end of a killed process is reported like any other.
BusctlTimeout ==
  /\ sleepPoll.process \in {"running", "read"}
  /\ sleepPoll' = [sleepPoll EXCEPT !.process = "killed"]
  /\ sleepList' = [sleepList EXCEPT !.missed = TRUE] /\ PollOthers

\* finishAsyncPoll and the failure to start: the poll is over in every case.
PollEnds(p, ok) == [p EXCEPT !.inFlight = FALSE]

BusctlEnds ==
  /\ sleepPoll.process # "none"
  /\ LET ok == sleepPoll.process = "read" IN
     /\ sleepPoll' = [PollEnds(sleepPoll, ok) EXCEPT !.process = "none", !.entries = {}]
     /\ sleepList' = IF ok /\ ~sleepPoll.paused THEN [sleepList EXCEPT !.shown = sleepPoll.entries]
                     ELSE [sleepList EXCEPT !.missed = TRUE]
  /\ PollOthers

IdleNext ==
  \/ UserLeaves \/ LateThreshold \/ UserReturns \/ GlobalTurns \/ SetIdleThreshold \/ IdleEvent
  \/ \E held \in BOOLEAN : SetIdleInhibited(held)
  \/ Inhibit \/ \E c \in 1..MaxCookies : UnInhibit(c)
  \/ \E i \in Inhibitors : InhibitorsChange(i)
  \/ PollDue \/ PausePolls \/ ResumePolls \/ BusctlReads \/ BusctlTimeout \/ BusctlEnds

----------------------------------------------------------------------------
(* Properties.                                                             *)

\* Once the compositor's events are heard, idle is what the user is, unless the
\* notification was made anew while idle and has said nothing since; an inhibitor is held
\* exactly for a keep-awake that was granted and while a ScreenSaver cookie is left.
IdleIsTrue ==
  /\ idleEvents = <<>> /\ ~idle.replaced /\ idleBackend.object # None
       /\ (idleSeat.away => idleBackend.object \in idleSeat.idled) => idle.idle = idleSeat.away
  /\ idle.available = idleSeat.global
  /\ idle.fd = idle.inhibited
  /\ screenSaver.fd = (screenSaver.cookies # {})

\* A poll in flight always has a process that will end it, and between polls the list is
\* logind's, unless it changed since the reading or the reading was lost.
PollsGoOn ==
  /\ sleepPoll.inFlight = (sleepPoll.process # "none")
  /\ sleepPoll.timer => ~sleepPoll.paused
  /\ sleepPoll.process = "none" /\ ~sleepList.missed => sleepList.shown = sleepList.now
=============================================================================
