----------------------------- MODULE DevicesMC -----------------------------
(***************************************************************************)
(* Small instances of the services that follow the devices of the session, *)
(* its power, its sound and its compositor.  No two of them share a state: *)
(* one is used in each behaviour, and the others stay as they start.       *)
(***************************************************************************)
EXTENDS Storage, Power, AudioApplications, Compositor

CONSTANTS stick, disk,   \* drives
          home           \* the volume of the first

VARIABLE used   \* the service this behaviour is of

DriveOfEach == home :> stick

allVars == <<storageVars, idleVars, batteryVars, profileVars, brightnessVars,
             audioVars, hyprVars, compositorVars, used>>

AnyOf(S) == CHOOSE x \in S : TRUE

Unwatched == [watched |-> FALSE, session |-> FALSE, failed |-> FALSE]

\* The services that are not used stay in one of their initial states.
MCInit ==
  /\ used \in {"storage", "idle", "battery", "profiles", "brightness",
               "audio", "layout", "windows"}
  /\ BatteryInit /\ (used # "battery" => batteryDevice = AnyOf(Devices))
  /\ ProfilesInit /\ (used # "profiles" => profileDaemons = [owned |-> {}, active |-> AnyOf([DaemonNames -> Profiles])])
  /\ BrightnessInit /\ (used # "brightness" => backlight = AnyOf(Keys) /\ brightnessBackend = Unwatched)
  /\ HyprInit /\ (used # "layout" => ~hyprland.up /\ hyprland.layout = AnyOf(Layouts))
  /\ StorageInit /\ IdleInit /\ AudioInit /\ CompositorInit

MCNext ==
  /\ UNCHANGED used
  /\ \/ used = "storage" /\ StorageNext
     \/ used = "idle" /\ IdleNext
     \/ used = "battery" /\ BatteryNext
     \/ used = "profiles" /\ ProfilesNext
     \/ used = "brightness" /\ BrightnessNext
     \/ used = "audio" /\ AudioNext
     \/ used = "layout" /\ HyprNext
     \/ used = "windows" /\ CompositorNext
  /\ (used # "storage" => UNCHANGED storageVars)
  /\ (used # "idle" => UNCHANGED idleVars)
  /\ (used # "battery" => UNCHANGED batteryVars)
  /\ (used # "profiles" => UNCHANGED profileVars)
  /\ (used # "brightness" => UNCHANGED brightnessVars)
  /\ (used # "audio" => UNCHANGED audioVars)
  /\ (used # "layout" => UNCHANGED hyprVars)
  /\ (used # "windows" => UNCHANGED compositorVars)

MCSpec == MCInit /\ [][MCNext]_allVars

----------------------------------------------------------------------------
(* Properties.                                                             *)

\* The state of every service is well formed; those that are not used have not moved.
TypesOK ==
  CASE used = "storage" -> StorageTypeOK
    [] used = "idle" -> IdleTypeOK
    [] used = "battery" -> BatteryTypeOK
    [] used = "profiles" -> ProfileTypeOK
    [] used = "brightness" -> BrightnessTypeOK
    [] used = "audio" -> AudioTypeOK
    [] used = "layout" -> HyprTypeOK
    [] used = "windows" -> CompositorTypeOK

\* What is shown of the drives, the power profile, the audio groups and the
\* keyboard layout is what their daemons last said, through losses, restarts and late
\* answers, save what the service could not hear (ProfilesAreTrue says which); a drive is
\* announced once as long as it has a row.
DaemonsAreMirrored == StorageAgrees /\ ProfilesAreTrue /\ GroupsAreObeyed /\ HyprlandIsFollowed

\* A notice of the low battery is sent once a discharge, and lost if nobody hears it; the
\* idle state and its inhibitors are the seat's and the clients'; the inhibitors are polled
\* on; and the brightness is the file's, and the last one asked for, where the file is
\* watched and can be read.
PowerIsFollowed == LowBatteryIsTold /\ IdleIsTrue /\ PollsGoOn /\ BrightnessIsTrue

\* An error goes away only with its own timer, and the cards of the open
\* overview stay where they are.
NothingMovesUnasked ==
  [][OnlyOwnErrorExpires /\ (UNCHANGED compositorVars \/ OverviewStandsStill)]_allVars
=============================================================================
