----------------------------- MODULE MirrorsMC -----------------------------
(***************************************************************************)
(* Small instances of what the shell mirrors of other programs over D-Bus. *)
(* No two of them share a state: one is used in each behaviour, and the    *)
(* others stay as they start.                                              *)
(***************************************************************************)
EXTENDS Network, SystemTray, MediaPlayers, Bluetooth

CONSTANTS home, cafe,        \* access points
          ka, kb, kc,        \* tray items, the first two of one program
          a1, a2             \* Bluetooth adapters

VARIABLE used   \* the service this behaviour is of

SsidOf == (home :> 1) @@ (cafe :> 2)
ServiceOf == (ka :> "s") @@ (kb :> "s") @@ (kc :> "t")
AdaptersListed == <<a1, a2>>

\* A session that has asked for all its covers and was told goes on without.
CoversTold ==
  /\ Len(coverAsked) = MaxAsked /\ \A n \in DOMAIN coverAsked : coverTold[n] >= 1
  /\ UNCHANGED coverVars

allVars == <<networkVars, trayVars, menuVars, mediaVars, coverVars, btVars,
             used>>

\* The services that are not used stay in one of their initial states.
MCInit ==
  /\ used \in {"network", "tray", "menu", "players", "covers", "bluetooth"}
  /\ TrayInit /\ (used # "tray" => trayOthers = {})
  /\ ArtworkInit /\ (used # "covers" => coverEntries = <<>>)
  /\ NetworkInit /\ MenuInit /\ MediaInit /\ BluetoothInit

MCNext ==
  /\ UNCHANGED used
  /\ \/ used = "network" /\ NetworkNext
     \/ used = "tray" /\ TrayNext
     \/ used = "menu" /\ MenuNext
     \/ used = "players" /\ MediaNext
     \/ used = "covers" /\ (ArtworkNext \/ CoversTold)
     \/ used = "bluetooth" /\ BluetoothNext
  /\ (used # "network" => UNCHANGED networkVars)
  /\ (used # "tray" => UNCHANGED trayVars)
  /\ (used # "menu" => UNCHANGED menuVars)
  /\ (used # "players" => UNCHANGED mediaVars)
  /\ (used # "covers" => UNCHANGED coverVars)
  /\ (used # "bluetooth" => UNCHANGED btVars)

MCSpec == MCInit /\ [][MCNext]_allVars

----------------------------------------------------------------------------
(* Properties.                                                             *)

\* The state of every service is well formed; those that are not used have not moved.
TypesOK ==
  CASE used = "network" -> NetworkTypeOK
    [] used = "tray" -> TrayTypeOK
    [] used = "menu" -> MenuTypeOK
    [] used = "players" -> MediaTypeOK
    [] used = "covers" -> ArtworkTypeOK
    [] used = "bluetooth" -> BluetoothTypeOK

\* What the user did to the network is shown in the end, and a whole reading is
\* of one moment of NetworkManager.
NetworkIsTold == NoEffectIsForgotten /\ WholeReadingIsCurrent

\* The tray holds the items of the programs that live, once each, and an open
\* menu is that of a client that lives.
TrayIsTrue == TrayAgrees /\ NoGhostRows /\ MenuIsLive

\* The media widget shows the players as they are, its timers run when they are
\* needed, and each request for a cover is answered once from a cache that is
\* within its budget.
MediaIsTrue == MediaShowsThePlayers /\ MediaTimersAgree /\ EveryCoverIsTold /\ CacheIsAccounted
=============================================================================
