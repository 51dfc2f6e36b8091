---------------------------- MODULE SurfacesMC ----------------------------
(***************************************************************************)
(* Small instances of the surfaces: sessions in which two of the five      *)
(* overlays are used, or one manager of a surface per monitor.  The        *)
(* overlays meet only in what reaches all of them, so that pairs show      *)
(* every interplay and all five together would show no other; the managers *)
(* share nothing with them but the outputs.                                *)
(***************************************************************************)
EXTENDS DesktopOverlays, MonitorSurfaces

CONSTANT MaxUsed    \* bound: overlays a session uses

VARIABLE used       \* what this behaviour is of

allVars == <<vars, surfaceVars, used>>

Overlays == Names \cup {"sidebar"}

MCInit ==
  /\ used \in {S \in SUBSET Overlays : Cardinality(S) = MaxUsed} \cup {{"monitors"}}
  /\ Init /\ SurfacesInit
  /\ used = {"monitors"} => provider
  /\ used # {"monitors"} =>
       surfaceKind = "clock" /\ surfaceWorld.screens = <<CHOOSE m \in Monitors : TRUE>>

MCNext ==
  /\ UNCHANGED used
  /\ \/ /\ \/ "tooltip" \in used /\ TooltipNext
           \/ "launcher" \in used /\ LauncherNext
           \/ "overview" \in used /\ OverviewNext
           \/ "popup" \in used /\ PopupNext
           \/ "sidebar" \in used /\ SidebarNext
           \/ used # {"monitors"} /\ ShellNext
        /\ UNCHANGED surfaceVars
     \/ used = {"monitors"} /\ SurfacesNext /\ UNCHANGED vars

MCSpec == MCInit /\ [][MCNext]_allVars

\* The state of every surface and of what is derived from it is well formed.
TypesOK == TypeOK /\ SurfaceTypeOK
=============================================================================
