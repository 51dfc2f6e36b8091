-------------------------- MODULE SessionIntegration --------------------------
(***************************************************************************)
(* SessionIntegrationService: seven diagnostics of the desktop session run *)
(* in worker threads, each reading the session at its own moment; requests *)
(* meanwhile are coalesced; the application caches are rebuilt by          *)
(* processes the shell waits for.                                          *)
(***************************************************************************)
EXTENDS Naturals, FiniteSets, Sequences

CONSTANTS Cursors,      \* cursor themes
          NoCursor,
          Changing,     \* bound: the facts that change: "systemd", "files", "bus"
          MaxFacts      \* bound: changes of the session

ASSUME IntegrationAssumption == MaxFacts \in Nat /\ Changing \subseteq {"systemd", "files", "bus"}

Diagnostics == {"process", "systemd", "activation", "menu", "kde", "mime", "portal"}
Statuses == {"ok", "info", "warning", "error"}
DesktopNames == {"portal", "holonight", "services"}   \* names on the session bus

VARIABLES
  sessionFixed,      \* environment_ and the installed programs
  sessionFacts,      \* what changes: caches, the bus, systemd's environment; facts.at counts
  expectedCursor,    \* expected_cursor_theme_
  integration,       \* the service's members
  integrationJobs,   \* the rows of each worker that has read
  integrationOldest, \* the moment of the first of these readings; not in the code
  integrationTold    \* successful rebuilds told to the MIME roles and the launcher

integrationVars ==
  <<sessionFixed, sessionFacts, expectedCursor, integration, integrationJobs, integrationOldest, integrationTold>>

Row(id, status) == [id |-> id, status |-> status]

IntegrationTypeOK ==
  /\ sessionFixed.env \subseteq {"bus", "desktop", "prefix", "qt"}
  /\ sessionFixed.cursor \in Cursors \cup {NoCursor}
  /\ sessionFixed.tools \subseteq {"systemctl", "kbuildsycoca6", "xdg", "update-desktop-database"}
  /\ sessionFacts.at \in 0..MaxFacts
  /\ expectedCursor \in Cursors \cup {NoCursor}
  /\ integration.running \in BOOLEAN /\ integration.pending \in BOOLEAN
  /\ \A r \in integration.rows : r.status \in Statuses
  /\ integration.overall \in Statuses \ {"info"}
  /\ integration.steps \in UNION {[1..n -> BOOLEAN] : n \in 0..2}
  /\ DOMAIN integrationJobs \subseteq Diagnostics
  /\ integrationOldest \in 0..MaxFacts
  /\ integrationTold \in BOOLEAN

----------------------------------------------------------------------------
(* The diagnostics, of the environment e and the facts f.                  *)

Warns(ok, level) == IF ok THEN "ok" ELSE level

ProcessEnvironmentRows(e, cursor) ==
  {Row("process-env", IF "bus" \notin e.env THEN "error" ELSE Warns({"desktop", "prefix"} \subseteq e.env, "warning")),
   Row("cursor-theme", Warns(cursor # NoCursor /\ e.cursor = cursor, "warning")),
   Row("qt-activation", Warns("qt" \in e.env, "warning"))}

\* A process variable that is unset is never a mismatch.
SystemdEnvironmentRows(e, f) ==
  {Row("systemd-env", IF "systemctl" \notin e.tools \/ f.systemd = "down" THEN "info"
                      ELSE Warns(e.env = {} \/ f.systemd = "imported", "warning"))}

DbusActivationRows(e) ==
  {Row("activation-address", Warns("bus" \in e.env, "error")),
   Row("activation-desktop", Warns({"desktop", "prefix"} \subseteq e.env, "warning"))}

XdgMenuRows(e, f) ==
  {Row("menu-prefix", IF "prefix" \in e.env THEN Warns(f.menu, "warning")
                      ELSE IF "kbuildsycoca6" \in e.tools THEN "warning" ELSE "info"),
   Row("menu-candidates", "info")}

KdeCacheRows(e, f) ==
  {Row("kde-sycoca", IF "kbuildsycoca6" \notin e.tools THEN "info" ELSE Warns(f.sycoca = "current", "warning"))}

MimeRows(e, f) ==
  {Row("mime-role", IF "xdg" \notin e.tools THEN "info" ELSE Warns(f.roles, "warning")),
   Row("mime-cache", IF f.mimeinfo THEN "ok" ELSE IF f.writable THEN "warning" ELSE "info")}

PortalRows(f) ==
  IF ~f.connected THEN {Row("session-services", "error"), Row("holonight", "warning")}
  ELSE {Row("portal", Warns("portal" \in f.owned, "error")),
        Row("holonight", Warns("holonight" \in f.owned, "warning")),
        Row("services", Warns("services" \in f.owned, "warning"))}

IntegrationRowsOf(d) ==
  CASE d = "process"    -> ProcessEnvironmentRows(sessionFixed, expectedCursor)
    [] d = "systemd"    -> SystemdEnvironmentRows(sessionFixed, sessionFacts)
    [] d = "activation" -> DbusActivationRows(sessionFixed)
    [] d = "menu"       -> XdgMenuRows(sessionFixed, sessionFacts)
    [] d = "kde"        -> KdeCacheRows(sessionFixed, sessionFacts)
    [] d = "mime"       -> MimeRows(sessionFixed, sessionFacts)
    [] d = "portal"     -> PortalRows(sessionFacts)

\* addLastRebuildDiagnostics
RebuildRows(steps) == {Row("rebuild", Warns(steps[i], "warning")) : i \in DOMAIN steps}

\* deriveOverallStatus
OverallStatus(rows) ==
  LET said == {r.status : r \in rows} IN
  IF "error" \in said THEN "error" ELSE IF "warning" \in said THEN "warning" ELSE "ok"

IntegrationInit ==
  /\ \E c \in Cursors \cup {NoCursor} : sessionFixed \in
       {[env |-> {"bus", "desktop", "prefix", "qt"}, cursor |-> c,
         tools |-> {"systemctl", "kbuildsycoca6", "xdg", "update-desktop-database"}],
        [env |-> {"desktop"}, cursor |-> c, tools |-> {"kbuildsycoca6"}]}
  /\ sessionFacts = [at |-> 0, systemd |-> "imported", menu |-> TRUE, sycoca |-> "none", roles |-> TRUE,
                     mimeinfo |-> FALSE, writable |-> TRUE, connected |-> TRUE, owned |-> DesktopNames]
  /\ expectedCursor = NoCursor
  /\ integration = [running |-> FALSE, pending |-> FALSE, rows |-> {}, overall |-> "ok", steps |-> <<>>,
                    asked |-> 0, shownAt |-> 0]
  /\ integrationJobs = <<>> /\ integrationOldest = 0
  /\ integrationTold = FALSE

----------------------------------------------------------------------------
\* refresh: its effect on the members.
Refresh(s) == IF s.running THEN [s EXCEPT !.pending = TRUE] ELSE [s EXCEPT !.running = TRUE]

\* The requests also note the moment; not in the code.
Request(s) == [Refresh(s) EXCEPT !.asked = sessionFacts.at]

\* Other programs change the session.
FactsChange ==
  /\ sessionFacts.at < MaxFacts
  /\ \E kind \in Changing : \E new \in
       CASE kind = "systemd" -> {[sessionFacts EXCEPT !.systemd = s] : s \in {"down", "imported", "other"}}
         [] kind = "files"   -> {[sessionFacts EXCEPT !.sycoca = "old", !.mimeinfo = TRUE],
                                 [sessionFacts EXCEPT !.menu = ~@], [sessionFacts EXCEPT !.roles = ~@]}
         [] kind = "bus"     -> {[sessionFacts EXCEPT !.connected = FALSE]}
                                  \cup {[sessionFacts EXCEPT !.owned = DesktopNames \ {n}] : n \in DesktopNames} :
       /\ new # sessionFacts
       /\ sessionFacts' = [new EXCEPT !.at = @ + 1]
  /\ UNCHANGED <<sessionFixed, expectedCursor, integration, integrationJobs, integrationOldest, integrationTold>>

\* refresh, as the settings page calls it: the seven workers start.
RefreshAsked ==
  /\ integration' = Request(integration)
  /\ UNCHANGED <<sessionFixed, sessionFacts, expectedCursor, integrationJobs, integrationOldest, integrationTold>>

\* One worker reads.  Every one of them reads once in a refresh.
WorkerReads(d) ==
  /\ integration.running /\ d \notin DOMAIN integrationJobs
  /\ integrationJobs' = [x \in DOMAIN integrationJobs \cup {d} |->
                           IF x = d THEN IntegrationRowsOf(d) ELSE integrationJobs[x]]
  /\ integrationOldest' = IF integrationJobs = <<>> THEN sessionFacts.at ELSE integrationOldest
  /\ UNCHANGED <<sessionFixed, sessionFacts, expectedCursor, integration, integrationTold>>

\* The watcher's finished: all rows are replaced, and a pending request starts anew.
RefreshFinishes ==
  /\ integration.running /\ DOMAIN integrationJobs = Diagnostics
  /\ LET rows == (UNION {integrationJobs[d] : d \in Diagnostics}) \cup RebuildRows(integration.steps)
         idle == [integration EXCEPT !.running = FALSE, !.pending = FALSE, !.rows = rows,
                                     !.overall = OverallStatus(rows),
                                     !.shownAt = integrationOldest] IN
     integration' = IF integration.pending THEN Refresh(idle) ELSE idle
  /\ integrationJobs' = <<>> /\ integrationOldest' = 0
  /\ UNCHANGED <<sessionFixed, sessionFacts, expectedCursor, integrationTold>>

SetExpectedCursorTheme(c) ==
  /\ c # expectedCursor
  /\ expectedCursor' = c
  /\ integration' = Request(integration)
  /\ UNCHANGED <<sessionFixed, sessionFacts, integrationJobs, integrationOldest, integrationTold>>

\* ApplicationCacheRebuilder::rebuild, whose processes may fail.
DesktopSteps(tools, writable) ==
  IF ~writable THEN {<<>>} ELSE IF "update-desktop-database" \in tools THEN {<<TRUE>>, <<FALSE>>} ELSE {<<FALSE>>}
SycocaSteps(tools) == IF "kbuildsycoca6" \in tools THEN {<<TRUE>>, <<FALSE>>} ELSE {<<>>}
RebuildSteps(tools, writable) == {a \o b : a \in DesktopSteps(tools, writable), b \in SycocaSteps(tools)}

\* rebuildApplicationCaches: the main thread waits for the processes, while workers run.
RebuildApplicationCaches ==
  \E steps \in RebuildSteps(sessionFixed.tools, sessionFacts.writable) :
    LET success == \A i \in DOMAIN steps : steps[i]
        rebuilt == [sessionFacts EXCEPT
                      !.at = @ + 1,
                      !.mimeinfo = @ \/ (sessionFacts.writable /\ steps # <<>> /\ steps[1]),
                      !.sycoca = IF "kbuildsycoca6" \in sessionFixed.tools /\ steps[Len(steps)] THEN "current" ELSE @] IN
    /\ sessionFacts.at < MaxFacts
    /\ sessionFacts' = rebuilt
    /\ integration' = [Refresh(integration) EXCEPT !.steps = steps, !.asked = rebuilt.at]
    /\ integrationTold' = success
    /\ UNCHANGED <<sessionFixed, expectedCursor, integrationJobs, integrationOldest>>

IntegrationNext ==
  \/ FactsChange
  \/ RefreshAsked
  \/ \E d \in Diagnostics : WorkerReads(d)
  \/ RefreshFinishes
  \/ \E c \in Cursors : SetExpectedCursorTheme(c)
  \/ RebuildApplicationCaches

----------------------------------------------------------------------------
(* Properties.                                                             *)

\* Once no refresh runs, every row was read after the last request (of the page, of a
\* cursor change or of a rebuild, which may all come while workers run), the cursor row
\* compares with the theme expected now, the rebuild's rows are the last rebuild's, and
\* a rebuild was told to the MIME roles and the launcher exactly when all its rows are ok.
IntegrationIsCurrent ==
  ~integration.running /\ integration.rows # {} =>
    /\ ~integration.pending
    /\ integration.shownAt >= integration.asked
    /\ Row("cursor-theme", Warns(expectedCursor # NoCursor /\ sessionFixed.cursor = expectedCursor, "warning"))
         \in integration.rows
    /\ {r \in integration.rows : r.id = "rebuild"} = RebuildRows(integration.steps)
    /\ integrationTold => Row("rebuild", "warning") \notin integration.rows
=============================================================================
