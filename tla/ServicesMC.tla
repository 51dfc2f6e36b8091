---------------------------- MODULE ServicesMC -----------------------------
(***************************************************************************)
(* Small instances of the services that keep what they read: the           *)
(* configuration, the applications, their files, launches and defaults,    *)
(* the session's diagnostics and portals, and what the calendar fetches,   *)
(* caches and reminds of.  No two of them share a state: one is used in    *)
(* each behaviour, and the others stay as they start.                      *)
(***************************************************************************)
EXTENDS Launcher, MimeDefaults, SessionIntegration, ApplicationLaunch,
        Portal, Configuration, CalendarCache, CalendarFetch, DesktopEntries

CONSTANTS alpha, bravo   \* applications, by name

VARIABLE used   \* the service this behaviour is of

allVars == <<launcherVars, mimeVars, integrationVars, launchVars,
             guardedVars, portalVars, configVars, cacheVars, feedVars, davVars,
             reminderVars, desktopVars, used>>

----------------------------------------------------------------------------
(* The instances.                                                          *)

AppsByName == <<alpha, bravo>>

\* Documents that exercise each setting alone, the settings a default is derived from
\* together, and every widget, account and override alone.
With(setting, v) == [EmptyDocument EXCEPT !.settings[setting] = v]
OneSetting == UNION {{With(s, v) : v \in Values(s)} : s \in Settings}
DerivedSettings ==
  {[EmptyDocument EXCEPT !.settings["units"] = u, !.settings["temp_unit"] = t] : u \in Values("units"), t \in Values("temp_unit")}
  \cup {[EmptyDocument EXCEPT !.settings["latitude"] = n, !.settings["longitude"] = e, !.settings["location_source"] = s] :
          n \in Values("latitude"), e \in Values("longitude"), s \in Values("location_source")}
OneEntry ==
  {[EmptyDocument EXCEPT !.widgets = <<w>>] : w \in Entry}
    \cup {[EmptyDocument EXCEPT !.accounts = (k :> a)] : k \in AccountKeys, a \in Account}
    \cup {[EmptyDocument EXCEPT !.overrides = (n :> o)] : n \in TableNames, o \in Override}

\* Documents with an account and an override of every set of names.
ValidAccount == [url |-> TRUE, username |-> TRUE, include |-> "names"]
ValidOverride == [icon |-> TRUE, selector |-> TRUE]
NamedTables ==
  {[EmptyDocument EXCEPT !.accounts = [k \in S |-> ValidAccount]] : S \in SUBSET AccountKeys}
    \cup {[EmptyDocument EXCEPT !.overrides = [n \in S |-> ValidOverride]] : S \in SUBSET TableNames}
TheDocuments == OneSetting \cup DerivedSettings \cup OneEntry \cup NamedTables
PlainClock == [type |-> "clock", enabled |-> "absent", position |-> "absent", title |-> "absent", deadline |-> "absent",
               minutes |-> "absent", monitors |-> "absent"]
TheRewrites ==
  {EmptyDocument, [EmptyDocument EXCEPT !.toml = FALSE], [With("count", "set") EXCEPT !.settings["logo"] = "set"],
   [With("count", "set") EXCEPT !.widgets = <<PlainClock>>], With("margin", "low"),
   [EmptyDocument EXCEPT !.widgets = <<[PlainClock EXCEPT !.type = "other", !.enabled = "no"]>>]}

\* Two accounts of one name, as the cache and the reminders tell them apart or not.
CalDavWork == [type |-> "caldav", name |-> "work"]
IcsWork == [type |-> "ics", name |-> "work"]
TheCacheAccounts == {CalDavWork, IcsWork}
TheAnswers == {<<>>, [x \in {"u"} |-> 1], [x \in {"u", "v"} |-> IF x = "u" THEN 1 ELSE 3]}
TheLegacyRows == {{}, {CachedRow("u", CalDavWork, 0), CachedRow("v", CalDavWork, 2)}}
TheReminded == {[uid |-> "u", type |-> "caldav", account |-> "work"], [uid |-> "u", type |-> "ics", account |-> "work"]}

\* Single blocks of every kind, and pairs that share a uid, a stamp or a loose end.
Utc(n) == [form |-> "utc", at |-> n]
Given(n) == [form |-> "given", hours |-> n]
BadTime == [form |-> "bad", at |-> 0]
Date(n) == [form |-> "date", at |-> n]
Local(n) == [form |-> "local", at |-> n]
SingleBlocks ==
  [component : {"VEVENT", "VTODO"}, uid : {<<>>, <<"u">>, <<"u", "v">>},
   start : {NoTime, BadTime, Date(0), Utc(2), Local(2)}, end : {NoTime, BadTime, Utc(2), Local(2)},
   duration : {NoDuration, [form |-> "bad", hours |-> 0], Given(3), Given(-1)},
   stamp : {NoTime, Utc(1)}, alarm : BOOLEAN]
PairedBlocks ==
  [component : {"VEVENT", "VTODO"}, uid : {<<"u">>, <<"v">>}, start : {NoTime, Utc(2), Utc(7)}, end : {NoTime},
   duration : {NoDuration}, stamp : {NoTime, Utc(1), Utc(2)}, alarm : {TRUE}]
  \cup [component : {"VEVENT"}, uid : {<<"u">>}, start : {Utc(2)}, end : {Utc(3), NoTime}, duration : {Given(3)},
        stamp : {NoTime}, alarm : BOOLEAN]
TheFeeds == {<<b>> : b \in SingleBlocks} \cup {<<b, c>> : b \in PairedBlocks, c \in PairedBlocks}

\* A user's file and a system's of one name, and another; an application's two texts (a
\* file whose text lists none is found as an absent one is); the short texts the parser is given.
TheDirectories == [p \in DesktopPaths |-> IF p = "user/a" THEN 1 ELSE 2]
TheIds == [p \in DesktopPaths |-> IF p = "system/b" THEN "b" ELSE "a"]
Named(name) == <<Section("entry"), Gives("Name", name), Gives("Exec", "run")>>
TheTexts == [t \in {"one", "two"} |-> Named(t)]
TextLines ==
  {Section(s) : s \in {"entry", "action", "other"}}
  \cup {Gives("Name", "x"), Gives("Name", ""), Gives("Exec", "y"), Gives("Type", "Link"), Gives("Hidden", "yes"),
        Gives("Hidden", "no"), Gives("NoDisplay", "true")}
TheReadable ==
  {Named("one") \o <<l, m, n>> : l, m, n \in TextLines} \cup {<<k, l, m, n>> : k, l, m, n \in TextLines}
  \cup {<<Section("action"), Gives("Name", "x"), l, m>> \o Named("one") : l, m \in TextLines}

\* The parts that are not used have no state.
Unused(x) == x = "unused"

MCInit ==
  /\ used \in {"launcher", "mime", "integration", "launch", "process", "portal", "config", "cache", "feed",
               "caldav", "reminders", "entries"}
  /\ IF used = "launcher" THEN LauncherInit
     ELSE /\ Unused(appDisk) /\ Unused(appCache) /\ Unused(launcher)
          /\ Unused(launcherScan) /\ Unused(recentApps)
  /\ IF used = "mime" THEN MimeInit
     ELSE /\ Unused(mimeFiles) /\ Unused(mimeCache) /\ Unused(mimeQueries)
          /\ Unused(mimeSets) /\ Unused(mimeTimer) /\ Unused(mimeWatched) /\ Unused(mimeMissed)
  /\ IF used = "integration" THEN IntegrationInit
     ELSE /\ Unused(sessionFixed) /\ Unused(sessionFacts) /\ Unused(expectedCursor) /\ Unused(integration)
          /\ Unused(integrationJobs) /\ Unused(integrationOldest) /\ Unused(integrationTold)
  /\ IF used = "launch" THEN LaunchInit
     ELSE Unused(launchHost) /\ Unused(launchWorker) /\ Unused(launchUnit) /\ Unused(launchAnswer)
  /\ IF used = "process" THEN GuardedInit
     ELSE Unused(guarded)
  /\ IF used = "portal" THEN PortalInit
     ELSE /\ Unused(portalBroker) /\ Unused(portalImpls) /\ Unused(portalCalls)
          /\ Unused(portalInbox) /\ Unused(portal) /\ Unused(portalMissed)
  /\ IF used = "config" THEN ConfigInit
     ELSE Unused(configFile) /\ Unused(configService) /\ Unused(followers)
  /\ IF used = "cache" THEN CacheInit
     ELSE /\ Unused(database) /\ Unused(cacheOpen) /\ Unused(todo) /\ Unused(syncing)
          /\ Unused(time) /\ Unused(held) /\ Unused(lost)
  /\ IF used = "feed" THEN FeedInit
     ELSE Unused(feed) /\ Unused(fetched)
  /\ IF used = "caldav" THEN DavInit
     ELSE Unused(server) /\ Unused(fetch) /\ Unused(davConfig) /\ Unused(seen)
  /\ IF used = "reminders" THEN ReminderInit
     ELSE Unused(agenda) /\ Unused(minute) /\ Unused(fired) /\ Unused(announced)
  /\ IF used = "entries" THEN DesktopInit
     ELSE /\ Unused(desktopFiles) /\ Unused(desktopDb) /\ Unused(desktopScan)
          /\ Unused(desktopShown) /\ Unused(desktopChanged)

MCNext ==
  /\ UNCHANGED used
  /\ \/ used = "launcher" /\ LauncherNext
     \/ used = "mime" /\ MimeNext
     \/ used = "integration" /\ IntegrationNext
     \/ used = "launch" /\ LaunchNext
     \/ used = "process" /\ GuardedNext
     \/ used = "portal" /\ PortalNext
     \/ used = "config" /\ ConfigNext
     \/ used = "cache" /\ CacheNext
     \/ used = "feed" /\ FeedNext
     \/ used = "caldav" /\ DavNext
     \/ used = "reminders" /\ ReminderNext
     \/ used = "entries" /\ EntriesNext
  /\ (used # "launcher" => UNCHANGED launcherVars)
  /\ (used # "mime" => UNCHANGED mimeVars)
  /\ (used # "integration" => UNCHANGED integrationVars)
  /\ (used # "launch" => UNCHANGED launchVars)
  /\ (used # "process" => UNCHANGED guardedVars)
  /\ (used # "portal" => UNCHANGED portalVars)
  /\ (used # "config" => UNCHANGED configVars)
  /\ (used # "cache" => UNCHANGED cacheVars)
  /\ (used # "feed" => UNCHANGED feedVars)
  /\ (used # "caldav" => UNCHANGED davVars)
  /\ (used # "reminders" => UNCHANGED reminderVars)
  /\ (used # "entries" => UNCHANGED desktopVars)

MCSpec == MCInit /\ [][MCNext]_allVars

\* The behaviours of the launcher alone.
LauncherOnly == used = "launcher" /\ MCInit /\ [][MCNext]_allVars

----------------------------------------------------------------------------
(* Properties.                                                             *)

\* The state of every service is well formed; those that are not used have not moved.
TypesOK ==
  /\ used = "launcher" => LauncherTypeOK
  /\ used = "mime" => MimeTypeOK
  /\ used = "integration" => IntegrationTypeOK
  /\ used = "launch" => LaunchTypeOK
  /\ used = "process" => GuardedTypeOK
  /\ used = "portal" => PortalTypeOK
  /\ used = "config" => ConfigTypeOK
  /\ used = "cache" => CacheTypeOK
  /\ used = "feed" => FeedTypeOK
  /\ used = "caldav" => DavTypeOK
  /\ used = "reminders" => ReminderTypeOK
  /\ used = "entries" => EntriesTypeOK

\* What the launcher lists, the default applications, the report on the session and the
\* portals are those of the files and the bus, once what reads them has come to rest: no
\* change during a scan, a query, a repair or a probe is forgotten. And whoever asks for an
\* application or a command to be started is told once what became of the process.
ApplicationsAreServed ==
  /\ used = "launcher" => LauncherIsCurrent
  /\ used = "entries" => EntriesAreTheFiles
  /\ used = "mime" => MimeDefaultsSettle
  /\ used = "integration" => IntegrationIsCurrent
  /\ used = "portal" => PortalSettles
  /\ used = "launch" => LaunchIsHonest
  /\ used = "process" => GuardedAnswersOnce

\* The configuration published is that of the file at rest; nothing that is accepted is
\* repaired or dropped but the calendars an iCalendar account is limited to; and what the
\* writer makes of it means the same but for the logo, which is lost, and for the accounts
\* and overrides whose names need quotes, which are lost or make it refused.
ConfigurationHolds ==
  used = "config" => ConfigIsTheFiles /\ AcceptedIsKept /\ SavingKeepsMeaning

\* What the text of a feed or of a desktop file holds is what its parser returns, and
\* what is searched for is listed in the order of what matches.
WhatIsReadIsUnderstood ==
  /\ used = "feed" => FeedIsUnderstood
  /\ used = "entries" => TextsAreUnderstood /\ ScoresAreRanks

\* What a server holds is what the fetch returns, what the fetch returns replaces what is
\* cached, neither more nor less, and what is cached is reminded of.
CalendarIsPassedOn ==
  /\ used = "caldav" => FetchIsComplete
  /\ used = "cache" => OpenCacheIsWhole /\ SyncDropsOnlyTheGone
  /\ used = "reminders" => RemindedUnlessMoved
=============================================================================
