---------------------------- MODULE Configuration ----------------------------
(***************************************************************************)
(* The configuration: config.toml as the user, an editor and the writer of *)
(* the exported library leave it, its validation, its parser, and the      *)
(* ConfigService that reads it again after every change.  The settings are *)
(* represented by one of each kind of reader and of each way a default is  *)
(* derived; text that is not told apart by the code is not kept apart here. *)
(* A document that is not there reads as the empty one.                    *)
(***************************************************************************)
EXTENDS Naturals, Sequences, Subsequences

CONSTANTS Documents,    \* what the file may hold when the shell starts
          Rewrites,     \* what an editor may replace it with
          MaxRewrites   \* bound: changes of the file

\* A key of the document is absent, of another type, out of its range or choices,
\* or has a value.
Flags == {"overview_access", "persist_body"}
Ranged == {"count", "margin"}               \* clamped; margin has a minimum only
Coordinates == {"latitude", "longitude"}
TextChoices == {"provider", "location_source", "units", "temp_unit"}
Settings == Flags \cup Ranged \cup Coordinates \cup TextChoices \cup {"refresh_interval", "logo"}

\* What may stand for a key in the document.
Values(s) ==
  {"absent", "wrong"} \cup
    CASE s \in Flags \cup {"logo"} -> {"default", "set"}
      [] s \in Coordinates -> {"low", "set", "high"}
      [] s = "count" -> {"low", "default", "set", "high"}
      [] s \in {"margin", "refresh_interval"} -> {"low", "default", "set"}
      [] s = "provider" -> {"unknown", "open-meteo", "openweathermap"}
      [] s = "location_source" -> {"unknown", "manual", "auto"}
      [] s = "units" -> {"unknown", "metric", "imperial", "standard"}
      [] s = "temp_unit" -> {"unknown", "celsius", "fahrenheit", "kelvin"}

\* The names of accounts and overrides: one that may stand bare in a table's header, one
\* with a dot in it, and one with a blank, for whatever a header must quote.
TableNames == {"bare", "dotted", "blank"}
BareNames == {"bare"}

\* A [[widget]], an account and an icon override; a field that is not there is "absent".
Entry == [type : {"time-to-event", "clock", "mpris", "other"}, enabled : {"absent", "wrong", "yes", "no"},
          position : {"absent", "corner", "center", "nowhere"}, title : {"absent", "text"},
          deadline : {"absent", "date", "words"}, minutes : {"absent", "wrong", "low", "default", "set", "high"},
          monitors : {"absent", "names", "wrong"}]
AccountKeys == {"caldav", "ics"} \X TableNames
Account == [url : BOOLEAN, username : BOOLEAN, include : {"absent", "names", "wrong"}]
Override == [icon : BOOLEAN, selector : BOOLEAN]

\* Tables by name
AreTables(t, keys, Table) == DOMAIN t \subseteq keys /\ t \in [DOMAIN t -> Table]

IsDocument(d) ==
  /\ d = [toml |-> d.toml, settings |-> d.settings, widgets |-> d.widgets, accounts |-> d.accounts, overrides |-> d.overrides]
  /\ d.toml \in BOOLEAN
  /\ d.settings = [s \in Settings |-> d.settings[s]] /\ \A s \in Settings : d.settings[s] \in Values(s)
  /\ d.widgets \in Seq(Entry)
  /\ AreTables(d.accounts, AccountKeys, Account) /\ AreTables(d.overrides, TableNames, Override)

ASSUME ConfigAssumption == MaxRewrites \in Nat /\ \A d \in Documents \cup Rewrites : IsDocument(d)

EmptyDocument == [toml |-> TRUE, settings |-> [s \in Settings |-> "absent"], widgets |-> <<>>,
                  accounts |-> <<>>, overrides |-> <<>>]

----------------------------------------------------------------------------
(* Validation.                                                             *)

\* Mutant: ranges and choices are left to the parser.
TypeIsValid(s, v) == v # "wrong"

\* validateValue: the type, the range and the choices of a setting's metadata.
ValueIsValid(s, v) == v \notin {"wrong", "low", "high", "unknown"}

\* validateWidget: what an enabled countdown may not lack, a disabled one may.
EntryIsValid(e) ==
  /\ e.enabled # "wrong" /\ e.monitors # "wrong"
  /\ e.type # "other"
  /\ e.position # "nowhere"
  /\ e.minutes \in {"absent", "default", "set"}
  /\ e.type = "time-to-event" /\ e.enabled # "no" => e.title = "text" /\ e.deadline = "date"

\* validateCollection, for accounts and for overrides.
AccountIsValid(kind, a) == a.url /\ (kind = "caldav" => a.username) /\ a.include # "wrong"
OverrideIsValid(o) == o.icon /\ o.selector

\* validateConfigTable: the diagnostics, by what they are about.
DocumentDiagnostics(d) ==
  {s \in Settings : ~ValueIsValid(s, d.settings[s])}
    \cup (IF \A i \in 1..Len(d.widgets) : EntryIsValid(d.widgets[i]) THEN {} ELSE {"widget"})
    \cup (IF \A k \in DOMAIN d.accounts : AccountIsValid(k[1], d.accounts[k]) THEN {} ELSE {"calendar"})
    \cup (IF \A n \in DOMAIN d.overrides : OverrideIsValid(d.overrides[n]) THEN {} ELSE {"tray"})

\* decodeDocument's failures
Failures(d) == IF d.toml THEN DocumentDiagnostics(d) ELSE {"syntax"}

----------------------------------------------------------------------------
(* Parsing.  The parsers take what validation refuses, and repair it.      *)

\* clampRange
Clamped(v) == CASE v = "low" -> "min" [] v = "high" -> "max" [] OTHER -> v

\* readInt, readStr, readBool: the default for what is absent or of another type.
Read(v, default) == IF v \in {"absent", "wrong"} THEN default ELSE v

\* readPositiveInt
ReadPositive(v) == IF v = "low" THEN "default" ELSE Read(v, "default")

\* readOptionalCoordinate
ReadCoordinate(v) == IF v = "set" THEN "set" ELSE "none"

\* parseWeather's derived defaults: the unit from the legacy units, the source
\* from the coordinates, and the provider of a file from before there was a choice.
TempUnitOf(units) == CASE units = "imperial" -> "fahrenheit" [] units = "standard" -> "kelvin" [] OTHER -> "celsius"

ParsedWeather(f, s) ==
  CASE s = "refresh_interval" -> ReadPositive(f[s])
    [] s \in Coordinates -> ReadCoordinate(f[s])
    [] s = "provider" -> Read(f[s], "openweathermap")
    [] s = "units" -> Read(f[s], "metric")
    [] s = "temp_unit" -> Read(f[s], TempUnitOf(Read(f["units"], "metric")))
    [] s = "location_source" ->
         IF f[s] # "absent" THEN Read(f[s], "manual")
         ELSE IF \A c \in Coordinates : ReadCoordinate(f[c]) = "set" THEN "manual" ELSE "auto"

\* parseBarWorkspaces, parseNotificationHistory, parseLogo, and the margin of parseWidgets
ParsedWorkspaces(f) == Clamped(Read(f["count"], "default"))
ParsedHistory(f) == Read(f["persist_body"], "default")
ParsedLogo(f) == Read(f["logo"], "default")
ParsedMargin(f) == IF f["margin"] = "low" THEN "default" ELSE Read(f["margin"], "default")

ParsedSettings(f) ==
  [s \in Settings |->
     CASE s = "overview_access" -> Read(f[s], "default")
       [] s = "count" -> ParsedWorkspaces(f)
       [] s = "persist_body" -> ParsedHistory(f)
       [] s = "logo" -> ParsedLogo(f)
       [] s = "margin" -> ParsedMargin(f)
       [] OTHER -> ParsedWeather(f, s)]

NoWidget == [type |-> "none"]
DefaultWidget == [type |-> "time-to-event", enabled |-> TRUE, position |-> "center", monitors |-> FALSE,
                  title |-> FALSE, deadline |-> FALSE, minutes |-> "default"]

\* parseWidgetPositionField
PositionOf(e, strict) ==
  CASE e.position = "corner" -> "corner"
    [] e.position = "nowhere" /\ strict -> "refused"
    [] OTHER -> "center"

\* parseTimeToEventFields and parseTimeToEventDeadline
CountdownRefused(e, strict) == strict /\ (e.title = "absent" \/ e.deadline # "date")

\* parseWidgetEntry: strict unless the entry is disabled; a disabled entry of an
\* unknown type is kept as a default one.
ParsedWidget(e) ==
  LET strict == e.enabled # "no"
      common == [DefaultWidget EXCEPT !.type = e.type, !.enabled = strict, !.position = PositionOf(e, strict),
                                      !.monitors = (e.monitors = "names")] IN
  IF e.type = "other" THEN IF strict THEN NoWidget ELSE [DefaultWidget EXCEPT !.enabled = FALSE]
  ELSE IF common.position = "refused" \/ (e.type = "time-to-event" /\ CountdownRefused(e, strict)) THEN NoWidget
  ELSE CASE e.type = "time-to-event" -> [common EXCEPT !.title = (e.title = "text"), !.deadline = (e.deadline = "date")]
         [] e.type = "clock" -> common
         [] e.type = "mpris" -> [common EXCEPT !.minutes = Clamped(Read(e.minutes, "default"))]

\* parseWidgets
ParsedWidgets(entries) ==
  LET parsed == [i \in 1..Len(entries) |-> ParsedWidget(entries[i])] IN
  SubSeqAt(parsed, {i \in 1..Len(entries) : parsed[i] # NoWidget})

\* parseCalendarCaldavAccounts and parseCalendarIcsAccounts: accounts that lack a field are
\* skipped; of the rest, the calendars each is limited to, which a feed is not.
ParsedAccounts(accounts) ==
  [k \in {k \in DOMAIN accounts : accounts[k].url /\ (k[1] = "caldav" => accounts[k].username)} |->
     IF k[1] = "caldav" /\ accounts[k].include = "names" THEN "names" ELSE "absent"]

\* parseTrayIconOverrides
ParsedOverrides(overrides) ==
  [n \in {n \in DOMAIN overrides : overrides[n].icon /\ overrides[n].selector} |-> overrides[n]]

\* parseConfigTable
Product(d) == [settings |-> ParsedSettings(d.settings), widgets |-> ParsedWidgets(d.widgets),
               accounts |-> ParsedAccounts(d.accounts), overrides |-> ParsedOverrides(d.overrides)]

----------------------------------------------------------------------------
(* Writing.                                                                *)

\* writeWidgetDefinition; a deadline that is not a date is written as an empty text.
WrittenWidget(w) ==
  [type |-> w.type, enabled |-> IF w.enabled THEN "yes" ELSE "no", position |-> w.position,
   monitors |-> IF w.monitors THEN "names" ELSE "absent",
   title |-> IF w.title THEN "text" ELSE "absent",
   deadline |-> IF w.type # "time-to-event" THEN "absent" ELSE IF w.deadline THEN "date" ELSE "words",
   minutes |-> IF w.type = "mpris" THEN w.minutes ELSE "absent"]

\* The table that a header without quotes names: a dot begins a table within another.
TableOf(n) == IF n = "dotted" THEN "bare" ELSE n

\* writeCalendar and writeTrayOverrides.  The table around a nested one has the fields of its
\* own account or override, or none; nobody reads the one within.
WrittenAccounts(accounts) ==
  [k \in {<<key[1], TableOf(key[2])>> : key \in DOMAIN accounts} |->
     IF k \in DOMAIN accounts THEN [url |-> TRUE, username |-> k[1] = "caldav", include |-> accounts[k]]
     ELSE [url |-> FALSE, username |-> FALSE, include |-> "absent"]]

WrittenOverrides(overrides) ==
  [n \in {TableOf(name) : name \in DOMAIN overrides} |->
     IF n \in DOMAIN overrides THEN overrides[n] ELSE [icon |-> FALSE, selector |-> FALSE]]

\* The names that are written into headers
NamesOf(p) == {k[2] : k \in DOMAIN p.accounts} \cup DOMAIN p.overrides

\* ProductConfigWriter::write: every setting with its value but the coordinates
\* that are not set; the logo has no section.  A blank in a header is a syntax error.
Written(p) ==
  [toml |-> "blank" \notin NamesOf(p),
   settings |-> [s \in Settings |-> IF s = "logo" \/ p.settings[s] = "none" THEN "absent" ELSE p.settings[s]],
   widgets |-> [i \in 1..Len(p.widgets) |-> WrittenWidget(p.widgets[i])],
   accounts |-> WrittenAccounts(p.accounts), overrides |-> WrittenOverrides(p.overrides)]

----------------------------------------------------------------------------
(* ConfigService.                                                          *)

VARIABLES
  configFile,    \* config.toml
  configService, \* the configuration and diagnostics it publishes and what is under way
  followers      \* section -> what whoever follows its signal last read

configVars == <<configFile, configService, followers>>

\* The members of ConfigService, and those with a signal of their own.
Sections == {"taskbar", "workspaces", "history", "weather", "widgets", "calendar", "tray", "logo"}
Signalled == Sections \ {"logo"}

SectionOf(p, x) ==
  CASE x = "taskbar" -> p.settings["overview_access"]
    [] x = "workspaces" -> p.settings["count"]
    [] x = "history" -> p.settings["persist_body"]
    [] x = "weather" -> [s \in Coordinates \cup TextChoices \cup {"refresh_interval"} |-> p.settings[s]]
    [] x = "widgets" -> <<p.settings["margin"], p.widgets>>
    [] x = "calendar" -> p.accounts
    [] x = "tray" -> p.overrides
    [] x = "logo" -> p.settings["logo"]

\* The defaults of the structures, which are not those of an empty document.
StructDefaults ==
  [Product(EmptyDocument) EXCEPT !.settings["provider"] = "open-meteo", !.settings["location_source"] = "manual"]

ConfigTypeOK ==
  /\ configFile.toml \in BOOLEAN /\ DOMAIN configFile.settings = Settings
  /\ DOMAIN configService = {"shown", "diagnostics", "told", "timer", "rewrites"}
  /\ configService.diagnostics \subseteq Settings \cup {"widget", "calendar", "tray", "syntax"}
  /\ configService.told \in BOOLEAN /\ configService.timer \in BOOLEAN
  /\ configService.rewrites \in 0..MaxRewrites
  /\ DOMAIN followers = Signalled

\* The constructor has parsed the file; everyone follows later.
ConfigStarts ==
  /\ configService = [shown |-> IF Failures(configFile) = {} THEN Product(configFile) ELSE StructDefaults,
                      diagnostics |-> Failures(configFile), told |-> FALSE, timer |-> FALSE, rewrites |-> 0]
  /\ followers = [x \in Signalled |-> SectionOf(configService.shown, x)]

ConfigInit == configFile \in Documents /\ ConfigStarts

\* The file changes; the watcher's documentChanged is under way.
FileBecomes(d) ==
  /\ configService.rewrites < MaxRewrites
  /\ configFile' = d
  /\ configService' = [configService EXCEPT !.told = TRUE, !.rewrites = @ + 1]
  /\ UNCHANGED followers

FileRewritten == \E d \in Rewrites : FileBecomes(d)

\* ProductConfigWriter::write of what the file says: a whole new file, or the old one.
FileSaved == Failures(configFile) = {} /\ FileBecomes(Written(Product(configFile)))

\* DocumentWatcher::documentChanged restarts the debounce timer.
DocumentChanged ==
  /\ configService.told
  /\ configService' = [configService EXCEPT !.told = FALSE, !.timer = TRUE]
  /\ UNCHANGED <<configFile, followers>>

\* applyParsedConfig: a section that differs is kept and its signal sent.
Told(p) == [x \in Signalled |-> IF SectionOf(p, x) # SectionOf(configService.shown, x) THEN SectionOf(p, x) ELSE followers[x]]

\* parseFile: a document that is refused leaves the configuration as it was.
ParseFile ==
  /\ configService.timer
  /\ LET failures == Failures(configFile)
         p == IF failures = {} THEN Product(configFile) ELSE configService.shown IN
     /\ configService' = [configService EXCEPT !.timer = FALSE, !.diagnostics = failures, !.shown = p]
     /\ followers' = Told(p)
  /\ UNCHANGED configFile

ConfigNext == FileRewritten \/ FileSaved \/ DocumentChanged \/ ParseFile

----------------------------------------------------------------------------
(* Properties.                                                             *)

\* Once the file is at rest, so is the shell: a document that is accepted is the
\* one published, one that is refused is told of, and everyone who follows a
\* section has the one that is published.
ConfigIsTheFiles ==
  ~configService.told /\ ~configService.timer =>
    /\ configService.diagnostics = Failures(configFile)
    /\ Failures(configFile) = {} => configService.shown = Product(configFile)
    /\ followers = [x \in Signalled |-> SectionOf(configService.shown, x)]

\* A widget is the entry, in the fields that its type has; what is absent has its default.
\* The deadline of a disabled countdown may be words, of which nothing is kept.
IsTheEntry(w, e) ==
  /\ w.type = e.type /\ w.enabled = (e.enabled # "no") /\ w.monitors = (e.monitors = "names")
  /\ w.position = IF e.position = "absent" THEN "center" ELSE e.position
  /\ e.type = "time-to-event" => w.title = (e.title = "text") /\ w.deadline = (e.deadline = "date")
  /\ e.type = "mpris" => w.minutes = IF e.minutes = "absent" THEN "default" ELSE e.minutes

\* Validation and parser agree: of a document that is accepted nothing is repaired,
\* replaced by a default or dropped, but for the list of an iCalendar account's calendars
\* (and the other fields that a widget or an account of another type has a use for).
AcceptedIsKept ==
  Failures(configFile) = {} =>
    LET p == Product(configFile) IN
    /\ \A s \in Settings : configFile.settings[s] # "absent" => p.settings[s] = configFile.settings[s]
    /\ Len(p.widgets) = Len(configFile.widgets)
    /\ \A i \in 1..Len(p.widgets) : IsTheEntry(p.widgets[i], configFile.widgets[i])
    /\ DOMAIN p.accounts = DOMAIN configFile.accounts
    /\ \A k \in DOMAIN p.accounts : k[1] = "caldav" => p.accounts[k] = configFile.accounts[k].include
    /\ p.overrides = configFile.overrides

\* What is left of a configuration that the writer has written and the parser read: not the
\* logo, nor an account or override whose name needs quotes.
SavedOf(p) == [p EXCEPT !.settings["logo"] = "default",
                     !.accounts = [k \in {k \in DOMAIN p.accounts : k[2] \in BareNames} |-> p.accounts[k]],
                     !.overrides = [n \in DOMAIN p.overrides \cap BareNames |-> p.overrides[n]]]

\* What the writer makes of a document that is accepted is accepted again if every name may
\* stand bare, and means the same but for the logo, which is lost.  With a name that needs
\* quotes it is refused, or that account or override is lost, and nothing else.
SavingKeepsMeaning ==
  Failures(configFile) = {} =>
    LET p == Product(configFile) IN
    /\ NamesOf(p) \subseteq BareNames => Failures(Written(p)) = {}
    /\ Failures(Written(p)) = {} => Product(Written(p)) = SavedOf(p)
=============================================================================
