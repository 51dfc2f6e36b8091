---------------------------- MODULE DesktopEntries ----------------------------
(***************************************************************************)
(* DesktopEntryScanner, DesktopEntryCache and the scan that feeds both the *)
(* launcher and its SQLite file: how a desktop file is read, which file of *)
(* several stands for an application, and which rows the next start is     *)
(* shown.  Files are rewritten while they are read; the shell may end at   *)
(* any time.  A file's time and size are its stamp, another with each      *)
(* change of it; the rows can be read once the file is open.  Launcher has *)
(* what the user sees of it, and LauncherModel's scores are here.          *)
(***************************************************************************)
EXTENDS Naturals, FiniteSets, SequencesExt, FiniteSetsExt

CONSTANTS DesktopPaths,    \* the files that may be there
          DirectoryOf,     \* the place of each one's directory in application_dirs_
          DesktopId,       \* the file name of each
          EntryTexts,      \* what the files may say: a name for each text, and the text
          ReadableTexts,   \* texts the parser is compared with its reference on
          MaxFileChanges   \* bound: changes of the files

\* A directory has one file of a name.
ASSUME DesktopAssumption ==
  /\ DirectoryOf \in [DesktopPaths -> Nat] /\ MaxFileChanges \in Nat
  /\ \A p, q \in DesktopPaths : DesktopId[p] = DesktopId[q] /\ DirectoryOf[p] = DirectoryOf[q] => p = q

VARIABLES
  desktopFiles,   \* path -> its text, or "absent", and its stamp
  desktopDb,      \* launcher.db: its version and its rows; kept is a ghost: an old table that could not be dropped
  desktopScan,    \* the validator: its step, the files it has yet to come to, what it found
  desktopShown,   \* the entries the model was last given, by path
  desktopChanged  \* ghosts: paths rewritten since the scan began, since it read them, and those whose
                  \* row got the stamp of a later text

desktopVars == <<desktopFiles, desktopDb, desktopScan, desktopShown, desktopChanged>>

----------------------------------------------------------------------------
(* The text: a line is a section or gives a key a value.  Of the keys      *)
(* those that decide whether and as what a file is listed are kept; blank  *)
(* lines, comments and lines without "=" are passed over and left out.     *)

Section(name) == [section |-> name, key |-> "none", value |-> ""]
Gives(key, value) == [section |-> "none", key |-> key, value |-> value]

NoAction == [name |-> "", exec |-> ""]
ParseStart == [name |-> "", exec |-> "", type |-> "Application", hidden |-> FALSE, noDisplay |-> FALSE,
               actions |-> <<>>, inEntry |-> FALSE, saw |-> FALSE, inAction |-> FALSE, action |-> NoAction]

\* Mutant: an action that names no command is kept.
FlushedIncomplete(s) ==
  [s EXCEPT !.actions = IF s.inAction /\ s.action.name # "" THEN Append(@, s.action) ELSE @,
            !.action = NoAction, !.inAction = FALSE]

\* flushCurrentAction
Flushed(s) ==
  [s EXCEPT !.actions = IF s.inAction /\ s.action.name # "" /\ s.action.exec # "" THEN Append(@, s.action) ELSE @,
            !.action = NoAction, !.inAction = FALSE]

\* handleDesktopSection
InSection(s, name) ==
  [Flushed(s) EXCEPT !.inEntry = (name = "entry"), !.saw = @ \/ name = "entry", !.inAction = (name = "action")]

\* desktopEntryTruthy: values are told apart as the code does.
Truthy(value) == value \in {"true", "1", "yes"}

\* applyDesktopEntryField
WithField(s, key, value) ==
  [s EXCEPT !.name = IF key = "Name" THEN value ELSE @, !.exec = IF key = "Exec" THEN value ELSE @,
            !.type = IF key = "Type" THEN value ELSE @, !.hidden = IF key = "Hidden" THEN Truthy(value) ELSE @,
            !.noDisplay = IF key = "NoDisplay" THEN Truthy(value) ELSE @]

WithActionField(s, key, value) ==
  [s EXCEPT !.action.name = IF key = "Name" THEN value ELSE @, !.action.exec = IF key = "Exec" THEN value ELSE @]

ParseLine(s, line) ==
  CASE line.section # "none" -> InSection(s, line.section)
    [] line.section = "none" /\ s.inEntry -> WithField(s, line.key, line.value)
    [] line.section = "none" /\ ~s.inEntry /\ s.inAction -> WithActionField(s, line.key, line.value)
    [] OTHER -> s

\* isLaunchableDesktopEntry
IsLaunchable(s, includeNoDisplay) ==
  s.saw /\ s.type = "Application" /\ ~s.hidden /\ (includeNoDisplay \/ ~s.noDisplay) /\ s.name # "" /\ s.exec # ""

ParsedText(text) == Flushed(FoldLeft(ParseLine, ParseStart, text))

\* parseDesktopEntryFile: the entry in a set, {} for none.
EntryOf(text, includeNoDisplay) ==
  LET s == ParsedText(text) IN
  IF IsLaunchable(s, includeNoDisplay) THEN {[name |-> s.name, exec |-> s.exec, actions |-> s.actions]} ELSE {}

----------------------------------------------------------------------------
(* The files and the database.                                             *)

Absent == [text |-> "absent", stamp |-> 0]
EntryAt(p) == IF desktopFiles[p] = Absent THEN {} ELSE EntryOf(EntryTexts[desktopFiles[p].text], FALSE)

NoRows == [p \in {} |-> p]
NoDb == [version |-> "none", rows |-> NoRows, kept |-> FALSE]
Off == [step |-> "off", rebuild |-> FALSE, left |-> {}, found |-> {}, saved |-> FALSE]

ListedRow(entry, stamp, current) == [entry |-> entry, stamp |-> stamp, current |-> current]
FilesAt(text) == IF text = "absent" THEN Absent ELSE [text |-> text, stamp |-> 1]

\* The file an earlier version left has the rows of its last scan, without action ids.
OldDb(q, e) == [version |-> "old", kept |-> FALSE, rows |-> [p \in {q} |-> ListedRow(e, 1, FALSE)]]

DesktopInit ==
  /\ desktopFiles \in [DesktopPaths -> {FilesAt(t) : t \in DOMAIN EntryTexts \cup {"absent"}}]
  /\ desktopDb \in {NoDb} \cup {OldDb(q, e) : q \in DesktopPaths, e \in UNION {EntryAt(p) : p \in DesktopPaths}}
  /\ desktopScan = Off /\ desktopShown = {}
  /\ desktopChanged = [count |-> 0, begun |-> {}, read |-> {}, overtaken |-> {}]

FoundPaths == {f.path : f \in desktopScan.found}
FoundIds == {DesktopId[p] : p \in FoundPaths}
EntryFound(p) == (CHOOSE f \in desktopScan.found : f.path = p).entry

\* initializeDatabase: the table of another version is dropped, the version written; the
\* DROP may fail unnoticed, any other statement ends the opening where it is.
CacheOpened(db) ==
  LET dropped == [db EXCEPT !.rows = NoRows] IN
  IF db.version = "current" THEN {[ok |-> TRUE, db |-> db], [ok |-> FALSE, db |-> db]}
  ELSE {[ok |-> TRUE, db |-> [dropped EXCEPT !.version = "current"]],
        [ok |-> TRUE, db |-> [db EXCEPT !.version = "current", !.kept = db.rows # NoRows]],
        [ok |-> FALSE, db |-> dropped], [ok |-> FALSE, db |-> db]}

----------------------------------------------------------------------------
(* The scan and what is kept of it.                                        *)

ScanBegins(rebuild) ==
  [step |-> "scan", rebuild |-> rebuild, left |-> DesktopPaths, found |-> {}, saved |-> FALSE]

\* start: the rows of the file are shown; without any, or without a file that opens, the
\* files are scanned at once, and again by the validator.
EntriesStart ==
  /\ desktopScan.step = "off"
  /\ \E o \in IF desktopDb = NoDb THEN {[ok |-> FALSE, db |-> NoDb]} ELSE CacheOpened(desktopDb) :
       /\ desktopDb' = IF o.ok THEN o.db ELSE NoDb
       /\ desktopShown' = {[path |-> p, entry |-> desktopDb'.rows[p].entry] : p \in DOMAIN desktopDb'.rows}
  /\ desktopScan' = ScanBegins(desktopShown' = {})
  /\ desktopChanged' = [desktopChanged EXCEPT !.begun = {}, !.read = {},
                          !.overtaken = @ \cap DOMAIN desktopDb'.rows]
  /\ UNCHANGED desktopFiles

\* scanWithDirs: the directories in their order, the files of one in any; a file that is
\* not listed does not stand for its name.
ScanFile ==
  /\ desktopScan.step = "scan"
  /\ \E p \in desktopScan.left :
       /\ \A q \in desktopScan.left : DirectoryOf[p] <= DirectoryOf[q]
       /\ desktopScan' = [desktopScan EXCEPT !.left = @ \ {p},
            !.found = @ \cup (IF DesktopId[p] \in FoundIds THEN {} ELSE {[path |-> p, entry |-> e] : e \in EntryAt(p)})]
       /\ desktopChanged' = [desktopChanged EXCEPT !.read = @ \ {p}]
  /\ UNCHANGED <<desktopFiles, desktopDb, desktopShown>>

\* The scan of start is shown before it is kept.
ScanEnds ==
  /\ desktopScan.step = "scan" /\ desktopScan.left = {}
  /\ desktopScan' = [desktopScan EXCEPT !.step = "open"]
  /\ desktopShown' = IF desktopScan.rebuild THEN desktopScan.found ELSE desktopShown
  /\ UNCHANGED <<desktopFiles, desktopDb, desktopChanged>>

\* validateAgainstCache: a file that does not open is removed and made anew.
OpenEntryCache ==
  /\ desktopScan.step \in {"open", "reopen"}
  /\ \E o \in CacheOpened(desktopDb) :
       LET removed == ~o.ok /\ desktopScan.step = "open" /\ ~desktopScan.rebuild IN
       /\ desktopDb' = IF removed THEN NoDb ELSE o.db
       /\ desktopScan' = [desktopScan EXCEPT !.step = IF o.ok THEN "persist" ELSE IF removed THEN "reopen" ELSE "ended"]
       /\ desktopChanged' = [desktopChanged EXCEPT !.overtaken = @ \cap DOMAIN desktopDb'.rows]
  /\ UNCHANGED <<desktopFiles, desktopShown>>

\* The row of a found file: kept if its stamp is the one the file has by now; the file may
\* have changed since it was read.
RowIsOfStamp(p) == p \in DOMAIN desktopDb.rows /\ desktopDb.rows[p].stamp = desktopFiles[p].stamp
RowFor(p) == IF RowIsOfStamp(p) THEN desktopDb.rows[p] ELSE ListedRow(EntryFound(p), desktopFiles[p].stamp, TRUE)

RowsOfScan == [p \in FoundPaths |-> RowFor(p)]

\* persistValidationResult, in one transaction.
Persist ==
  /\ desktopScan.step = "persist"
  /\ \E committed \in BOOLEAN :
       /\ desktopScan' = [desktopScan EXCEPT !.step = "ended", !.saved = committed]
       /\ desktopDb' = IF committed THEN [desktopDb EXCEPT !.rows = RowsOfScan] ELSE desktopDb
       /\ desktopChanged' = IF ~committed THEN desktopChanged
                            ELSE [desktopChanged EXCEPT !.overtaken =
                                    {p \in FoundPaths : IF RowIsOfStamp(p) THEN p \in @ ELSE p \in desktopChanged.read}]
  /\ UNCHANGED <<desktopFiles, desktopShown>>

\* finished of the validator; the scan of start is followed by the validator's.
Report ==
  /\ desktopScan.step = "ended"
  /\ desktopShown' = desktopScan.found
  /\ IF desktopScan.rebuild
     THEN desktopScan' = ScanBegins(FALSE) /\ desktopChanged' = [desktopChanged EXCEPT !.begun = {}, !.read = {}]
     ELSE desktopScan' = [desktopScan EXCEPT !.step = "idle"] /\ UNCHANGED desktopChanged
  /\ UNCHANGED <<desktopFiles, desktopDb>>

\* runValidator, after a change
Rescan ==
  /\ desktopScan.step = "idle" /\ desktopChanged.begun # {}
  /\ desktopScan' = ScanBegins(FALSE)
  /\ desktopChanged' = [desktopChanged EXCEPT !.begun = {}, !.read = {}]
  /\ UNCHANGED <<desktopFiles, desktopDb, desktopShown>>

\* A file is written, rewritten or removed.
DesktopFileChanges(p) ==
  /\ desktopChanged.count < MaxFileChanges
  /\ \E t \in (DOMAIN EntryTexts \cup {"absent"}) \ {desktopFiles[p].text} :
       desktopFiles' = [desktopFiles EXCEPT ![p] =
         IF t = "absent" THEN Absent ELSE [text |-> t, stamp |-> 2 + desktopChanged.count]]
  /\ desktopChanged' = [desktopChanged EXCEPT !.count = @ + 1, !.begun = @ \cup {p}, !.read = @ \cup {p}]
  /\ UNCHANGED <<desktopDb, desktopScan, desktopShown>>

\* The shell ends; an open transaction is undone.
EntriesKilled ==
  /\ desktopScan.step # "off"
  /\ desktopScan' = Off /\ desktopShown' = {}
  /\ UNCHANGED <<desktopFiles, desktopDb, desktopChanged>>

EntriesNext ==
  \/ EntriesStart \/ ScanFile \/ ScanEnds \/ OpenEntryCache \/ Persist \/ Report \/ Rescan \/ EntriesKilled
  \/ \E p \in DesktopPaths : DesktopFileChanges(p)

----------------------------------------------------------------------------
(* Properties.                                                             *)

EntriesTypeOK ==
  /\ desktopFiles \in [DesktopPaths -> [text : DOMAIN EntryTexts \cup {"absent"}, stamp : 0..MaxFileChanges + 1]]
  /\ desktopDb.version \in {"none", "old", "current"} /\ desktopDb.kept \in BOOLEAN
  /\ DOMAIN desktopDb.rows \subseteq DesktopPaths
  /\ desktopScan.step \in {"off", "scan", "open", "reopen", "persist", "ended", "idle"}
  /\ desktopScan.left \subseteq DesktopPaths /\ FoundPaths \subseteq DesktopPaths
  /\ desktopChanged.count \in 0..MaxFileChanges /\ desktopChanged.overtaken \subseteq DOMAIN desktopDb.rows

\* What a text says, without reading it line by line: a key's last value in the
\* entry's sections, and each action section with its own.
SectionLines(text) == {i \in DOMAIN text : text[i].section # "none"}
SectionAt(text, i) == IF \E j \in SectionLines(text) : j <= i THEN Max({j \in SectionLines(text) : j <= i}) ELSE 0
LastGiven(text, key, sections, default) ==
  LET given == {i \in DOMAIN text : text[i].key = key /\ SectionAt(text, i) \in sections} IN
  IF given = {} THEN default ELSE text[Max(given)].value
TextMeaning(text, includeNoDisplay) ==
  LET named(name) == {i \in SectionLines(text) : text[i].section = name}
      value(key, default) == LastGiven(text, key, named("entry"), default)
      action(i) == [name |-> LastGiven(text, "Name", {i}, ""), exec |-> LastGiven(text, "Exec", {i}, "")]
      whole == {i \in named("action") : action(i).name # "" /\ action(i).exec # ""} IN
  IF /\ named("entry") # {} /\ value("Type", "Application") = "Application"
     /\ ~Truthy(value("Hidden", "false")) /\ (includeNoDisplay \/ ~Truthy(value("NoDisplay", "false")))
     /\ value("Name", "") # "" /\ value("Exec", "") # ""
  THEN {[name |-> value("Name", ""), exec |-> value("Exec", ""),
         actions |-> [n \in 1..Cardinality(whole) |-> action(SetToSortSeq(whole, <)[n])]]}
  ELSE {}
TextsAreUnderstood == \A text \in ReadableTexts, b \in BOOLEAN : EntryOf(text, b) = TextMeaning(text, b)

\* The files that stand for their applications: the first that is listed.
Stands(p) ==
  /\ EntryAt(p) # {}
  /\ \A q \in DesktopPaths : DesktopId[q] = DesktopId[p] /\ DirectoryOf[q] < DirectoryOf[p] => EntryAt(q) = {}
Listed == UNION {{[path |-> p, entry |-> e] : e \in EntryAt(p)} : p \in {q \in DesktopPaths : Stands(q)}}

\* Whether the row of a file is what the file says, as far as the code can know: unless an earlier
\* version wrote it and it could not be dropped, or the file was rewritten after it was read and
\* before its stamp was taken.
RowIsTheFiles(p) ==
  LET row == desktopDb.rows[p] IN
  /\ row.stamp = desktopFiles[p].stamp
  /\ ~row.current => desktopDb.kept
  /\ row.entry \in EntryAt(p) \/ p \in desktopChanged.overtaken \/ ~row.current

\* When no file has changed since the last scan began, each application is listed
\* once, as the first of its files that lists it says; and if that scan was kept, the
\* rows the next start shows are those files, each as its file says.  No two rows are
\* of one application.
EntriesAreTheFiles ==
  /\ \A p, q \in DOMAIN desktopDb.rows : DesktopId[p] = DesktopId[q] => p = q
  /\ desktopScan.step = "idle" /\ desktopChanged.begun = {} =>
       /\ desktopShown = Listed
       /\ desktopScan.saved => DOMAIN desktopDb.rows = {f.path : f \in Listed} /\ \A p \in DOMAIN desktopDb.rows : RowIsTheFiles(p)

----------------------------------------------------------------------------
(* LauncherModel's scores.  A field matches a query in a kind of its own.  *)

MatchKinds == {"exact", "prefix", "word", "inside", "none"}
MatchFields == <<"name", "generic", "comment", "exec", "categories">>

\* fieldScore
FieldScore(kind, exact, prefix, word, inside) ==
  CASE kind = "exact" -> exact [] kind = "prefix" -> prefix [] kind = "word" -> word [] kind = "inside" -> inside [] OTHER -> 0

\* matchScore
MatchScore(match) ==
  LET scores == <<FieldScore(match["name"], 1000, 900, 850, 700), FieldScore(match["generic"], 650, 620, 600, 520),
                  FieldScore(match["comment"], 460, 430, 410, 340), FieldScore(match["exec"], 300, 280, 260, 220),
                  FieldScore(match["categories"], 180, 160, 140, 100)>>
      scored == {i \in 1..5 : scores[i] > 0} IN
  IF scored = {} THEN 0 ELSE scores[Min(scored)]

\* An entry comes before another if an earlier field of it matches, or the same field in
\* a closer way; what matches in no field is not listed, and neither is what scores 0.
Closeness(kind) == CASE kind = "exact" -> 1 [] kind = "prefix" -> 2 [] kind = "word" -> 3 [] OTHER -> 4
MatchRank(match) ==
  LET matched == {i \in 1..5 : match[MatchFields[i]] # "none"} IN
  IF matched = {} THEN 0 ELSE 100 - (4 * Min(matched) + Closeness(match[MatchFields[Min(matched)]]))
Ranked == {<<MatchScore(m), MatchRank(m)>> : m \in [ToSet(MatchFields) -> MatchKinds]}
ScoresAreRanks == \A r, s \in Ranked : r[1] < s[1] <=> r[2] < s[2]
=============================================================================
