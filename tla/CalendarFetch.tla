---------------------------- MODULE CalendarFetch ----------------------------
(***************************************************************************)
(* A subscribed iCalendar feed: the text of the answer, line by line, its  *)
(* parser, and the fetch that keeps one event a uid within the range asked *)
(* for.  Text is a sequence of lines, a value a sequence of pieces, since  *)
(* a long line is folded; times are counted in hours from the zone's       *)
(* midnight.  Of the properties of an event those that decide what becomes *)
(* of it are kept, the others are copied and left out.                     *)
(***************************************************************************)
EXTENDS Integers, SequencesExt, FiniteSets

CONSTANTS Feeds,        \* what the server may answer: sequences of blocks
          FeedFrom, FeedUntil,   \* the range asked for
          Zone          \* hours local time is ahead of UTC

VARIABLES
  feed,     \* the blocks the server has
  fetched   \* what fetchEvents returned, or what came instead

feedVars == <<feed, fetched>>

----------------------------------------------------------------------------
(* The text: what a calendar's blocks are written as.                      *)

\* A time is absent, no time at all, a date, a UTC or a local time; a duration
\* may lack its P, may be negative, and counts hours.
NoTime == [form |-> "absent", at |-> 0]
NoDuration == [form |-> "absent", hours |-> 0]

\* A block is an event or another component, which has the same properties.
Block == [component : {"VEVENT", "VTODO"}, uid : {<<>>, <<"u">>, <<"v">>, <<"u", "v">>},
          start : [form : {"absent", "bad", "date", "utc", "local"}, at : Int],
          end : [form : {"absent", "bad", "date", "utc", "local"}, at : Int],
          duration : [form : {"absent", "bad", "given"}, hours : Int],
          stamp : [form : {"absent", "bad", "utc"}, at : Int],
          alarm : BOOLEAN]

ASSUME FeedAssumption == Feeds \subseteq Seq(Block)

Line(name, value) == [name |-> name, value |-> value]
Unless(absent, line) == IF absent THEN <<>> ELSE <<line>>

\* A long uid is folded; the lines of an alarm have names the event's have, too.
LinesOf(b) ==
  <<Line("BEGIN", b.component)>>
    \o Unless(b.uid = <<>>, Line("UID", <<Head(b.uid)>>))
    \o Unless(Len(b.uid) < 2, Line("folded", Tail(b.uid)))
    \o Unless(b.start = NoTime, Line("DTSTART", b.start))
    \o (IF b.alarm THEN <<Line("BEGIN", "VALARM"), Line("UID", <<"a">>), Line("DURATION", [form |-> "given", hours |-> 9]),
                          Line("END", "VALARM")>> ELSE <<>>)
    \o Unless(b.end = NoTime, Line("DTEND", b.end))
    \o Unless(b.duration = NoDuration, Line("DURATION", b.duration))
    \o Unless(b.stamp = NoTime, Line("DTSTAMP", b.stamp))
    \o <<Line("no colon", <<>>), Line("END", b.component)>>

TextOf(blocks) ==
  <<Line("BEGIN", "VCALENDAR")>> \o FlattenSeq([i \in 1..Len(blocks) |-> LinesOf(blocks[i])]) \o <<Line("END", "VCALENDAR")>>

----------------------------------------------------------------------------
(* The parser.                                                             *)

\* unfoldLines
Unfolded(text) ==
  FoldLeft(LAMBDA lines, l : IF l.name = "folded" /\ lines # <<>>
                             THEN [lines EXCEPT ![Len(lines)].value = @ \o l.value] ELSE Append(lines, l),
           <<>>, text)

\* An invalid QDateTime
Invalid == -99

\* parseDtValue: the hour, and whether the event lasts all day
Instant(t) ==
  CASE t.form \in {"date", "utc"} -> t.at
    [] t.form = "local" -> t.at - Zone
    [] OTHER -> Invalid

\* addDuration
After(start, d) == IF d.form = "given" THEN start + d.hours ELSE Invalid

\* VEventData
NoEvent == [uid |-> <<>>, start |-> NoTime, end |-> NoTime, duration |-> NoDuration, stamp |-> NoTime, alarms |-> 0]

\* buildCalendarEvent: an event without uid or start is skipped; the end is the one
\* given, or else the duration's.
EndOf(e) ==
  IF e.end # NoTime THEN Instant(e.end)
  ELSE IF e.duration # NoDuration THEN After(Instant(e.start), e.duration) ELSE Invalid

Builds(e) == e.uid # <<>> /\ e.start # NoTime /\ Instant(e.start) # Invalid

Event(e) == [uid |-> e.uid, start |-> Instant(e.start), end |-> EndOf(e), allDay |-> e.start.form = "date",
             stamp |-> Instant(e.stamp), alarms |-> e.alarms]

\* accumulateVEventProp
Accumulated(e, l) ==
  CASE l.name = "UID" -> [e EXCEPT !.uid = l.value]
    [] l.name = "DTSTART" -> [e EXCEPT !.start = l.value]
    [] l.name = "DTEND" -> [e EXCEPT !.end = l.value]
    [] l.name = "DURATION" -> [e EXCEPT !.duration = l.value]
    [] l.name = "DTSTAMP" -> [e EXCEPT !.stamp = l.value]
    [] OTHER -> e

ParseState == [calendar |-> FALSE, event |-> FALSE, alarm |-> FALSE, alarmLines |-> 0, current |-> NoEvent, result |-> <<>>]

\* processLine
BlockBegun(p, what) ==
  CASE what = "VCALENDAR" -> [p EXCEPT !.calendar = TRUE]
    [] what = "VEVENT" /\ p.calendar -> [p EXCEPT !.event = TRUE, !.current = NoEvent]
    [] what = "VALARM" /\ p.event -> [p EXCEPT !.alarm = TRUE, !.alarmLines = 0]
    [] OTHER -> p

BlockEnded(p, what) ==
  CASE what = "VALARM" /\ p.alarm ->
         [p EXCEPT !.alarm = FALSE, !.current.alarms = @ + IF p.alarmLines > 0 THEN 1 ELSE 0]
    [] what = "VEVENT" /\ p.event ->
         [p EXCEPT !.event = FALSE, !.result = IF Builds(p.current) THEN Append(@, Event(p.current)) ELSE @]
    [] what = "VCALENDAR" -> [p EXCEPT !.calendar = FALSE]
    [] OTHER -> p

Processed(p, l) ==
  CASE l.name = "BEGIN" -> BlockBegun(p, l.value)
    [] l.name = "END" -> BlockEnded(p, l.value)
    [] l.name \notin {"BEGIN", "END"} /\ p.alarm -> [p EXCEPT !.alarmLines = @ + 1]
    [] l.name \notin {"BEGIN", "END"} /\ ~p.alarm /\ p.event -> [p EXCEPT !.current = Accumulated(@, l)]
    [] OTHER -> p

\* parseEvents; a line without a colon has no name.
ParseEvents(text) ==
  FoldLeft(Processed, ParseState, SelectSeq(Unfolded(text), LAMBDA l : l.name # "no colon")).result

----------------------------------------------------------------------------
(* IcsProvider.                                                            *)

\* deduplicateByUid: in the place of the first, the later of two stamps, or the later line.
Replaces(new, old) == Invalid \notin {new.stamp, old.stamp} => new.stamp > old.stamp

Deduplicated(events) ==
  FoldLeft(LAMBDA kept, e :
             LET same == {i \in 1..Len(kept) : kept[i].uid = e.uid} IN
             IF same = {} THEN Append(kept, e)
             ELSE LET i == CHOOSE i \in same : TRUE IN IF Replaces(e, kept[i]) THEN [kept EXCEPT ![i] = e] ELSE kept,
           <<>>, events)

WithinRange(events) == SelectSeq(events, LAMBDA e : e.start >= FeedFrom /\ e.start < FeedUntil)

NotFetched == [state |-> "none", events |-> <<>>]

FeedInit == feed \in Feeds /\ fetched = NotFetched

\* fetchEvents, with an answer, with something else, and without an answer in time
FeedAnswers ==
  /\ fetched.state = "none"
  /\ fetched' = [state |-> "fetched", events |-> WithinRange(Deduplicated(ParseEvents(TextOf(feed))))]
  /\ UNCHANGED feed

FeedFails ==
  /\ fetched.state = "none"
  /\ \E e \in {"NetworkError", "ConnectError"} : fetched' = [state |-> e, events |-> <<>>]
  /\ UNCHANGED feed

\* onSyncFinished takes what came; the feed may be fetched again.
FeedTaken == fetched.state # "none" /\ fetched' = NotFetched /\ UNCHANGED feed

FeedNext == FeedAnswers \/ FeedFails \/ FeedTaken

FeedTypeOK ==
  /\ feed \in Seq(Block)
  /\ fetched.state \in {"none", "fetched", "NetworkError", "ConnectError"}

----------------------------------------------------------------------------
(* Properties.                                                             *)

\* What an event block stands for.
Meaning(b) == Event([uid |-> b.uid, start |-> b.start, end |-> b.end, duration |-> b.duration, stamp |-> b.stamp,
                     alarms |-> IF b.alarm THEN 1 ELSE 0])
Meant(blocks) ==
  {Meaning(b) : b \in {x \in Range(blocks) : x.component = "VEVENT" /\ x.uid # <<>> /\ x.start.form \notin {"absent", "bad"}}}

\* A fetch finds each event of the feed with its own properties, never those of an
\* alarm, of a to-do or of a line that belongs to its neighbour, and no other;
\* of the events with one uid it keeps one, a newest if all are stamped.
FeedIsUnderstood ==
  fetched.state = "fetched" =>
    LET meant == Meant(feed)  events == Range(fetched.events) IN
    /\ events \subseteq meant
    /\ \A e, f \in events : e.uid = f.uid => e = f
    /\ \A m \in meant :
         LET alike == {x \in meant : x.uid = m.uid} IN
         IF \A x \in alike : x.stamp # Invalid
         THEN LET newest == {x \in alike : \A y \in alike : x.stamp >= y.stamp} IN
              /\ \A e \in events : e.uid = m.uid => e \in newest
              /\ (\A x \in newest : x.start \in FeedFrom..(FeedUntil - 1)) => \E e \in events : e.uid = m.uid
         ELSE (\A x \in alike : x.start \in FeedFrom..(FeedUntil - 1)) => \E e \in events : e.uid = m.uid

----------------------------------------------------------------------------
(***************************************************************************)
(* One fetch of a CalDAV account on its worker: the password, the          *)
(* principal, the list of calendars, and a report of each, one request     *)
(* after the other while the server's calendars change under them.  An     *)
(* event is its uid; the server reports those in the range.                *)
(***************************************************************************)

CONSTANTS Calendars,       \* collections of the server
          Uids,            \* events
          Chosen,          \* the sets of names include may list, {} for all
          MaxServerSteps   \* bound: changes of the server

Names == {"home", "work"}

ASSUME DavAssumption == IsFiniteSet(Calendars) /\ Chosen \subseteq SUBSET Names /\ MaxServerSteps \in Nat

VARIABLES
  server,   \* calendar -> its events, name and type; the URLs that list the calendars; changes so far
  fetch,    \* the worker: its step, the calendars it has yet to ask, what it has, whether some
            \* answer was not the whole document asked for, and what it answers itself
  davConfig, \* the account's include and exclude
  seen      \* for the properties: the calendars selected at some time since the fetch began, the places
            \* of events that have been theirs ever since, and the places that were at some time

davVars == <<server, fetch, davConfig, seen>>

NoFetch == [step |-> "idle", url |-> "none", left |-> <<>>, events |-> {}, cut |-> FALSE, answer |-> "none"]

NotSeen == [selected |-> {}, stayed |-> {}, been |-> {}]

\* The calendars of server s, by include and exclude.
Selected(s) ==
  {c \in Calendars : /\ s.kind[c] = "calendar"
                     /\ davConfig.include = {} \/ s.name[c] \in davConfig.include
                     /\ s.name[c] \notin davConfig.exclude}

\* <<calendar, event>> of the calendars in S
PlacesIn(s, S) == {p \in S \X Uids : p[2] \in s.events[p[1]]}

DavTypeOK ==
  /\ server.events \in [Calendars -> SUBSET Uids] /\ server.steps \in 0..MaxServerSteps
  /\ fetch.step \in {"idle", "password", "principal", "list", "report", "ended"}
  /\ fetch.events \subseteq Uids /\ fetch.cut \in BOOLEAN
  /\ fetch.answer \in {"none", "events", "error"}

\* The principal and the configured URL each may list the calendars or list none.
Urls == {"principal", "configured"}

DavInit ==
  /\ \E e \in [Calendars -> SUBSET Uids], n \in [Calendars -> Names], k \in [Calendars -> {"calendar", "other"}], l \in SUBSET Urls :
       server = [events |-> e, name |-> n, kind |-> k, lists |-> l, steps |-> 0]
  /\ davConfig \in [include : Chosen, exclude : {{}, {"home"}}]
  /\ fetch = NoFetch
  /\ seen = NotSeen

----------------------------------------------------------------------------
Ask(step) == fetch' = [fetch EXCEPT !.step = step]
End(answer) == fetch' = [fetch EXCEPT !.step = "ended", !.answer = answer]

\* runProviderSync starts the worker.
FetchStarts ==
  /\ fetch.step = "idle"
  /\ Ask("password")
  /\ LET S == Selected(server) IN seen' = [selected |-> S, stayed |-> PlacesIn(server, S), been |-> PlacesIn(server, S)]
  /\ UNCHANGED <<server, davConfig>>

\* lookupPassword
PasswordFound ==
  /\ fetch.step = "password"
  /\ Ask("principal") \/ End("error")
  /\ UNCHANGED <<server, davConfig, seen>>

\* resolvePrincipalUrl: without an answer that names a principal, the configured URL serves.
PrincipalResolved ==
  /\ fetch.step = "principal"
  /\ \E url \in Urls : fetch' = [fetch EXCEPT !.step = "list", !.url = url]
  /\ UNCHANGED <<server, davConfig, seen>>

\* discoverCalendars, in the order the server lists them.  A successful answer that is no
\* multistatus, or ends early, has the calendars up to there: nobody asks the reader for an
\* error.
CalendarsDiscovered ==
  /\ fetch.step = "list"
  /\ \/ End("error")
     \/ LET whole == IF fetch.url \in server.lists THEN Selected(server) ELSE {} IN
        \E asked \in SUBSET whole : \E order \in [1..Cardinality(asked) -> asked] :
          /\ {order[i] : i \in DOMAIN order} = asked
          /\ fetch' = [fetch EXCEPT !.step = "report", !.left = order, !.cut = (asked # whole)]
  /\ UNCHANGED <<server, davConfig, seen>>

\* fetchCalendarEvents of the next calendar, whose failure fails the fetch, or the end of the
\* list.  Of an answer that is not whole, the events up to there are taken.
CalendarReported ==
  /\ fetch.step = "report"
  /\ IF fetch.left = <<>> THEN End("events")
     ELSE \/ End("error")
          \/ LET whole == server.events[Head(fetch.left)] IN
             \E got \in SUBSET whole :
               fetch' = [fetch EXCEPT !.left = Tail(@), !.events = @ \cup got, !.cut = (@ \/ got # whole)]
  /\ UNCHANGED <<server, davConfig, seen>>

\* onSyncFinished takes the answer; the account may be fetched again.
FetchTaken ==
  /\ fetch.step = "ended"
  /\ fetch' = NoFetch
  /\ seen' = NotSeen
  /\ UNCHANGED <<server, davConfig>>

\* The server changes: an event appears, goes or moves to another calendar, a calendar is renamed.
ServerChanges ==
  /\ server.steps < MaxServerSteps
  /\ \/ \E c \in Calendars, u \in Uids :
          \/ server' = [server EXCEPT !.events[c] = IF u \in @ THEN @ \ {u} ELSE @ \cup {u}, !.steps = @ + 1]
          \/ \E d \in Calendars \ {c} :
               /\ u \in server.events[c]
               /\ server' = [server EXCEPT !.events[c] = @ \ {u}, !.events[d] = @ \cup {u}, !.steps = @ + 1]
     \/ \E c \in Calendars, n \in Names : server' = [server EXCEPT !.name[c] = n, !.steps = @ + 1]
  /\ LET S == seen.selected \cup Selected(server') IN
     seen' = IF fetch.step = "idle" THEN seen
             ELSE [selected |-> S, stayed |-> seen.stayed \cap PlacesIn(server', Selected(server')),
                   been |-> seen.been \cup PlacesIn(server', S)]
  /\ UNCHANGED <<fetch, davConfig>>

DavNext ==
  \/ FetchStarts \/ PasswordFound \/ PrincipalResolved \/ CalendarsDiscovered \/ CalendarReported
  \/ FetchTaken \/ ServerChanges

----------------------------------------------------------------------------
(* Properties.                                                             *)

\* What a fetch answers is what its cache is made equal to.  It holds no event that has been
\* in no selected calendar meanwhile; and it lacks none that has stayed in one, if the URL
\* it asked lists the calendars and every answer was whole, neither of which the code checks.
FetchIsComplete ==
  fetch.answer = "events" =>
    /\ fetch.events \subseteq {p[2] : p \in seen.been}
    /\ fetch.url \in server.lists /\ ~fetch.cut => {p[2] : p \in seen.stayed} \subseteq fetch.events
=============================================================================
