----------------------------- MODULE MimeDefaults -----------------------------
(***************************************************************************)
(* MimeService: the default application of each MIME type and of the       *)
(* browser, read and written by xdg-mime and xdg-settings processes that   *)
(* end in any order, or are killed.  The files that exist at the start are *)
(* watched, also for the changes of other programs.                        *)
(***************************************************************************)
EXTENDS Naturals, FiniteSets

CONSTANTS MimeTypes,    \* the types of one role
          Browser,      \* stands for browser_default_
          Handlers,     \* desktop files
          MimeLists,    \* mimeapps.list files
          NoHandler,
          MaxSets,      \* bound: processes that set a default
          MaxQueries    \* bound: queries that still run when another default is set

MimeKeys == MimeTypes \cup {Browser}

ASSUME MimeAssumption == Handlers # {}

VARIABLES
  mimeFiles,    \* the defaults in the mimeapps.list files
  mimeCache,    \* mime_cache_ and browser_default_
  mimeQueries,  \* processes that query; live: their generation is the current one
  mimeSets,     \* processes that set a default
  mimeTimer,    \* mime_debounce_timer_
  mimeWatched,  \* mime_file_watcher_
  mimeMissed    \* keys whose last reading failed, or whose refresh met a query
                \* that had read before, or that were last written to a file that is not
                \* watched; not in the code

mimeVars == <<mimeFiles, mimeCache, mimeQueries, mimeSets, mimeTimer, mimeWatched, mimeMissed>>

MimeTypeOK ==
  /\ mimeFiles \in [MimeKeys -> Handlers \cup {NoHandler}]
  /\ mimeCache \in [MimeKeys -> Handlers \cup {NoHandler}]
  /\ mimeQueries \subseteq [key : MimeKeys, live : BOOLEAN, done : BOOLEAN, result : Handlers \cup {NoHandler}]
  /\ mimeSets \subseteq [id : 1..MaxSets, key : MimeKeys, handler : Handlers, written : BOOLEAN]
  /\ mimeTimer \in BOOLEAN /\ mimeWatched \subseteq MimeLists /\ mimeMissed \subseteq MimeKeys

\* The constructor watches the files that exist; refreshAllRoles is due once the loop runs.
MimeInit ==
  /\ mimeFiles \in [MimeKeys -> {NoHandler, CHOOSE h \in Handlers : TRUE}]
  /\ mimeCache = [k \in MimeKeys |-> NoHandler]
  /\ mimeQueries = {} /\ mimeSets = {} /\ mimeTimer = TRUE /\ mimeMissed = {}
  /\ mimeWatched \in SUBSET MimeLists

----------------------------------------------------------------------------
NewQuery(k) == [key |-> k, live |-> TRUE, done |-> FALSE, result |-> NoHandler]
Pending(queries, k) == {q \in queries : q.key = k /\ q.live}

\* queryMimeAsync, queryBrowserAsync: one query per key.
Query(queries, k) == IF Pending(queries, k) # {} THEN queries ELSE queries \cup {NewQuery(k)}

\* refreshAllRoles: after the debounce of a change, and at the start.
RefreshAllRoles ==
  /\ mimeTimer
  /\ mimeTimer' = FALSE
  /\ mimeQueries' = mimeQueries \cup {NewQuery(k) : k \in {x \in MimeKeys : Pending(mimeQueries, x) = {}}}
  /\ mimeMissed' = {k \in MimeKeys : \E q \in Pending(mimeQueries, k) : q.done}
  /\ UNCHANGED <<mimeFiles, mimeCache, mimeSets, mimeWatched>>

\* Ghost: a reading of the key is due, or runs and has not read.
IsDue(k) == mimeTimer \/ \E q \in Pending(mimeQueries, k) : ~q.done

\* A list is written, so that the default of the key is h: fileChanged starts the timer if it is
\* watched.
ListWritten(k, h, list) ==
  /\ mimeFiles' = [mimeFiles EXCEPT ![k] = h]
  /\ mimeTimer' = (mimeTimer \/ list \in mimeWatched)
  /\ mimeMissed' = IF list \in mimeWatched \/ IsDue(k) THEN mimeMissed ELSE mimeMissed \cup {k}

\* Another program sets a default, or removes the list: then nothing adds it again that finds it gone.
FileChanges(k, h, list) ==
  /\ mimeFiles[k] # h
  /\ ListWritten(k, h, list)
  /\ mimeWatched' \in {mimeWatched, mimeWatched \ {list}}
  /\ UNCHANGED <<mimeCache, mimeQueries, mimeSets>>

\* The process of a query reads, or fails.
QueryReads(q) ==
  /\ q \in mimeQueries /\ ~q.done
  /\ \/ /\ mimeQueries' = (mimeQueries \ {q}) \cup {[q EXCEPT !.done = TRUE, !.result = mimeFiles[q.key]]}
        /\ UNCHANGED mimeMissed
     \/ /\ mimeQueries' = (mimeQueries \ {q}) \cup {[q EXCEPT !.done = TRUE]}
        /\ mimeMissed' = IF q.live THEN mimeMissed \cup {q.key} ELSE mimeMissed
  /\ UNCHANGED <<mimeFiles, mimeCache, mimeSets, mimeTimer, mimeWatched>>

\* The result is of the current generation.
IsCurrent(q) == q.live

\* onQueryResult, onBrowserQueryResult
QueryEnds(q) ==
  /\ q \in mimeQueries /\ q.done
  /\ mimeQueries' = mimeQueries \ {q}
  /\ mimeCache' = IF IsCurrent(q) THEN [mimeCache EXCEPT ![q.key] = q.result] ELSE mimeCache
  /\ UNCHANGED <<mimeFiles, mimeSets, mimeTimer, mimeWatched, mimeMissed>>

\* setDefault... of a role, or of the browser: a process for each key.
SetDefault(h, keys) ==
  LET free == CHOOSE i \in 1..MaxSets : \A s \in mimeSets : s.id # i IN
  /\ Cardinality(mimeQueries) <= MaxQueries
  /\ \E i \in 1..MaxSets : \A s \in mimeSets : s.id # i
  /\ mimeSets' = mimeSets \cup {[id |-> free, key |-> k, handler |-> h, written |-> FALSE] : k \in keys}
  /\ UNCHANGED <<mimeFiles, mimeCache, mimeQueries, mimeTimer, mimeWatched, mimeMissed>>

\* xdg-mime or xdg-settings writes; a list it has made is not watched.
SetWrites(s) ==
  /\ s \in mimeSets /\ ~s.written
  /\ mimeSets' = (mimeSets \ {s}) \cup {[s EXCEPT !.written = TRUE]}
  /\ \E list \in MimeLists : ListWritten(s.key, s.handler, list)
  /\ UNCHANGED <<mimeCache, mimeQueries, mimeWatched>>

\* The callback: a MIME type is written once more by the shell, which may fail halfway, its running
\* queries are of an old generation and it is read again; the browser is only read again.
SetEnds(s) ==
  /\ s \in mimeSets
  /\ mimeSets' = mimeSets \ {s}
  /\ UNCHANGED mimeWatched
  /\ \/ UNCHANGED <<mimeFiles, mimeCache, mimeQueries, mimeTimer, mimeMissed>>
     \/ /\ s.written /\ s.key # Browser
        /\ \E list \in MimeLists : ListWritten(s.key, s.handler, list)
        /\ UNCHANGED <<mimeCache, mimeQueries>>
     \/ /\ s.written /\ s.key # Browser
        /\ LET old == {[q EXCEPT !.live = @ /\ q.key # s.key] : q \in mimeQueries} IN
           mimeQueries' = Query(old, s.key)
        /\ mimeFiles' = [mimeFiles EXCEPT ![s.key] = s.handler]
        /\ mimeCache' = [mimeCache EXCEPT ![s.key] = s.handler]
        /\ mimeMissed' = mimeMissed \ {s.key}
        /\ \E list \in MimeLists : mimeTimer' = (mimeTimer \/ list \in mimeWatched)
     \/ /\ s.written /\ s.key = Browser
        /\ mimeQueries' = Query(mimeQueries, Browser)
        /\ mimeMissed' = IF \E q \in Pending(mimeQueries, Browser) : q.done THEN mimeMissed \cup {Browser} ELSE mimeMissed
        /\ UNCHANGED <<mimeFiles, mimeCache, mimeTimer>>

MimeNext ==
  \/ RefreshAllRoles
  \/ \E k \in MimeKeys, h \in Handlers, list \in MimeLists : FileChanges(k, h, list)
  \/ \E q \in mimeQueries : QueryReads(q) \/ QueryEnds(q)
  \/ \E h \in Handlers : SetDefault(h, MimeTypes) \/ SetDefault(h, {Browser})
  \/ \E s \in mimeSets : SetWrites(s) \/ SetEnds(s)

----------------------------------------------------------------------------
(* Properties.                                                             *)

\* Once no process runs and no refresh is due, the defaults shown are those in the
\* files, whatever queries and settings crossed each other, but for a reading that
\* failed, a refresh that met a query that had read before, and a change of a list that is not
\* watched and that nothing was still to read.  A query that has been overtaken by a setting never
\* decides.
MimeDefaultsSettle ==
  /\ mimeQueries = {} /\ mimeSets = {} /\ ~mimeTimer =>
       \A k \in MimeKeys \ mimeMissed : mimeCache[k] = mimeFiles[k]
  /\ \A k \in MimeKeys : Cardinality(Pending(mimeQueries, k)) <= 1
=============================================================================
