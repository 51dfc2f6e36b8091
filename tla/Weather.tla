------------------------------ MODULE Weather ------------------------------
(***************************************************************************)
(* WeatherService and its WeatherProvider: configuration at run time,      *)
(* location lookup, fetches, retries with back-off, the cache file and the *)
(* two pauses (user idle, lid closed).  Everything runs on the Qt main     *)
(* thread; network replies arrive as events unless they were cancelled.    *)
(* A configuration is a model value for all that cacheIdentity covers, a   *)
(* forecast is the configuration and the place it was asked for.           *)
(***************************************************************************)
EXTENDS Integers

CONSTANTS Fixed,     \* configurations with coordinates; each is also its place
          Named,       \* those whose city name is looked up (reverseGeocode)
          Lookup,    \* configurations whose place is looked up (city or IP address)
          Unusable,  \* configurations for which computeConfigured is false
          Found,     \* places a lookup may find
          Interval,  \* refresh_interval, in units of kBackoffBaseSecs
          MaxStep,   \* bound: backoff_step_ is not counted beyond this
          NoData

ASSUME ConfigsAssumption ==
  /\ Named \subseteq Fixed
  /\ Fixed \cap Lookup = {} /\ Fixed \cap Unusable = {} /\ Lookup \cap Unusable = {}
ASSUME IntervalAssumption == Interval \in Nat \ {0} /\ MaxStep \in Nat \ {0}

VARIABLES
  started,  \* started_
  weatherConfig,   \* the configuration in force
  weatherIdle,     \* idle_paused_
  lid,      \* lid_paused_
  req,      \* location and requests: pending flags and replies in flight
  timer,    \* refresh_timer_'s interval, 0 when stopped
  step,     \* backoff_step_
  shown,    \* current_, hourly_ and daily_; has_data_ when not NoData
  stale,    \* stale_
  aging,    \* stale_timer_ is active
  disk      \* weather.json

weatherVars == <<started, weatherConfig, weatherIdle, lid, req, timer, step, shown, stale, aging, disk>>

Configs == Fixed \cup Lookup \cup Unusable
Places == Fixed \cup Found
Forecasts == [config : Configs, place : Places]
Files == [identity : Configs, forecast : Forecasts]
NoPlace == NoData
Failures == {"none", "transient", "authentication"}

Requests == [geoPending : BOOLEAN, fetchPending : BOOLEAN, failed : Failures,
             resolved : BOOLEAN, at : Places \cup {NoPlace},
             geo : BOOLEAN, name : BOOLEAN, weather : Forecasts \cup {NoData}]

WeatherTypeOK ==
  /\ started \in BOOLEAN
  /\ weatherConfig \in Configs
  /\ weatherIdle \in BOOLEAN /\ lid \in BOOLEAN
  /\ req \in Requests
  /\ timer \in 0..Interval
  /\ step \in 0..MaxStep
  /\ shown \in Forecasts \cup {NoData}
  /\ stale \in BOOLEAN
  /\ aging \in BOOLEAN
  /\ disk \in Files \cup {NoData}

NoRequest == [geoPending |-> FALSE, fetchPending |-> FALSE, failed |-> "none",
              resolved |-> FALSE, at |-> NoPlace,
              geo |-> FALSE, name |-> FALSE, weather |-> NoData]

\* The cache file is what an earlier run of the shell left.
WeatherInit ==
  /\ started = FALSE
  /\ weatherConfig \in Configs
  /\ weatherIdle = FALSE
  /\ lid = FALSE
  /\ req = NoRequest
  /\ timer = 0
  /\ step = 0
  /\ shown = NoData
  /\ stale = TRUE
  /\ aging = FALSE
  /\ disk \in {NoData} \cup
       {f \in Files : f.forecast.config = f.identity /\ f.identity \notin Unusable
                        /\ (f.identity \in Fixed => f.forecast.place = f.identity)}

----------------------------------------------------------------------------
\* computeConfigured
Configured == weatherConfig \notin Unusable

Paused == weatherIdle \/ lid

\* fetch, with the location resolved.
Fetch(r, c) ==
  [r EXCEPT !.failed = "none", !.fetchPending = TRUE,
            !.weather = [config |-> c, place |-> r.at]]

\* resolveLocation; a paused service does nothing.
Resolve(r, c, paused) ==
  IF paused \/ c \in Unusable THEN r
  ELSE IF c \in Lookup THEN [r EXCEPT !.geoPending = TRUE, !.geo = TRUE]
  ELSE Fetch([r EXCEPT !.at = c, !.resolved = TRUE, !.name = @ \/ c \in Named], c)

\* fetch: resolves the location first when it is not.
FetchOrResolve(r, c) == IF r.resolved THEN Fetch(r, c) ELSE Resolve(r, c, FALSE)

\* cancelPending, and both pending flags reset.
Cancelled(r) ==
  [r EXCEPT !.geoPending = FALSE, !.fetchPending = FALSE,
            !.geo = FALSE, !.name = FALSE, !.weather = NoData]

\* loadCache for configuration c: only a file of the same identity is used.
Loaded(c) ==
  IF c \notin Unusable /\ disk # NoData /\ disk.identity = c THEN disk.forecast ELSE NoData

\* saveCache
Saved(f) == [identity |-> weatherConfig, forecast |-> f]

\* Mutant: what is shown stays when the place is another one.
KeepsShown(at) == shown

\* What stays shown once the lookup has found the place.
ShownAt(at) == IF shown # NoData /\ req.at # at THEN NoData ELSE shown

\* stepBackoff, counted up to the bound.
Stepped(s) == IF s < MaxStep THEN s + 1 ELSE s

\* nextBackoffMs: doubled at each step, up to the refresh interval.
Delay(s) ==
  IF s <= 0 \/ 2 ^ (s - 1) \notin 1..Interval THEN Interval ELSE 2 ^ (s - 1)

\* Mutant: no fetch is tried again.
NoRetry(kind) == FALSE

\* A failed fetch is tried again unless the key was refused.
Retries(kind) == kind # "authentication"

----------------------------------------------------------------------------
\* The configuration c takes effect from nothing shown: the cache is loaded,
\* with the age of what is in it, and the location resolved.
Begin(r, c) ==
  LET f == Loaded(c)
      at == IF f = NoData THEN r.at ELSE f.place IN
  /\ shown' = f
  /\ stale' \in IF f = NoData THEN {TRUE} ELSE BOOLEAN
  /\ req' = Resolve([r EXCEPT !.at = at], c, Paused)

Start ==
  /\ ~started
  /\ started' = TRUE
  /\ Begin(req, weatherConfig)
  /\ UNCHANGED <<weatherConfig, weatherIdle, lid, timer, step, aging, disk>>

\* onConfigChanged with another request.
WeatherConfigChanged(c) ==
  /\ started
  /\ c # weatherConfig
  /\ weatherConfig' = c
  /\ timer' = 0
  /\ aging' = FALSE
  /\ step' = IF c \in Unusable THEN step ELSE 0
  /\ Begin([Cancelled(req) EXCEPT !.resolved = FALSE], c)
  /\ UNCHANGED <<started, weatherIdle, lid, disk>>

\* onConfigChanged with the same request and another refresh interval.
IntervalChanged ==
  /\ started /\ Configured /\ ~Paused
  /\ step' = 0
  /\ timer' = Interval
  /\ UNCHANGED <<started, weatherConfig, weatherIdle, lid, req, shown, stale, aging, disk>>

\* onRefreshTimer
RefreshTimer ==
  /\ timer # 0
  /\ timer' = 0
  /\ req' = FetchOrResolve(req, weatherConfig)
  /\ UNCHANGED <<started, weatherConfig, weatherIdle, lid, step, shown, stale, aging, disk>>

\* onGeoFetched, from the provider's onGeoReply or geocodeCity.
GeoFetched(at) ==
  /\ req.geo /\ req.geoPending /\ ~Paused
  /\ shown' = ShownAt(at)
  /\ req' = Fetch([req EXCEPT !.geo = FALSE, !.geoPending = FALSE, !.at = at,
                              !.resolved = TRUE], weatherConfig)
  /\ UNCHANGED <<started, weatherConfig, weatherIdle, lid, timer, step, stale, aging, disk>>

\* onGeoError
GeoError ==
  /\ req.geo /\ req.geoPending /\ ~Paused
  /\ req' = [req EXCEPT !.geo = FALSE, !.geoPending = FALSE]
  /\ stale' = TRUE
  /\ step' = Stepped(step)
  /\ timer' = Delay(Stepped(step))
  /\ UNCHANGED <<started, weatherConfig, weatherIdle, lid, shown, aging, disk>>

\* onLocationFetched, which saves the name with the forecast, or locationError.
LocationReply(ok, written) ==
  /\ req.name
  /\ req' = [req EXCEPT !.name = FALSE]
  /\ disk' = IF ok /\ written /\ shown # NoData THEN Saved(shown) ELSE disk
  /\ UNCHANGED <<started, weatherConfig, weatherIdle, lid, timer, step, shown, stale, aging>>

\* onWeatherFetched and maybeComplete; the cache file may fail to be written.
WeatherFetched(written) ==
  /\ req.weather # NoData /\ req.fetchPending /\ ~Paused
  /\ shown' = req.weather
  /\ req' = [req EXCEPT !.weather = NoData, !.fetchPending = FALSE]
  /\ stale' = FALSE
  /\ aging' = TRUE
  /\ step' = 0
  /\ timer' = Interval
  /\ disk' = IF written THEN Saved(req.weather) ELSE disk
  /\ UNCHANGED <<started, weatherConfig, weatherIdle, lid>>

\* onFetchError: fetch_pending_ stays set, and a refused key ends the retries.
FetchError(kind) ==
  /\ req.weather # NoData /\ req.fetchPending /\ ~Paused
  /\ req' = [req EXCEPT !.weather = NoData, !.failed = kind]
  /\ stale' = TRUE
  /\ \/ /\ Retries(kind)
        /\ step' = Stepped(step)
        /\ timer' = Delay(Stepped(step))
     \/ /\ ~Retries(kind)
        /\ timer' = 0
        /\ UNCHANGED step
  /\ UNCHANGED <<started, weatherConfig, weatherIdle, lid, shown, aging, disk>>

\* onStaleTimer
StaleTimer ==
  /\ aging
  /\ aging' = FALSE
  /\ stale' = TRUE
  /\ UNCHANGED <<started, weatherConfig, weatherIdle, lid, req, timer, step, shown, disk>>

\* What a pause does to the requests, and a resume when no other pause is left.
Pause ==
  /\ timer' = 0
  /\ req' = Cancelled(req)

Resume(otherPause) ==
  \/ /\ ~otherPause /\ Configured
     /\ req' = FetchOrResolve(req, weatherConfig)
     /\ timer' = Interval
  \/ /\ otherPause \/ ~Configured
     /\ UNCHANGED <<req, timer>>

\* onIdleChanged
WeatherIdleChanged ==
  /\ started
  /\ weatherIdle' = ~weatherIdle
  /\ IF weatherIdle' THEN Pause ELSE Resume(lid)
  /\ UNCHANGED <<started, weatherConfig, lid, step, shown, stale, aging, disk>>

\* pauseActivity and resumeActivity
WeatherLidChanged ==
  /\ started
  /\ lid' = ~lid
  /\ IF lid' THEN Pause ELSE Resume(weatherIdle)
  /\ UNCHANGED <<started, weatherConfig, weatherIdle, step, shown, stale, aging, disk>>

GeoReply == (\E at \in Found : GeoFetched(at)) \/ GeoError
WeatherReply ==
  \/ \E written \in BOOLEAN : WeatherFetched(written)
  \/ \E kind \in {"transient", "authentication"} : FetchError(kind)

WeatherNext ==
  \/ Start
  \/ \E c \in Configs : WeatherConfigChanged(c)
  \/ IntervalChanged
  \/ RefreshTimer
  \/ GeoReply
  \/ \E ok, written \in BOOLEAN : LocationReply(ok, written)
  \/ WeatherReply
  \/ StaleTimer
  \/ WeatherIdleChanged
  \/ WeatherLidChanged

\* Replies arrive, at the latest by the transfer timeout, and timers fire.
Fairness == WF_weatherVars(RefreshTimer) /\ WF_weatherVars(GeoReply) /\ WF_weatherVars(WeatherReply)

WeatherSpec == WeatherInit /\ [][WeatherNext]_weatherVars
FairSpec == WeatherSpec /\ Fairness

----------------------------------------------------------------------------
(* Properties.                                                             *)

InFlight == req.geo \/ req.weather # NoData

\* What is shown, fetched or loaded from the cache was asked for by the
\* configuration in force, for the place now resolved, and the cache file holds
\* a forecast of the configuration it is filed under.
ShownIsForConfig ==
  /\ shown # NoData => shown.config = weatherConfig /\ shown.place = req.at
  /\ req.weather # NoData => req.weather.config = weatherConfig /\ req.weather.place = req.at
  /\ disk # NoData => disk.forecast.config = disk.identity

\* While the user is idle or the lid is closed nothing is asked of the network
\* and no timer will ask, whatever is reconfigured meanwhile.
PausedIsQuiet ==
  Paused => ~InFlight /\ ~req.name /\ timer = 0

\* The service neither shows nor asks for anything but the forecast of the
\* configuration in force, and asks only while the user is there.
WeatherIsForConfig == ShownIsForConfig /\ PausedIsQuiet

\* The forecast is asked for again and again while the service is configured
\* and not paused, through failures of the lookup, of the fetch and of pauses,
\* until the key is refused.
FetchesAgain ==
  []<>(~started \/ InFlight \/ Paused \/ ~Configured \/ req.failed = "authentication")
=============================================================================
