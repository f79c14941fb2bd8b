---------------------------- MODULE ProviderCalls ----------------------------
(* Calls of the 2GIS router (two_gis_routing.py).  Every request makes an   *)
(* adapter of its own, but the breaker and the cache are the process's.  A  *)
(* route of many points is asked in windows, one call after another; a      *)
(* call that times out is sent once more after a pause.  After so many      *)
(* calls in a row that failed the breaker opens and later ones fail at      *)
(* once, until the cooldown has passed; the route then gets the legs of     *)
(* the stub (generate_service.py), which are never cached.                  *)
(*                                                                         *)
(* A step goes from one await to the next.  Of an answer only the time it   *)
(* was given is kept, of a route only how many windows it takes.            *)
EXTENDS Naturals, Sequences, FiniteSets, SequencesExt

CONSTANTS
    Callers,          \* requests that want a route
    Routes,           \* what they ask: points, mode, filters, alternative
    Windows,          \* calls a route takes
    FailureThreshold, BreakerCooldown, CacheTtl, CacheMaxItems,
    LastMoment        \* bound: the clock stops there

ASSUME ProviderAssumption ==
    /\ Windows \in [Routes -> Nat \ {0}]
    /\ {FailureThreshold, BreakerCooldown, CacheTtl, CacheMaxItems, LastMoment} \subseteq Nat \ {0}

VARIABLES
    moment,     \* time.monotonic()
    failures,   \* _consecutive_failures
    openedAt,   \* _opened_at, LastMoment + 1 for None
    routeCache, \* _route_cache: entries in the order of their keys
    wants,      \* where the call of each request stands
    callingThen,   \* who was calling when the breaker opened last
    lateSends   \* what each has sent while it stands open

breakerVars == <<failures, openedAt>>
providerVars == <<moment, breakerVars, routeCache, wants, callingThen, lateSends>>

NotOpened == LastMoment + 1
Moments == 0..LastMoment

Idle == [at |-> "away"]

\* got: when each window was answered so far; attempt: of the window asked.
Asked(r, since, got, attempt, at) ==
    [at |-> at, route |-> r, since |-> since, got |-> got, attempt |-> attempt]
Served(r, got, cached) == [at |-> "served", route |-> r, got |-> got, cached |-> cached]
Calling == {"sending", "pausing"}

ProviderTypeOK ==
    /\ moment \in Moments
    /\ failures \in 0..FailureThreshold
    /\ openedAt \in Moments \cup {NotOpened}
    /\ \A i \in DOMAIN routeCache :
          /\ routeCache[i].route \in Routes /\ routeCache[i].at \in Moments
          /\ routeCache[i].answer \in Seq(Moments)
    /\ \A c \in Callers : wants[c].at \in {"away", "served", "stub", "refused"} \cup Calling
    /\ callingThen \subseteq Callers
    /\ lateSends \in [Callers -> Nat]

ProviderInit ==
    /\ moment = 0
    /\ failures = 0 /\ openedAt = NotOpened
    /\ routeCache = <<>>
    /\ wants = [c \in Callers |-> Idle]
    /\ callingThen = {} /\ lateSends = [c \in Callers |-> 0]

-----------------------------------------------------------------------------
(* The breaker and the cache.                                               *)

BreakerOpen == openedAt # NotOpened /\ moment - openedAt < BreakerCooldown

RecordSuccess == failures' = 0 /\ openedAt' = NotOpened

\* Failures stay where they are when the cooldown has passed, so the next one
\* opens the breaker again.  (Past the threshold their number says no more.)
RecordFailure ==
    /\ failures' = IF failures < FailureThreshold THEN failures + 1 ELSE failures
    /\ openedAt' = IF failures + 1 >= FailureThreshold THEN moment ELSE openedAt

EntriesOf(r) == {i \in DOMAIN routeCache : routeCache[i].route = r}
Fresh(i) == moment - routeCache[i].at < CacheTtl
Hit(r) == \E i \in EntriesOf(r) : Fresh(i)

StampWhenDone(c) == moment  \* fault

\* The stamp is taken before the first call.
Stamp(c) == wants[c].since

\* A full cache gives up its first key, even for a key it has; a key that is
\* there keeps its place.
Cached(c, answer) ==
    LET entry == [route |-> wants[c].route, at |-> Stamp(c), answer |-> answer]
        kept == IF Len(routeCache) >= CacheMaxItems THEN Tail(routeCache) ELSE routeCache
        here == {i \in DOMAIN kept : kept[i].route = entry.route}
    IN IF here = {} THEN Append(kept, entry)
       ELSE [i \in DOMAIN kept |-> IF i \in here THEN entry ELSE kept[i]]

-----------------------------------------------------------------------------
(* route, _route_chunked, _route_once and _post of a request.               *)

CallAnyway(c, r) ==  \* fault: the breaker is not asked
    wants' = [wants EXCEPT ![c] = Asked(r, moment, <<>>, 1, "sending")]

\* _post, for the first window.
CallOrFail(c, r) ==
    wants' = [wants EXCEPT ![c] = IF BreakerOpen THEN [at |-> "stub", route |-> r]
                                 ELSE Asked(r, moment, <<>>, 1, "sending")]

\* Served from the cache while the entry is fresh, or called.
AskRoute(c, r) ==
    /\ wants[c].at \notin Calling
    /\ \/ \E i \in EntriesOf(r) :
             /\ Fresh(i)
             /\ wants' = [wants EXCEPT ![c] = Served(r, routeCache[i].answer, TRUE)]
       \/ ~Hit(r) /\ CallOrFail(c, r)
    /\ UNCHANGED <<breakerVars, routeCache>>

\* A response closes the breaker, whatever it says.  The next window is asked
\* in the same step; after the last the answer is cached and returned.
GoodResponse(c) ==
    LET got == Append(wants[c].got, moment)
        r == wants[c].route
    IN /\ wants[c].at = "sending"
       /\ RecordSuccess
       /\ IF Len(got) < Windows[r]
          THEN /\ wants' = [wants EXCEPT ![c] = Asked(r, @.since, got, 1, "sending")]
               /\ UNCHANGED routeCache
          ELSE /\ wants' = [wants EXCEPT ![c] = Served(r, got, FALSE)]
               /\ routeCache' = Cached(c, got)

\* An error status, no route, or one longer than allowed: the last is not
\* made good by the stub.
BadResponse(c) ==
    /\ wants[c].at = "sending"
    /\ RecordSuccess
    /\ \E end \in {"stub", "refused"} :
          wants' = [wants EXCEPT ![c] = [at |-> end, route |-> wants[c].route]]
    /\ UNCHANGED routeCache

\* No answer in time, or no connection: once more after a pause, then given up.
NoResponse(c) ==
    /\ wants[c].at = "sending"
    /\ \/ /\ wants[c].attempt = 1
          /\ wants' = [wants EXCEPT ![c].at = "pausing"]
          /\ UNCHANGED breakerVars
       \/ /\ wants[c].attempt = 2
          /\ wants' = [wants EXCEPT ![c] = [at |-> "stub", route |-> wants[c].route]]
          /\ RecordFailure
    /\ UNCHANGED routeCache

\* The connection breaks while the answer is read: neither success nor failure.
BrokenOff(c) ==
    /\ wants[c].at = "sending"
    /\ wants' = [wants EXCEPT ![c] = [at |-> "stub", route |-> wants[c].route]]
    /\ UNCHANGED <<breakerVars, routeCache>>

\* After the pause the breaker is not asked again.
SendAgain(c) ==
    /\ wants[c].at = "pausing"
    /\ wants' = [wants EXCEPT ![c].at = "sending", ![c].attempt = 2]
    /\ UNCHANGED <<breakerVars, routeCache>>

CallStep(c) ==
    \/ \E r \in Routes : AskRoute(c, r)
    \/ GoodResponse(c) \/ BadResponse(c) \/ NoResponse(c) \/ BrokenOff(c) \/ SendAgain(c)

\* A send begins: a first attempt at a window, or a second one.
Sends(c) ==
    /\ wants'[c].at = "sending"
    /\ wants[c].at = "sending" => wants'[c].got # wants[c].got

\* The books kept while the breaker stands open.
Watch ==
    /\ callingThen' = IF ~BreakerOpen' THEN {}
                   ELSE IF BreakerOpen THEN callingThen
                   ELSE {c \in Callers : wants'[c].at \in Calling}
    /\ lateSends' = [c \in Callers |->
          IF ~BreakerOpen' \/ ~BreakerOpen THEN 0
          ELSE IF Sends(c) THEN lateSends[c] + 1 ELSE lateSends[c]]

ProviderTick ==
    /\ moment < LastMoment
    /\ moment' = moment + 1
    /\ UNCHANGED <<breakerVars, routeCache, wants>>

ProviderNext ==
    /\ \/ ProviderTick
       \/ UNCHANGED moment /\ \E c \in Callers : CallStep(c)
    /\ Watch

ProviderSpec == ProviderInit /\ [][ProviderNext]_providerVars

-----------------------------------------------------------------------------
(* Once the breaker is open the provider is left alone: whoever was calling *)
(* then may send once more, the retry that does not ask the breaker, and    *)
(* nobody else sends at all (two_gis_routing.py, _post: "temporarily        *)
(* disabled after repeated failures").                                      *)
BreakerHoldsBack ==
    \A c \in Callers : lateSends[c] <= IF c \in callingThen THEN 1 ELSE 0

(* A route from the cache is whole and no window of it was answered longer  *)
(* ago than an entry may live, however long the calls for it took and in    *)
(* whatever order other requests filled, renewed and evicted entries; the   *)
(* cache has no more entries than it may and one for a route.               *)
WholeAnswer(r, answer) == Len(answer) = Windows[r]

CachedRoutesAreFresh ==
    /\ \A c \in Callers : wants[c].at = "served" => WholeAnswer(wants[c].route, wants[c].got)
    /\ Len(routeCache) <= CacheMaxItems
    /\ \A i, j \in DOMAIN routeCache : routeCache[i].route = routeCache[j].route => i = j
    /\ \A i \in DOMAIN routeCache :
          /\ WholeAnswer(routeCache[i].route, routeCache[i].answer)
          /\ Fresh(i) => \A k \in DOMAIN routeCache[i].answer :
                            moment - routeCache[i].answer[k] < CacheTtl
=============================================================================
