--------------------------- MODULE BuilderProofs ---------------------------
(* Proofs about the route builder, for any requests, chats, patches, limits *)
(* and length of time: the calls of the router (ProviderCalls), the quotas  *)
(* of chats and builds (BuilderChat), and what a chat knows of the trip and *)
(* shows of it (BuilderTurns).                                              *)
EXTENDS ProviderCalls, BuilderChat, BuilderTurns, SequenceTheorems, TLAPS

-----------------------------------------------------------------------------
(* The breaker.                                                             *)

\* The rows of the requests; the module's own type leaves open what is in one.
CallRow == [at: Calling, route: Routes, since: Moments, got: Seq(Moments), attempt: {1, 2}]
ServedRow == [at: {"served"}, route: Routes, got: Seq(Moments), cached: BOOLEAN]
OverRow == [at: {"stub", "refused"}, route: Routes]
WantRow == {Idle} \cup CallRow \cup ServedRow \cup OverRow
CacheRow == [route: Routes, at: Moments, answer: Seq(Moments)]

ProviderTypes ==
    /\ moment \in Moments
    /\ wants \in [Callers -> WantRow]
    /\ routeCache \in Seq(CacheRow)
    /\ lateSends \in [Callers -> Nat]

\* Nobody who was not calling when the breaker opened calls while it is open,
\* and who has sent once since then is at its second and last attempt.
HeldBack(c) ==
    /\ lateSends[c] <= IF c \in callingThen THEN 1 ELSE 0
    /\ BreakerOpen /\ wants[c].at \in Calling =>
          /\ c \in callingThen
          /\ lateSends[c] = 1 => wants[c].at = "sending" /\ wants[c].attempt = 2

\* The moves of a request while the breaker stays open: none, to an end, to
\* the pause after its first attempt, or to the second attempt.
MovesOn(c) ==
    \/ wants'[c] = wants[c]
    \/ wants'[c].at \notin Calling
    \/ /\ wants[c].at = "sending" /\ wants[c].attempt = 1
       /\ wants'[c].at = "pausing"
    \/ /\ wants[c].at = "pausing"
       /\ wants'[c].at = "sending" /\ wants'[c].attempt = 2

\* The books kept while the breaker is open, whoever moves how.
LEMMA WatchKeeps ==
    ASSUME NEW c \in Callers, lateSends \in [Callers -> Nat], HeldBack(c), Watch,
           BreakerOpen /\ BreakerOpen' => MovesOn(c)
    PROVE  HeldBack(c)'
<1>1. CASE ~BreakerOpen'
  <2>1. callingThen' = {} /\ lateSends'[c] = 0
    BY <1>1 DEF Watch
  <2> QED BY <1>1, <2>1 DEF HeldBack
<1>2. CASE BreakerOpen' /\ ~BreakerOpen
  <2>1. /\ callingThen' = {d \in Callers : wants'[d].at \in Calling}
        /\ lateSends'[c] = 0
    BY <1>2 DEF Watch
  <2> QED BY <1>2, <2>1 DEF HeldBack, Calling
<1>3. CASE BreakerOpen' /\ BreakerOpen
  <2>1. /\ callingThen' = callingThen
        /\ lateSends'[c] = IF Sends(c) THEN lateSends[c] + 1 ELSE lateSends[c]
    BY <1>3 DEF Watch
  <2>2. lateSends[c] \in Nat
    OBVIOUS
  <2>3. CASE wants'[c] = wants[c] \/ wants'[c].at \notin Calling
    <3>1. ~Sends(c)
      BY <2>3 DEF Sends, Calling
    <3> QED BY <1>3, <2>1, <2>2, <2>3, <3>1 DEF HeldBack
  <2>4. CASE /\ wants[c].at = "sending" /\ wants[c].attempt = 1
             /\ wants'[c].at = "pausing"
    <3>1. ~Sends(c)
      BY <2>4 DEF Sends
    <3> QED BY <1>3, <2>1, <2>2, <2>4, <3>1 DEF HeldBack, Calling
  <2>5. CASE /\ wants[c].at = "pausing"
             /\ wants'[c].at = "sending" /\ wants'[c].attempt = 2
    BY <1>3, <2>1, <2>2, <2>5 DEF HeldBack, Calling
  <2> QED BY <1>3, <2>3, <2>4, <2>5 DEF MovesOn
<1> QED BY <1>1, <1>2, <1>3

-----------------------------------------------------------------------------
(* The cache.                                                               *)

\* What a call has of its route was answered after the call began; the cache
\* keeps whole routes, one of each, every window answered after the stamp.
SinceThen(answer, since) ==
    since <= moment /\ \A k \in DOMAIN answer : since <= answer[k] /\ answer[k] <= moment

SoundRow(row) ==
    /\ row.at \in Calling => Len(row.got) < Windows[row.route] /\ SinceThen(row.got, row.since)
    /\ row.at = "served" => WholeAnswer(row.route, row.got)
CallsSound == \A c \in Callers : SoundRow(wants[c])

SoundEntry(e) == WholeAnswer(e.route, e.answer) /\ SinceThen(e.answer, e.at)

CacheSound ==
    /\ Len(routeCache) <= CacheMaxItems
    /\ \A i, j \in DOMAIN routeCache : routeCache[i].route = routeCache[j].route => i = j
    /\ \A i \in DOMAIN routeCache : SoundEntry(routeCache[i])

ProviderInv ==
    /\ ProviderTypes
    /\ \A c \in Callers : HeldBack(c)
    /\ CallsSound /\ CacheSound

\* Nothing has failed, is cached or asked for at first.
LEMMA ProviderBegins == ProviderInit => ProviderInv
<1> SUFFICES ASSUME ProviderInit PROVE ProviderInv
  OBVIOUS
<1>1. ProviderTypes
  <2>1. Idle \in WantRow /\ 0 \in Moments
    BY ProviderAssumption DEF WantRow, Moments
  <2> QED BY <2>1 DEF ProviderInit, ProviderTypes
<1>2. \A c \in Callers : HeldBack(c)
  BY DEF ProviderInit, HeldBack, BreakerOpen
<1>3. CallsSound /\ CacheSound
  BY ProviderAssumption DEF ProviderInit, CallsSound, SoundRow, CacheSound, Idle, Calling
<1> QED BY <1>1, <1>2, <1>3 DEF ProviderInv

\* A function on 1..n is a sequence.
LEMMA FunctionIsSequence ==
    ASSUME NEW S, NEW n \in Nat, NEW f \in [1..n -> S]
    PROVE  f \in Seq(S) /\ Len(f) = n
<1>1. f \in Seq(S)
  BY SeqDef
<1>2. Len(f) \in Nat /\ 1..Len(f) = 1..n
  BY <1>1, LenProperties
<1> QED BY <1>1, <1>2

\* A full cache without its first entry, and the entry added or renewed.
LEMMA CachedSound ==
    ASSUME ProviderTypes, CacheSound, NEW c \in Callers, wants[c] \in CallRow,
           NEW answer \in Seq(Moments), WholeAnswer(wants[c].route, answer),
           SinceThen(answer, wants[c].since)
    PROVE  LET new == Cached(c, answer) IN
           /\ new \in Seq(CacheRow) /\ Len(new) <= CacheMaxItems
           /\ \A i, j \in DOMAIN new : new[i].route = new[j].route => i = j
           /\ \A i \in DOMAIN new : SoundEntry(new[i])
<1> DEFINE entry == [route |-> wants[c].route, at |-> wants[c].since, answer |-> answer]
           kept == IF Len(routeCache) >= CacheMaxItems THEN Tail(routeCache) ELSE routeCache
           here == {i \in DOMAIN kept : kept[i].route = entry.route}
           new == IF here = {} THEN Append(kept, entry)
                  ELSE [i \in DOMAIN kept |-> IF i \in here THEN entry ELSE kept[i]]
<1>1. Cached(c, answer) = new
  BY DEF Cached, Stamp
<1>2. entry \in CacheRow /\ SoundEntry(entry)
  BY DEF CacheRow, CallRow, SoundEntry
<1>3. CacheMaxItems \in Nat \ {0}
  BY ProviderAssumption
<1>4. /\ kept \in Seq(CacheRow) /\ Len(kept) < CacheMaxItems
      /\ \A i, j \in DOMAIN kept : kept[i].route = kept[j].route => i = j
      /\ \A i \in DOMAIN kept : SoundEntry(kept[i])
  <2>1. CASE Len(routeCache) >= CacheMaxItems
    <3>1. kept = Tail(routeCache) /\ routeCache \in Seq(CacheRow) /\ routeCache # <<>>
      BY <2>1, <1>3 DEF ProviderTypes
    <3>2. /\ kept \in Seq(CacheRow) /\ Len(kept) = Len(routeCache) - 1
          /\ \A i \in DOMAIN kept : i + 1 \in DOMAIN routeCache /\ kept[i] = routeCache[i + 1]
      BY <3>1, HeadTailProperties
    <3>3. Len(routeCache) <= CacheMaxItems
      BY DEF CacheSound
    <3>4. DOMAIN kept = 1..Len(kept)
      BY <3>2
    <3>5. \A i, j \in DOMAIN kept : kept[i].route = kept[j].route => i = j
      <4> SUFFICES ASSUME NEW i \in DOMAIN kept, NEW j \in DOMAIN kept,
                          kept[i].route = kept[j].route
                   PROVE  i = j
        OBVIOUS
      <4>1. i + 1 = j + 1
        BY <3>2 DEF CacheSound
      <4> QED BY <4>1, <3>4
    <3>6. \A i \in DOMAIN kept : SoundEntry(kept[i])
      BY <3>2 DEF CacheSound
    <3> HIDE DEF kept
    <3> QED BY <3>1, <3>2, <3>3, <3>5, <3>6, <1>3, LenProperties
  <2>2. CASE ~(Len(routeCache) >= CacheMaxItems)
    <3>1. kept = routeCache
      BY <2>2
    <3> QED BY <3>1, <2>2, <1>3, LenProperties DEF ProviderTypes, CacheSound
  <2> QED BY <2>1, <2>2
<1> HIDE DEF kept, entry
<1>5. CASE here = {}
  <2>1. new = Append(kept, entry)
    BY <1>5
  <2>2. /\ new \in Seq(CacheRow) /\ Len(new) = Len(kept) + 1
        /\ \A i \in 1..Len(kept) : new[i] = kept[i]
        /\ new[Len(kept) + 1] = entry
    BY <2>1, <1>2, <1>4, AppendProperties
  <2>3. DOMAIN kept = 1..Len(kept) /\ DOMAIN new = 1..Len(new) /\ Len(kept) \in Nat
    BY <2>2, <1>4
  <2>4. \A i \in DOMAIN new : \/ i \in DOMAIN kept /\ new[i] = kept[i]
                              \/ i = Len(kept) + 1 /\ new[i] = entry
    BY <2>2, <2>3
  <2>5. \A i \in DOMAIN kept : kept[i].route # entry.route
    BY <1>5
  <2> HIDE DEF new, here
  <2>6. \A i, j \in DOMAIN new : new[i].route = new[j].route => i = j
    BY <2>4, <2>5, <1>4
  <2>7. \A i \in DOMAIN new : SoundEntry(new[i])
    BY <2>4, <1>2, <1>4
  <2>8. Len(new) <= CacheMaxItems
    BY <2>2, <2>3, <1>3, <1>4
  <2> QED BY <1>1, <2>2, <2>6, <2>7, <2>8
<1>6. CASE here # {}
  <2>1. new = [i \in DOMAIN kept |-> IF i \in here THEN entry ELSE kept[i]]
    BY <1>6
  <2>2. DOMAIN kept = 1..Len(kept) /\ Len(kept) \in Nat
    BY <1>4
  <2>3. \A i \in 1..Len(kept) : kept[i] \in CacheRow
    BY <1>4, ElementOfSeq
  <2>4. new \in Seq(CacheRow) /\ Len(new) = Len(kept)
    <3>1. new \in [1..Len(kept) -> CacheRow]
      BY <2>1, <2>2, <2>3, <1>2
    <3> QED BY <3>1, <2>2, FunctionIsSequence
  <2>9. DOMAIN new = DOMAIN kept /\ \A i \in DOMAIN kept : SoundEntry(new[i])
    BY <2>1, <1>2, <1>4
  <2>5. \A i \in DOMAIN kept : new[i].route = kept[i].route
    BY <2>1
  <2>6. \A i, j \in DOMAIN new : new[i].route = new[j].route => i = j
    BY <2>9, <2>5, <1>4
  <2> HIDE DEF new, here
  <2> QED BY <1>1, <2>9, <2>4, <2>6, <1>3, <1>4, <2>2
<1> QED BY <1>5, <1>6

\* A step that gives one request a row and leaves clock and cache alone.
LEMMA OneMoves ==
    ASSUME ProviderTypes, CallsSound, NEW c \in Callers, NEW row \in WantRow, SoundRow(row),
           moment' = moment, wants' = [wants EXCEPT ![c] = row]
    PROVE  /\ wants' \in [Callers -> WantRow] /\ wants'[c] = row
           /\ \A d \in Callers \ {c} : wants'[d] = wants[d]
           /\ CallsSound'
<1>1. wants' \in [Callers -> WantRow] /\ wants'[c] = row
  BY DEF ProviderTypes
<1>2. \A d \in Callers \ {c} : wants'[d] = wants[d]
  BY DEF ProviderTypes
<1>3. \A d \in Callers : SoundRow(wants[d])
  BY DEF CallsSound
<1>4. \A d \in Callers : SoundRow(wants'[d])
  BY <1>1, <1>2, <1>3
<1>5. CallsSound'
  BY <1>4 DEF CallsSound, SoundRow, SinceThen
<1> QED BY <1>1, <1>2, <1>5

\* What every step of a request keeps.
Kept ==
    /\ wants' \in [Callers -> WantRow] /\ routeCache' \in Seq(CacheRow)
    /\ CallsSound' /\ CacheSound'
    /\ \A d \in Callers : BreakerOpen /\ BreakerOpen' => MovesOn(d)

\* A step that leaves the cache, the clock and who is served alone leaves them sound.
LEMMA CacheStays ==
    ASSUME CacheSound, UNCHANGED <<moment, routeCache>>
    PROVE  CacheSound'
BY DEF CacheSound, SoundEntry, SinceThen

\* A row's stage tells what is in it.
LEMMA RowKinds ==
    ASSUME ProviderTypes, NEW c \in Callers
    PROVE  /\ wants[c] \in WantRow
           /\ wants[c].at \in Calling => wants[c] \in CallRow
BY DEF ProviderTypes, WantRow, Idle, CallRow, ServedRow, OverRow, Calling

\* A request that goes out has sent nothing yet.
LEMMA FreshCall ==
    ASSUME ProviderTypes, NEW r \in Routes
    PROVE  /\ Asked(r, moment, <<>>, 1, "sending") \in WantRow
           /\ SoundRow(Asked(r, moment, <<>>, 1, "sending"))
<1>1. <<>> \in Seq(Moments) /\ moment \in Moments /\ Windows[r] > 0 /\ Windows[r] \in Nat
  BY ProviderAssumption DEF ProviderTypes
<1>2. moment <= moment
  BY ProviderAssumption DEF ProviderTypes, Moments
<1> QED BY <1>1, <1>2 DEF Asked, WantRow, CallRow, Calling, SoundRow, SinceThen

\* A request: served from the cache, refused, answered by the stub, or sent.
LEMMA AskKeeps ==
    ASSUME ProviderInv, UNCHANGED moment, NEW c \in Callers, NEW r \in Routes, AskRoute(c, r)
    PROVE  Kept
<1>1. ProviderTypes /\ CallsSound /\ CacheSound /\ CacheSound' /\ routeCache' \in Seq(CacheRow)
  BY CacheStays DEF ProviderInv, AskRoute, ProviderTypes
<1>2. PICK row \in WantRow :
          /\ wants' = [wants EXCEPT ![c] = row] /\ SoundRow(row)
          /\ BreakerOpen => row.at \notin Calling
  <2>1. ASSUME NEW i \in EntriesOf(r), wants' = [wants EXCEPT ![c] = Served(r, routeCache[i].answer, TRUE)]
        PROVE  /\ Served(r, routeCache[i].answer, TRUE) \in WantRow
               /\ SoundRow(Served(r, routeCache[i].answer, TRUE))
               /\ Served(r, routeCache[i].answer, TRUE).at \notin Calling
    <3>1. i \in DOMAIN routeCache /\ routeCache[i].route = r /\ SoundEntry(routeCache[i])
      BY <1>1 DEF EntriesOf, CacheSound
    <3>2. routeCache[i] \in CacheRow
      BY <1>1, <3>1, ElementOfSeq, LenProperties DEF ProviderTypes
    <3> QED BY <3>1, <3>2 DEF CacheRow, Served, WantRow, ServedRow, SoundRow, SoundEntry, Calling
  <2>2. CASE BreakerOpen /\ wants' = [wants EXCEPT ![c] = [at |-> "stub", route |-> r]]
    <3> DEFINE given == [at |-> "stub", route |-> r]
    <3>1. given \in WantRow /\ SoundRow(given) /\ given.at \notin Calling
      BY DEF WantRow, OverRow, SoundRow, Calling
    <3>2. wants' = [wants EXCEPT ![c] = given]
      BY <2>2
    <3> HIDE DEF given
    <3> QED BY <3>1, <3>2
  <2>3. CASE ~BreakerOpen /\ wants' = [wants EXCEPT ![c] = Asked(r, moment, <<>>, 1, "sending")]
    BY <2>3, <1>1, FreshCall
  <2> QED BY <2>1, <2>2, <2>3 DEF AskRoute, CallOrFail
<1>3. /\ wants' \in [Callers -> WantRow] /\ wants'[c] = row /\ CallsSound'
      /\ \A d \in Callers \ {c} : wants'[d] = wants[d]
  BY <1>1, <1>2, OneMoves
<1>4. \A d \in Callers : BreakerOpen /\ BreakerOpen' => MovesOn(d)
  BY <1>2, <1>3 DEF MovesOn
<1> QED BY <1>1, <1>3, <1>4 DEF Kept

\* An answer that failed, with or without a second attempt.
LEMMA BadKeeps ==
    ASSUME ProviderInv, UNCHANGED moment, NEW c \in Callers, BadResponse(c) \/ BrokenOff(c)
    PROVE  Kept
<1>1. ProviderTypes /\ CallsSound /\ CacheSound /\ CacheSound' /\ routeCache' \in Seq(CacheRow)
  BY CacheStays DEF ProviderInv, BadResponse, BrokenOff, ProviderTypes
<1>2. wants[c] \in CallRow
  BY <1>1, RowKinds DEF BadResponse, BrokenOff, Calling
<1>3. PICK row \in OverRow : wants' = [wants EXCEPT ![c] = row]
  BY <1>2 DEF BadResponse, BrokenOff, OverRow, CallRow
<1>4. row \in WantRow /\ SoundRow(row) /\ row.at \notin Calling
  BY DEF WantRow, OverRow, SoundRow, Calling
<1>5. /\ wants' \in [Callers -> WantRow] /\ wants'[c] = row /\ CallsSound'
      /\ \A d \in Callers \ {c} : wants'[d] = wants[d]
  BY <1>1, <1>3, <1>4, OneMoves
<1> QED BY <1>1, <1>4, <1>5 DEF Kept, MovesOn

\* The first time-out, the second one, and the call after the pause.
LEMMA RetryKeeps ==
    ASSUME ProviderInv, UNCHANGED moment, NEW c \in Callers, NoResponse(c) \/ SendAgain(c)
    PROVE  Kept
<1>1. ProviderTypes /\ CallsSound /\ CacheSound /\ CacheSound' /\ routeCache' \in Seq(CacheRow)
  BY CacheStays DEF ProviderInv, NoResponse, SendAgain, ProviderTypes
<1>2. wants[c] \in CallRow /\ SoundRow(wants[c])
  BY <1>1, RowKinds DEF NoResponse, SendAgain, Calling, CallsSound
<1> DEFINE paused == [wants[c] EXCEPT !.at = "pausing"]
           again == [wants[c] EXCEPT !.at = "sending", !.attempt = 2]
           given == [at |-> "stub", route |-> wants[c].route]
<1>3. /\ paused \in WantRow /\ again \in WantRow /\ given \in WantRow
      /\ SoundRow(paused) /\ SoundRow(again) /\ SoundRow(given)
      /\ paused.at = "pausing" /\ again.at = "sending" /\ again.attempt = 2 /\ given.at \notin Calling
  BY <1>2 DEF WantRow, CallRow, OverRow, SoundRow, Calling
<1>4. PICK row \in WantRow :
          /\ wants' = [wants EXCEPT ![c] = row] /\ SoundRow(row)
          /\ \/ row.at \notin Calling
             \/ wants[c].at = "sending" /\ wants[c].attempt = 1 /\ row.at = "pausing"
             \/ wants[c].at = "pausing" /\ row.at = "sending" /\ row.attempt = 2
  <2>1. CASE SendAgain(c)
    <3>1. wants' = [wants EXCEPT ![c] = again] /\ wants[c].at = "pausing"
      BY <2>1 DEF SendAgain
    <3> HIDE DEF again
    <3> QED BY <3>1, <1>3
  <2>2. CASE NoResponse(c) /\ wants[c].attempt = 1
    <3>1. wants' = [wants EXCEPT ![c] = paused] /\ wants[c].at = "sending"
      BY <2>2 DEF NoResponse
    <3> HIDE DEF paused
    <3> QED BY <3>1, <2>2, <1>3
  <2>3. CASE NoResponse(c) /\ wants[c].attempt # 1
    <3>1. wants' = [wants EXCEPT ![c] = given]
      BY <2>3 DEF NoResponse
    <3> HIDE DEF given
    <3> QED BY <3>1, <1>3
  <2> QED BY <2>1, <2>2, <2>3
<1>5. /\ wants' \in [Callers -> WantRow] /\ wants'[c] = row /\ CallsSound'
      /\ \A d \in Callers \ {c} : wants'[d] = wants[d]
  BY <1>1, <1>4, OneMoves
<1> QED BY <1>1, <1>4, <1>5 DEF Kept, MovesOn

\* An answer closes the breaker; the next window is asked, or the route stored.
LEMMA GoodKeeps ==
    ASSUME ProviderInv, UNCHANGED moment, NEW c \in Callers, GoodResponse(c)
    PROVE  Kept
<1> DEFINE got == Append(wants[c].got, moment)
           r == wants[c].route
           next == Asked(r, wants[c].since, got, 1, "sending")
           end == Served(r, got, FALSE)
<1>1. ProviderTypes /\ CallsSound /\ CacheSound
  BY DEF ProviderInv
<1>2. wants[c] \in CallRow /\ SoundRow(wants[c]) /\ wants[c].at \in Calling
  BY <1>1, RowKinds DEF GoodResponse, Calling, CallsSound
<1>3. /\ got \in Seq(Moments) /\ Len(got) = Len(wants[c].got) + 1
      /\ \A k \in 1..Len(wants[c].got) : got[k] = wants[c].got[k]
      /\ got[Len(wants[c].got) + 1] = moment
  BY <1>1, <1>2, AppendProperties DEF CallRow, ProviderTypes
<1>4. SinceThen(got, wants[c].since)
  <2>1. SinceThen(wants[c].got, wants[c].since) /\ moment \in Nat
    BY <1>1, <1>2 DEF SoundRow, ProviderTypes, Moments
  <2>2. DOMAIN got = 1..Len(got) /\ Len(wants[c].got) \in Nat /\ DOMAIN wants[c].got = 1..Len(wants[c].got)
    BY <1>2, <1>3, LenProperties DEF CallRow
  <2>3. \A k \in DOMAIN got : k \in DOMAIN wants[c].got \/ k = Len(wants[c].got) + 1
    BY <1>3, <2>2
  <2> HIDE DEF got
  <2> QED BY <1>3, <2>1, <2>2, <2>3 DEF SinceThen
<1>5. /\ Len(wants[c].got) < Windows[r] /\ Windows[r] \in Nat /\ Len(wants[c].got) \in Nat
      /\ r \in Routes /\ wants[c].since \in Moments
  BY <1>2, ProviderAssumption, LenProperties DEF SoundRow, CallRow
<1>6. BreakerOpen' = FALSE
  BY DEF GoodResponse, RecordSuccess, BreakerOpen
<1> HIDE DEF got, r
<1>7. CASE Len(got) < Windows[r]
  <2>1. wants' = [wants EXCEPT ![c] = next] /\ UNCHANGED routeCache
    BY <1>7, <1>1 DEF GoodResponse, got, r, ProviderTypes
  <2>2. next \in WantRow /\ SoundRow(next)
    BY <1>3, <1>4, <1>5, <1>7 DEF Asked, WantRow, CallRow, Calling, SoundRow
  <2>3. wants' \in [Callers -> WantRow] /\ CallsSound'
    BY <1>1, <2>1, <2>2, OneMoves
  <2> QED BY <1>1, <1>6, <2>1, <2>3, CacheStays DEF Kept, ProviderTypes
<1>8. CASE ~(Len(got) < Windows[r])
  <2>1. wants' = [wants EXCEPT ![c] = end] /\ routeCache' = Cached(c, got)
    BY <1>8 DEF GoodResponse, got, r
  <2>2. WholeAnswer(r, got)
    BY <1>3, <1>5, <1>8 DEF WholeAnswer
  <2>3. end \in WantRow /\ SoundRow(end)
    BY <1>3, <1>5, <2>2 DEF Served, WantRow, ServedRow, SoundRow, Calling
  <2>4. wants' \in [Callers -> WantRow] /\ CallsSound'
    BY <1>1, <2>1, <2>3, OneMoves
  <2>5. WholeAnswer(wants[c].route, got)
    BY <2>2 DEF r
  <2>6. /\ routeCache' \in Seq(CacheRow) /\ Len(routeCache') <= CacheMaxItems
        /\ \A i, j \in DOMAIN routeCache' : routeCache'[i].route = routeCache'[j].route => i = j
        /\ \A i \in DOMAIN routeCache' : SoundEntry(routeCache'[i])
    BY <1>1, <1>2, <1>3, <1>4, <2>1, <2>5, CachedSound
  <2>7. CacheSound'
    BY <2>6 DEF CacheSound, SoundEntry, SinceThen
  <2> QED BY <1>6, <2>4, <2>6, <2>7 DEF Kept
<1> QED BY <1>7, <1>8

\* Time only makes answers older.
LEMMA TickKeeps ==
    ASSUME ProviderInv, ProviderTick
    PROVE  Kept /\ moment' \in Moments
<1>1. ProviderTypes /\ CallsSound /\ CacheSound
  BY DEF ProviderInv
<1>2. moment \in Nat /\ moment' = moment + 1 /\ moment' \in Moments /\ UNCHANGED <<routeCache, wants>>
  BY <1>1, ProviderAssumption DEF ProviderTick, ProviderTypes, Moments
<1>3. ASSUME NEW answer \in Seq(Moments), NEW since \in Moments, SinceThen(answer, since)
      PROVE  SinceThen(answer, since)'
  <2>1. \A k \in DOMAIN answer : answer[k] \in Nat
    <3>1. \A k \in DOMAIN answer : answer[k] \in Moments
      BY ElementOfSeq, LenProperties
    <3> QED BY <3>1, ProviderAssumption DEF Moments
  <2> QED BY <2>1, <1>2, <1>3 DEF SinceThen, Moments
<1>4. CallsSound'
  <2>1. ASSUME NEW c \in Callers PROVE SoundRow(wants[c])'
    <3>1. CASE wants[c].at \in Calling
      <4>1. wants[c] \in CallRow /\ SoundRow(wants[c])
        BY <1>1, <3>1, RowKinds DEF CallsSound
      <4> QED BY <1>2, <1>3, <3>1, <4>1 DEF SoundRow, CallRow, Calling
    <3>2. CASE wants[c].at \notin Calling
      BY <1>1, <1>2, <3>2 DEF SoundRow, CallsSound
    <3> QED BY <3>1, <3>2
  <2> QED BY <2>1 DEF CallsSound
<1>5. CacheSound'
  <2>1. ASSUME NEW i \in DOMAIN routeCache PROVE SoundEntry(routeCache[i])'
    <3>1. routeCache[i] \in CacheRow
      BY <1>1, ElementOfSeq, LenProperties DEF ProviderTypes
    <3> QED BY <1>1, <1>2, <1>3, <3>1 DEF CacheSound, SoundEntry, CacheRow
  <2> QED BY <1>1, <1>2, <2>1 DEF CacheSound
<1> QED BY <1>1, <1>2, <1>4, <1>5 DEF Kept, MovesOn, ProviderTypes

\* Every step of the requests and of the clock.
LEMMA ProviderStep == ProviderInv /\ [ProviderNext]_providerVars => ProviderInv'
<1> SUFFICES ASSUME ProviderInv, [ProviderNext]_providerVars PROVE ProviderInv'
  OBVIOUS
<1>1. CASE ProviderNext
  <2>1. Kept /\ moment' \in Moments
    <3>1. moment \in Moments
      BY DEF ProviderInv, ProviderTypes
    <3> QED BY <1>1, <3>1, TickKeeps, AskKeeps, GoodKeeps, BadKeeps, RetryKeeps DEF ProviderNext, CallStep
  <2>2. Watch /\ lateSends \in [Callers -> Nat] /\ \A c \in Callers : HeldBack(c)
    BY <1>1 DEF ProviderNext, ProviderInv, ProviderTypes
  <2>3. lateSends' \in [Callers -> Nat]
    BY <2>2 DEF Watch
  <2>4. \A c \in Callers : HeldBack(c)'
    BY <2>1, <2>2, WatchKeeps DEF Kept
  <2> QED BY <2>1, <2>3, <2>4 DEF ProviderInv, ProviderTypes, Kept
<1>2. CASE UNCHANGED providerVars
  <2>1. UNCHANGED <<moment, failures, openedAt, routeCache, wants, callingThen, lateSends>>
    BY <1>2 DEF providerVars, breakerVars
  <2>2. ProviderTypes' /\ CallsSound' /\ CacheSound'
    BY <2>1 DEF ProviderInv, ProviderTypes, CallsSound, SoundRow, CacheSound, SoundEntry, SinceThen
  <2>3. \A c \in Callers : HeldBack(c)'
    BY <2>1 DEF ProviderInv, HeldBack, BreakerOpen
  <2> QED BY <2>2, <2>3 DEF ProviderInv
<1> QED BY <1>1, <1>2

\* The invariant the two theorems rest on.
LEMMA ProviderInvariant == ProviderSpec => []ProviderInv
BY ProviderBegins, ProviderStep, PTL DEF ProviderSpec

\* Once the breaker is open only the retries of calls that were under way are
\* sent, one each, for any requests, routes and limits (_post).
THEOREM ProviderLeftAlone == ProviderSpec => []BreakerHoldsBack
<1>1. ProviderInv => BreakerHoldsBack
  BY DEF ProviderInv, HeldBack, BreakerHoldsBack
<1> QED BY <1>1, ProviderInvariant, PTL

\* Whatever requests store, renew and evict in between, the cache keeps whole
\* routes, one of each, none with an older answer than it may live (route).
THEOREM CacheStaysFresh == ProviderSpec => []CachedRoutesAreFresh
<1>1. ASSUME ProviderInv PROVE CachedRoutesAreFresh
  <2>1. ProviderTypes /\ CallsSound /\ CacheSound
    BY <1>1 DEF ProviderInv
  <2>2. ASSUME NEW i \in DOMAIN routeCache, Fresh(i), NEW k \in DOMAIN routeCache[i].answer
        PROVE  moment - routeCache[i].answer[k] < CacheTtl
    <3>1. routeCache[i] \in CacheRow /\ SoundEntry(routeCache[i])
      BY <2>1, ElementOfSeq, LenProperties DEF ProviderTypes, CacheSound
    <3>2. routeCache[i].answer[k] \in Moments
      BY <3>1, ElementOfSeq, LenProperties DEF CacheRow
    <3>3. routeCache[i].at <= routeCache[i].answer[k]
      BY <3>1 DEF SoundEntry, SinceThen
    <3>4. moment \in Nat /\ routeCache[i].at \in Nat /\ routeCache[i].answer[k] \in Nat /\ CacheTtl \in Nat
      BY <2>1, <3>1, <3>2, ProviderAssumption DEF ProviderTypes, Moments, CacheRow
    <3> QED BY <2>2, <3>3, <3>4 DEF Fresh
  <2> QED BY <2>1, <2>2 DEF CachedRoutesAreFresh, CallsSound, SoundRow, CacheSound, SoundEntry
<1> QED BY <1>1, ProviderInvariant, PTL

\* The breaker's own books.
BreakerFits ==
    /\ failures \in 0..FailureThreshold
    /\ openedAt \in Moments \cup {NotOpened}
    /\ callingThen \subseteq Callers

LEMMA BreakerKeepsFitting == ProviderInv /\ BreakerFits /\ [ProviderNext]_providerVars => BreakerFits'
<1> SUFFICES ASSUME ProviderInv, BreakerFits, [ProviderNext]_providerVars PROVE BreakerFits'
  OBVIOUS
<1>0. /\ moment \in Moments /\ FailureThreshold \in Nat /\ failures \in 0..FailureThreshold
      /\ openedAt \in Moments \cup {NotOpened} /\ callingThen \subseteq Callers
  BY ProviderAssumption DEF ProviderInv, ProviderTypes, BreakerFits
<1>1. RecordSuccess \/ RecordFailure \/ UNCHANGED breakerVars
  BY DEF ProviderNext, ProviderTick, CallStep, AskRoute, GoodResponse, BadResponse, NoResponse,
         BrokenOff, SendAgain, providerVars, breakerVars
<1>2. failures' \in 0..FailureThreshold /\ openedAt' \in Moments \cup {NotOpened}
  <2>1. CASE RecordSuccess
    BY <1>0, <2>1 DEF RecordSuccess
  <2>2. CASE RecordFailure
    <3>1. failures' \in 0..FailureThreshold
      BY <1>0, <2>2 DEF RecordFailure
    <3>2. openedAt' \in {moment, openedAt}
      BY <2>2 DEF RecordFailure
    <3> QED
      BY <1>0, <3>1, <3>2
  <2>3. CASE UNCHANGED breakerVars
    BY <1>0, <2>3 DEF breakerVars
  <2> QED
    BY <1>1, <2>1, <2>2, <2>3
<1>3. callingThen' \subseteq Callers
  <2>1. CASE Watch
    BY <1>0, <2>1 DEF Watch
  <2>2. CASE UNCHANGED callingThen
    BY <1>0, <2>2
  <2> QED
    BY <2>1, <2>2 DEF ProviderNext, providerVars
<1>4. NotOpened' = NotOpened /\ Moments' = Moments
  BY DEF NotOpened, Moments
<1> QED
  BY <1>2, <1>3, <1>4 DEF BreakerFits

\* The types of ProviderCalls.
LEMMA ProviderTypesHold == ProviderSpec => []ProviderTypeOK
<1>1. ProviderInit => BreakerFits
  BY ProviderAssumption DEF ProviderInit, BreakerFits
<1>2. ProviderInv /\ BreakerFits => ProviderTypeOK
  <2> SUFFICES ASSUME ProviderInv, BreakerFits PROVE ProviderTypeOK
    OBVIOUS
  <2>1. \A i \in DOMAIN routeCache : routeCache[i] \in CacheRow
    BY DEF ProviderInv, ProviderTypes
  <2>2. \A c \in Callers : wants[c] \in WantRow
    BY DEF ProviderInv, ProviderTypes
  <2>3. \A c \in Callers : wants[c].at \in {"away", "served", "stub", "refused"} \cup Calling
    BY <2>2 DEF WantRow, Idle, CallRow, ServedRow, OverRow
  <2> QED
    BY <2>1, <2>3 DEF CacheRow, ProviderInv, ProviderTypes, BreakerFits, ProviderTypeOK
<1> QED
  BY <1>1, <1>2, ProviderInvariant, BreakerKeepsFitting, PTL DEF ProviderSpec

-----------------------------------------------------------------------------
(* The quotas.                                                              *)

CallStages == {"none", "posted", "talking", "building", "built", "counted",
               "form", "accepting", "rejecting"}
CallRows == [at: CallStages, chat: Chats \union {"none"}, builds: BOOLEAN, closes: BOOLEAN,
             proposal: 0..MaxProposals]

ChatTypes ==
    /\ building \in BOOLEAN
    /\ tally \in [replies: Nat, today: Nat, week: Nat]
    /\ call \in [Calls -> CallRows]
    /\ rowLock \in Calls \union {NotHeld}

\* Whoever is about to build, or to count a reply in a chat that does not
\* build, holds the users row, and what it checked under the lock still holds.
HoldsWhatItChecked(t) ==
    /\ call[t].at \in {"building", "form"} => rowLock = t /\ BuildQuotaLeft
    /\ call[t].at \in {"talking", "counted"} /\ ~building => rowLock = t /\ tally.replies < MaxReplies
    /\ call[t].at \in {"building", "built"} => call[t].builds
    /\ call[t].builds => building

QuotaInv ==
    /\ ChatTypes
    /\ BuildsWithinQuota /\ RepliesWithinQuota
    /\ \A t \in Calls : HoldsWhatItChecked(t)

\* A call that has not come is nowhere and holds nothing.
LEMMA BlankCall == NoCall \in CallRows /\ NoCall.at = "none" /\ NoCall.builds = FALSE
BY ChatLimitsAssumption DEF NoCall, CallRows, CallStages

\* Nothing is counted and nobody holds the row at first.
LEMMA QuotaBegins == ChatInit => QuotaInv
<1> SUFFICES ASSUME ChatInit PROVE QuotaInv
  OBVIOUS
<1>1. ChatTypes
  BY BlankCall DEF ChatInit, ChatTypes
<1>2. tally.replies = 0 /\ tally.today = 0 /\ tally.week = 0
  BY DEF ChatInit
<1>3. BuildsWithinQuota /\ RepliesWithinQuota
  BY <1>2, ChatLimitsAssumption DEF BuildsWithinQuota, RepliesWithinQuota
<1>4. \A t \in Calls : HoldsWhatItChecked(t)
  BY BlankCall DEF ChatInit, HoldsWhatItChecked
<1> QED BY <1>1, <1>3, <1>4 DEF QuotaInv

\* Of what a call does, the quotas see where it goes, the lock and the tally.
LEMMA OneCallMoves ==
    ASSUME QuotaInv, NEW t \in Calls, NEW row \in CallRows,
           call' = [call EXCEPT ![t] = row], building' = building,
           tally' \in [replies: Nat, today: Nat, week: Nat],
           rowLock' \in {rowLock, t, NotHeld},
           rowLock' = t => rowLock \in {t, NotHeld},
           rowLock' = NotHeld => rowLock \in {t, NotHeld},
           tally' = tally \/ rowLock = t \/ (building /\ tally' = [tally EXCEPT !.replies = @ + 1]),
           BuildsWithinQuota', RepliesWithinQuota', HoldsWhatItChecked(t)'
    PROVE  QuotaInv'
<1>1. ChatTypes'
  BY DEF QuotaInv, ChatTypes
<1>2. ASSUME NEW s \in Calls, s # t PROVE HoldsWhatItChecked(s)'
  <2>1. call'[s] = call[s] /\ HoldsWhatItChecked(s)
    BY <1>2 DEF QuotaInv, ChatTypes
  <2>2. CASE tally' = tally \/ rowLock = t
    <3>1. rowLock = s => rowLock' = s
      BY <1>2, NotHeldAssumption
    <3>2. rowLock = s => tally' = tally
      BY <1>2, <2>2
    <3> QED BY <2>1, <3>1, <3>2 DEF HoldsWhatItChecked, BuildQuotaLeft
  <2>3. CASE building /\ tally' = [tally EXCEPT !.replies = @ + 1]
    <3>1. rowLock = s => rowLock' = s
      BY <1>2, NotHeldAssumption
    <3>2. tally'.today = tally.today /\ tally'.week = tally.week
      BY <2>3 DEF QuotaInv, ChatTypes
    <3> QED BY <2>1, <2>3, <3>1, <3>2 DEF HoldsWhatItChecked, BuildQuotaLeft
  <2> QED BY <2>2, <2>3
<1> QED BY <1>1, <1>2 DEF QuotaInv

\* A call that ends, by itself or cut off, with what it leaves of the tally.
LEMMA CallEnds ==
    ASSUME QuotaInv, NEW t \in Calls, Gone(t), LetGo(t), building' = building,
           tally' \in [replies: Nat, today: Nat, week: Nat],
           tally' = tally \/ rowLock = t \/ (building /\ tally' = [tally EXCEPT !.replies = @ + 1]),
           BuildsWithinQuota', RepliesWithinQuota'
    PROVE  QuotaInv'
<1>1. call' = [call EXCEPT ![t] = NoCall] /\ call'[t] = NoCall
  BY DEF Gone, QuotaInv, ChatTypes
<1>2. HoldsWhatItChecked(t)'
  BY <1>1, BlankCall DEF HoldsWhatItChecked
<1>3. /\ rowLock' \in {rowLock, t, NotHeld}
      /\ rowLock' = t => rowLock \in {t, NotHeld}
      /\ rowLock' = NotHeld => rowLock \in {t, NotHeld}
  BY DEF LetGo
<1> QED BY <1>1, <1>2, <1>3, BlankCall, OneCallMoves

\* A call that moves on without the tally.
LEMMA CallGoesOn ==
    ASSUME QuotaInv, NEW t \in Calls, NEW row \in CallRows,
           call' = [call EXCEPT ![t] = row], UNCHANGED <<building, tally>>,
           rowLock' = rowLock \/ (RowFree(t) /\ rowLock' = t),
           HoldsWhatItChecked(t)'
    PROVE  QuotaInv'
<1>1. BuildsWithinQuota' /\ RepliesWithinQuota'
  BY DEF QuotaInv, BuildsWithinQuota, RepliesWithinQuota
<1>2. tally' \in [replies: Nat, today: Nat, week: Nat]
  BY DEF QuotaInv, ChatTypes
<1>3. /\ rowLock' \in {rowLock, t, NotHeld}
      /\ rowLock' = t => rowLock \in {t, NotHeld}
      /\ rowLock' = NotHeld => rowLock \in {t, NotHeld}
  BY NotHeldAssumption DEF RowFree
<1> QED BY <1>1, <1>2, <1>3, OneCallMoves

\* A request that comes: a turn, or an answer to a proposal.
LEMMA PostKeeps ==
    ASSUME QuotaInv, NEW t \in Calls,
           \/ \E c \in Chats, builds \in BOOLEAN : PostMessage(t, c, builds)
           \/ \E p \in Proposals : AcceptProposal(t, p) \/ RejectProposal(t, p)
    PROVE  QuotaInv'
<1>1. ASSUME NEW c \in Chats, NEW builds \in BOOLEAN, PostMessage(t, c, builds)
      PROVE  QuotaInv'
  <2> DEFINE row == [NoCall EXCEPT !.at = "posted", !.chat = c, !.builds = builds]
  <2>1. row \in CallRows /\ row.at = "posted" /\ row.builds = builds
    BY BlankCall DEF NoCall, CallRows, CallStages
  <2>2. call' = [call EXCEPT ![t] = row] /\ (builds => building) /\ UNCHANGED <<building, tally, rowLock>>
    BY <1>1 DEF PostMessage, Arrives
  <2> HIDE DEF row
  <2>3. call'[t] = row
    BY <2>2 DEF QuotaInv, ChatTypes
  <2>4. HoldsWhatItChecked(t)'
    BY <2>1, <2>2, <2>3 DEF HoldsWhatItChecked
  <2> QED BY <2>1, <2>2, <2>4, CallGoesOn
<1>2. ASSUME NEW p \in Proposals, AcceptProposal(t, p) \/ RejectProposal(t, p)
      PROVE  QuotaInv'
  <2>1. PICK stage \in {"accepting", "rejecting"} :
            call' = [call EXCEPT ![t] = [NoCall EXCEPT !.at = stage, !.proposal = p]]
    BY <1>2 DEF AcceptProposal, RejectProposal, Arrives
  <2> DEFINE row == [NoCall EXCEPT !.at = stage, !.proposal = p]
  <2>A. p \in 0..MaxProposals
    BY ChatLimitsAssumption DEF Proposals
  <2>B. stage \in CallStages
    BY DEF CallStages
  <2>2. row \in CallRows /\ row.at = stage /\ row.builds = FALSE
    BY <2>A, <2>B, BlankCall DEF NoCall, CallRows
  <2>3. call' = [call EXCEPT ![t] = row] /\ UNCHANGED <<building, tally, rowLock>>
    BY <1>2, <2>1 DEF AcceptProposal, RejectProposal
  <2> HIDE DEF row
  <2>4. call'[t] = row
    BY <2>3 DEF QuotaInv, ChatTypes
  <2>5. HoldsWhatItChecked(t)'
    BY <2>2, <2>3, <2>4 DEF HoldsWhatItChecked
  <2> QED BY <2>2, <2>3, <2>5, CallGoesOn
<1> QED BY <1>1, <1>2

\* Both checks under the lock.
LEMMA LockKeeps ==
    ASSUME QuotaInv, NEW t \in Calls, LockAndCheck(t) \/ GenerateFromForm(t)
    PROVE  QuotaInv'
<1>1. CASE LockAndCheck(t) /\ ~(tally.replies < MaxReplies /\ (call[t].builds => BuildQuotaLeft))
  <2>1. call' = [call EXCEPT ![t] = NoCall] /\ UNCHANGED <<building, tally, rowLock>>
    BY <1>1 DEF LockAndCheck, Gone
  <2>2. call'[t] = NoCall
    BY <2>1 DEF QuotaInv, ChatTypes
  <2>3. HoldsWhatItChecked(t)'
    BY <2>2, BlankCall DEF HoldsWhatItChecked
  <2> QED BY <2>1, <2>3, BlankCall, CallGoesOn
<1>2. CASE LockAndCheck(t) /\ tally.replies < MaxReplies /\ (call[t].builds => BuildQuotaLeft)
  <2> DEFINE row == [call[t] EXCEPT !.at = IF call[t].builds THEN "building" ELSE "talking"]
  <2>1. call[t] \in CallRows /\ HoldsWhatItChecked(t)
    BY DEF QuotaInv, ChatTypes
  <2>2. row \in CallRows /\ row.builds = call[t].builds /\ row.at = IF call[t].builds THEN "building" ELSE "talking"
    BY <2>1 DEF CallRows, CallStages
  <2>3. call' = [call EXCEPT ![t] = row] /\ UNCHANGED <<building, tally>> /\ RowFree(t) /\ rowLock' = t
    BY <1>2 DEF LockAndCheck
  <2> HIDE DEF row
  <2>4. call'[t] = row
    BY <2>3 DEF QuotaInv, ChatTypes
  <2>5. HoldsWhatItChecked(t)'
    BY <1>2, <2>1, <2>2, <2>3, <2>4 DEF HoldsWhatItChecked, BuildQuotaLeft
  <2> QED BY <2>2, <2>3, <2>5, CallGoesOn
<1>3. CASE GenerateFromForm(t)
  <2> DEFINE row == [NoCall EXCEPT !.at = "form"]
  <2>1. row \in CallRows /\ row.at = "form" /\ row.builds = FALSE
    BY BlankCall DEF NoCall, CallRows, CallStages
  <2>2. /\ call' = [call EXCEPT ![t] = row] /\ UNCHANGED <<building, tally>>
        /\ RowFree(t) /\ rowLock' = t /\ BuildQuotaLeft
    BY <1>3 DEF GenerateFromForm, Arrives
  <2> HIDE DEF row
  <2>3. call'[t] = row
    BY <2>2 DEF QuotaInv, ChatTypes
  <2>4. HoldsWhatItChecked(t)'
    BY <2>1, <2>2, <2>3 DEF HoldsWhatItChecked, BuildQuotaLeft
  <2> QED BY <2>1, <2>2, <2>4, CallGoesOn
<1> QED BY <1>1, <1>2, <1>3

\* A route that is built counts under the lock it was checked under.
LEMMA BuildKeeps ==
    ASSUME QuotaInv, NEW t \in Calls, BuildForChat(t) \/ BuildFromForm(t)
    PROVE  QuotaInv'
<1>1. /\ call[t] \in CallRows /\ HoldsWhatItChecked(t) /\ tally \in [replies: Nat, today: Nat, week: Nat]
      /\ BuildsWithinQuota /\ RepliesWithinQuota
  BY DEF QuotaInv, ChatTypes
<1>2. rowLock = t /\ BuildQuotaLeft
  BY <1>1 DEF BuildForChat, BuildFromForm, HoldsWhatItChecked
<1>3. tally' = [tally EXCEPT !.today = tally.today + 1, !.week = tally.week + 1] /\ building' = building
  BY DEF BuildForChat, BuildFromForm, Built
<1>4. /\ tally' \in [replies: Nat, today: Nat, week: Nat] /\ tally'.replies = tally.replies
      /\ tally'.today = tally.today + 1 /\ tally'.week = tally.week + 1
  <2> DEFINE today == tally.today + 1
             week == tally.week + 1
  <2>1. today \in Nat /\ week \in Nat
    BY <1>1
  <2>2. tally' = [tally EXCEPT !.today = today, !.week = week]
    BY <1>3
  <2> HIDE DEF today, week
  <2>3. /\ tally' \in [replies: Nat, today: Nat, week: Nat] /\ tally'.replies = tally.replies
        /\ tally'.today = today /\ tally'.week = week
    BY <1>1, <2>1, <2>2
  <2> QED BY <2>3 DEF today, week
<1>5. BuildsWithinQuota' /\ RepliesWithinQuota'
  BY <1>1, <1>2, <1>3, <1>4, ChatLimitsAssumption DEF BuildsWithinQuota, RepliesWithinQuota, BuildQuotaLeft
<1>6. CASE BuildFromForm(t)
  BY <1>2, <1>3, <1>4, <1>5, <1>6, CallEnds DEF BuildFromForm
<1>7. CASE BuildForChat(t)
  <2> DEFINE row == [call[t] EXCEPT !.at = "built"]
  <2>1. row \in CallRows /\ row.at = "built" /\ row.builds = call[t].builds
    BY <1>1 DEF CallRows, CallStages
  <2>2. call' = [call EXCEPT ![t] = row]
    BY <1>7 DEF BuildForChat
  <2> HIDE DEF row
  <2>3. call'[t] = row
    BY <2>2 DEF QuotaInv, ChatTypes
  <2>4. HoldsWhatItChecked(t)'
    BY <1>1, <1>3, <1>7, <2>1, <2>3 DEF HoldsWhatItChecked, BuildForChat
  <2>5. rowLock' = NotHeld
    BY <1>2, <1>7 DEF BuildForChat, LetGo
  <2> QED BY <1>2, <1>3, <1>4, <1>5, <2>1, <2>2, <2>4, <2>5, NotHeldAssumption, OneCallMoves
<1> QED BY <1>6, <1>7

\* A turn counts its messages, with or without the lock.
LEMMA CountKeeps ==
    ASSUME QuotaInv, NEW t \in Calls, CountMessages(t)
    PROVE  QuotaInv'
<1> DEFINE row == [call[t] EXCEPT !.at = "counted", !.closes = FillsChat(t)]
<1>1. call[t] \in CallRows /\ HoldsWhatItChecked(t)
  BY DEF QuotaInv, ChatTypes
<1>2. FillsChat(t) \in BOOLEAN
  BY DEF FillsChat
<1>3. row \in CallRows /\ row.at = "counted" /\ row.builds = call[t].builds
  BY <1>1, <1>2 DEF CallRows, CallStages
<1>4. call' = [call EXCEPT ![t] = row] /\ UNCHANGED <<building, tally, rowLock>>
  BY DEF CountMessages
<1> HIDE DEF row
<1>5. call'[t] = row
  BY <1>4 DEF QuotaInv, ChatTypes
<1>6. HoldsWhatItChecked(t)'
  BY <1>1, <1>3, <1>4, <1>5 DEF CountMessages, HoldsWhatItChecked
<1> QED BY <1>3, <1>4, <1>6, CallGoesOn

\* A turn of a chat that builds counts its reply without the lock: those quotas
\* are the builds', which it leaves alone.
LEMMA CommitKeeps ==
    ASSUME QuotaInv, NEW t \in Calls, CommitTurn(t)
    PROVE  QuotaInv'
<1>1. /\ HoldsWhatItChecked(t) /\ tally \in [replies: Nat, today: Nat, week: Nat]
      /\ BuildsWithinQuota /\ RepliesWithinQuota
  BY DEF QuotaInv, ChatTypes
<1>2. /\ tally' = [tally EXCEPT !.replies = @ + 1] /\ building' = building
      /\ Gone(t) /\ LetGo(t) /\ call[t].at = "counted"
  BY DEF CommitTurn
<1>3. /\ tally' \in [replies: Nat, today: Nat, week: Nat] /\ tally'.replies = tally.replies + 1
      /\ tally'.today = tally.today /\ tally'.week = tally.week
  BY <1>1, <1>2
<1>4. ~building => rowLock = t /\ tally.replies < MaxReplies
  BY <1>1, <1>2 DEF HoldsWhatItChecked
<1>5. BuildsWithinQuota'
  BY <1>1, <1>3 DEF BuildsWithinQuota
<1>6. RepliesWithinQuota'
  BY <1>1, <1>2, <1>3, <1>4, ChatLimitsAssumption DEF RepliesWithinQuota
<1>7. rowLock = t \/ (building /\ tally' = [tally EXCEPT !.replies = @ + 1])
  BY <1>2, <1>4
<1> QED BY <1>2, <1>3, <1>5, <1>6, <1>7, CallEnds

\* An answer to a proposal, and a call that is cut off.
LEMMA GoingKeeps ==
    ASSUME QuotaInv, NEW t \in Calls, CommitProposal(t) \/ CutOff(t)
    PROVE  QuotaInv'
<1>1. Gone(t) /\ UNCHANGED <<building, tally>>
  BY DEF CommitProposal, CutOff
<1>2. BuildsWithinQuota' /\ RepliesWithinQuota' /\ tally' \in [replies: Nat, today: Nat, week: Nat]
  BY <1>1 DEF QuotaInv, ChatTypes, BuildsWithinQuota, RepliesWithinQuota
<1>3. CASE CutOff(t)
  BY <1>1, <1>2, <1>3, CallEnds DEF CutOff
<1>4. CASE CommitProposal(t)
  <2>1. call' = [call EXCEPT ![t] = NoCall] /\ rowLock' = rowLock
    BY <1>4 DEF CommitProposal, Gone
  <2>2. call'[t] = NoCall
    BY <2>1 DEF QuotaInv, ChatTypes
  <2>3. HoldsWhatItChecked(t)'
    BY <2>2, BlankCall DEF HoldsWhatItChecked
  <2> QED BY <1>1, <2>1, <2>3, BlankCall, CallGoesOn
<1> QED BY <1>3, <1>4

\* Midnight only lowers what is counted: who was let through still is.
LEMMA MidnightKeeps ==
    ASSUME QuotaInv, NEW monday \in BOOLEAN, Midnight(monday)
    PROVE  QuotaInv'
<1>1. /\ tally \in [replies: Nat, today: Nat, week: Nat]
      /\ BuildsWithinQuota /\ RepliesWithinQuota /\ \A t \in Calls : HoldsWhatItChecked(t)
  BY DEF QuotaInv, ChatTypes
<1>2. UNCHANGED <<building, call, rowLock>>
  BY DEF Midnight
<1>3. PICK week \in {0, tally.week} : tally' = [replies |-> 0, today |-> 0, week |-> week]
  BY DEF Midnight
<1>4. /\ tally'.replies = 0 /\ tally'.today = 0 /\ tally'.week = week /\ week \in Nat
      /\ week <= tally.week
  BY <1>1, <1>3
<1>5. ChatTypes'
  BY <1>2, <1>3, <1>4 DEF QuotaInv, ChatTypes
<1>6. BuildsWithinQuota' /\ RepliesWithinQuota'
  BY <1>1, <1>4, ChatLimitsAssumption DEF BuildsWithinQuota, RepliesWithinQuota
<1>7. BuildQuotaLeft => BuildQuotaLeft'
  BY <1>1, <1>4, ChatLimitsAssumption DEF BuildQuotaLeft
<1>8. tally.replies < MaxReplies => tally'.replies < MaxReplies
  BY <1>1, <1>4, ChatLimitsAssumption
<1>9. \A t \in Calls : HoldsWhatItChecked(t)'
  BY <1>1, <1>2, <1>7, <1>8 DEF HoldsWhatItChecked
<1> QED BY <1>5, <1>6, <1>9 DEF QuotaInv

\* What neither calls, counts nor locks.
LEMMA NoQuotaMoves ==
    ASSUME QuotaInv, UNCHANGED <<building, tally, call, rowLock>>
    PROVE  QuotaInv'
BY DEF QuotaInv, ChatTypes, BuildsWithinQuota, RepliesWithinQuota, HoldsWhatItChecked, BuildQuotaLeft

\* Every step of the chats.
LEMMA ChatStep == QuotaInv /\ [ChatNext]_chatVars => QuotaInv'
<1> SUFFICES ASSUME QuotaInv, [ChatNext]_chatVars PROVE QuotaInv'
  OBVIOUS
<1>1. ASSUME NEW c \in Chats, CreateSession(c) \/ CloseSession(c) \/ TurnAway(c)
      PROVE  QuotaInv'
  BY <1>1, NoQuotaMoves DEF CreateSession, CloseSession, TurnAway
<1>2. ASSUME NEW t \in Calls,
             \/ \E c \in Chats, builds \in BOOLEAN : PostMessage(t, c, builds)
             \/ LockAndCheck(t) \/ BuildForChat(t) \/ CountMessages(t) \/ CommitTurn(t)
             \/ GenerateFromForm(t) \/ BuildFromForm(t)
             \/ \E p \in Proposals : AcceptProposal(t, p) \/ RejectProposal(t, p)
             \/ CommitProposal(t) \/ CutOff(t)
      PROVE  QuotaInv'
  BY <1>2, PostKeeps, LockKeeps, BuildKeeps, CountKeeps, CommitKeeps, GoingKeeps
<1>3. ASSUME NEW monday \in BOOLEAN, Midnight(monday) PROVE QuotaInv'
  BY <1>3, MidnightKeeps
<1>4. CASE UNCHANGED chatVars
  BY <1>4, NoQuotaMoves DEF chatVars
<1> QED BY <1>1, <1>2, <1>3, <1>4 DEF ChatNext

\* The invariant the theorem rests on.
LEMMA QuotaInvariant == ChatSpec => []QuotaInv
<1> QED BY QuotaBegins, ChatStep, PTL DEF ChatSpec

\* However many chats, calls and midnights, and whatever the limits: turns and
\* the form never build more than the quotas, nor answer more while chats do
\* not build (quota.py, require_generation_quota and require_ai_reply_quota).
THEOREM QuotasStayKept == ChatSpec => []QuotasKept
<1>1. QuotaInv => QuotasKept
  BY DEF QuotaInv, QuotasKept
<1> QED BY <1>1, QuotaInvariant, PTL

\* The rows of chats and proposals, which no quota looks at.
ChatRow == [status: {"none", "active", "closed"}, messages: Nat]
ProposalRow == [status: {"none", "draft", "accepted", "rejected"}, routes: Nat]
ChatFits ==
    /\ chat \in [Chats -> ChatRow]
    /\ nights \in 0..MaxNights
    /\ proposal \in [Proposals -> ProposalRow]

\* A chat, or a proposal, is written, or one that is not there and so nothing.
LEMMA ChatWritten ==
    ASSUME chat \in [Chats -> ChatRow], NEW c, NEW row, c \in Chats => row \in ChatRow
    PROVE  [chat EXCEPT ![c] = row] \in [Chats -> ChatRow]
OBVIOUS

LEMMA ProposalWritten ==
    ASSUME proposal \in [Proposals -> ProposalRow], NEW p, NEW row, p \in Proposals => row \in ProposalRow
    PROVE  [proposal EXCEPT ![p] = row] \in [Proposals -> ProposalRow]
OBVIOUS

LEMMA ChatKeepsFitting == QuotaInv /\ ChatFits /\ [ChatNext]_chatVars => ChatFits'
<1> SUFFICES ASSUME QuotaInv, ChatFits, [ChatNext]_chatVars PROVE ChatFits'
  OBVIOUS
<1>0. /\ chat \in [Chats -> ChatRow] /\ nights \in 0..MaxNights /\ MaxNights \in Nat
      /\ proposal \in [Proposals -> ProposalRow] /\ call \in [Calls -> CallRows]
  BY ChatLimitsAssumption DEF QuotaInv, ChatTypes, ChatFits
<1>1. ASSUME NEW c \in Chats, NEW status \in {"active", "closed"},
             chat' = [chat EXCEPT ![c].status = status], UNCHANGED <<nights, proposal>>
      PROVE  ChatFits'
  <2>1. PICK row : row = [chat[c] EXCEPT !.status = status]
    OBVIOUS
  <2>2. row \in ChatRow
    BY <1>0, <2>1 DEF ChatRow
  <2> QED
    BY <1>0, <1>1, <2>1, <2>2, ChatWritten DEF ChatFits
<1>2. ASSUME NEW t \in Calls, BuildForChat(t) PROVE ChatFits'
  <2>1. PICK c, more : c = call[t].chat /\ more = [chat[c] EXCEPT !.messages = @ + 1]
    OBVIOUS
  <2>2. chat' = [chat EXCEPT ![c] = more] /\ UNCHANGED nights
    BY <1>2, <2>1 DEF BuildForChat
  <2>3. c \in Chats => more \in ChatRow
    BY <1>0, <2>1 DEF ChatRow
  <2>4. PICK p \in Proposals : proposal' = [proposal EXCEPT ![p] = [proposal[p] EXCEPT !.status = "draft"]]
    BY <1>2 DEF BuildForChat, NewProposal
  <2>5. PICK row : row = [proposal[p] EXCEPT !.status = "draft"]
    OBVIOUS
  <2>6. row \in ProposalRow /\ proposal' = [proposal EXCEPT ![p] = row]
    BY <1>0, <2>4, <2>5 DEF ProposalRow
  <2> QED
    BY <1>0, <2>2, <2>3, <2>6, ChatWritten, ProposalWritten DEF ChatFits
<1>3. ASSUME NEW t \in Calls, CommitTurn(t) PROVE ChatFits'
  <2>1. PICK c, row : /\ c = call[t].chat
                      /\ row = [status |-> IF call[t].closes THEN "closed" ELSE chat[c].status,
                                messages |-> chat[c].messages + OwnMessages(t)]
    OBVIOUS
  <2>2. chat' = [chat EXCEPT ![c] = row] /\ UNCHANGED <<nights, proposal>>
    BY <1>3, <2>1 DEF CommitTurn
  <2>3. OwnMessages(t) \in Nat
    BY DEF OwnMessages
  <2>4. c \in Chats => row \in ChatRow
    BY <1>0, <2>1, <2>3 DEF ChatRow
  <2> QED
    BY <1>0, <2>2, <2>4, ChatWritten DEF ChatFits
<1>4. ASSUME NEW t \in Calls, BuildFromForm(t) PROVE ChatFits'
  <2>1. PICK row : row = [status |-> "accepted", routes |-> 1]
    OBVIOUS
  <2>2. PICK p \in Proposals : proposal' = [proposal EXCEPT ![p] = row]
    BY <1>4, <2>1 DEF BuildFromForm, NewProposal
  <2>3. row \in ProposalRow
    BY <2>1 DEF ProposalRow
  <2> QED
    BY <1>0, <1>4, <2>2, <2>3, ProposalWritten DEF BuildFromForm, ChatFits
<1>5. ASSUME NEW t \in Calls, CommitProposal(t) PROVE ChatFits'
  <2>1. PICK p : p = call[t].proposal
    OBVIOUS
  <2>2. PICK row : /\ proposal' = [proposal EXCEPT ![p] = row]
                   /\ \/ row = [status |-> "accepted", routes |-> proposal[p].routes + 1]
                      \/ row = [proposal[p] EXCEPT !.status = "rejected"]
    BY <1>5, <2>1 DEF CommitProposal
  <2>3. p \in Proposals => row \in ProposalRow
    BY <1>0, <2>2 DEF ProposalRow
  <2> QED
    BY <1>0, <1>5, <2>2, <2>3, ProposalWritten DEF CommitProposal, ChatFits
<1>6. ASSUME nights < MaxNights, nights' = nights + 1, UNCHANGED <<chat, proposal>> PROVE ChatFits'
  BY <1>0, <1>6 DEF ChatFits
<1>7. CASE UNCHANGED <<chat, nights, proposal>>
  BY <1>0, <1>7 DEF ChatFits
<1> QED
  BY <1>1, <1>2, <1>3, <1>4, <1>5, <1>6, <1>7
     DEF ChatNext, CreateSession, CloseSession, TurnAway, PostMessage, LockAndCheck, CountMessages,
         GenerateFromForm, AcceptProposal, RejectProposal, CutOff, Midnight, chatVars

\* The types of BuilderChat.
LEMMA ChatTypesHold == ChatSpec => []ChatTypeOK
<1>1. ChatInit => ChatFits
  BY ChatLimitsAssumption DEF ChatInit, ChatFits, ChatRow, ProposalRow
<1>2. QuotaInv /\ ChatFits => ChatTypeOK
  BY DEF QuotaInv, ChatTypes, CallRows, CallStages, ChatFits, ChatRow, ProposalRow, ChatTypeOK
<1> QED
  BY <1>1, <1>2, QuotaInvariant, ChatKeepsFitting, PTL DEF ChatSpec

-----------------------------------------------------------------------------
(* What a chat knows of the trip, and shows.                                *)

\* A draft has the four fields, and a patch is about some of them.
IsDraft(w) == w = [f \in Fields |-> w[f]]
IsPatch(p) ==
    /\ DOMAIN p \subseteq Fields \cup {"interests_add"}
    /\ Has(p, "flexible_start") => p["flexible_start"] \in BOOLEAN
    /\ Has(p, "start_query") => p["start_query"] \in Towns

InterestsKnown(w, said, words) == "interests" \in said => w.interests \subseteq words
TransportKnown(w, said, last) == "transport_mode" \in said => w.transport_mode = last
StartKnown(w, last) ==
    /\ last = "free" => w.flexible_start /\ w.start_query = None
    /\ last \in Towns => ~w.flexible_start /\ w.start_query = last
\* Of a start that was said, the field is confirmed: no default takes its place.
StartConfirmed(said, last) ==
    /\ last = "free" => "flexible_start" \in said
    /\ last \in Towns => "start_query" \in said

Known(w, said, h) ==
    /\ InterestsKnown(w, said, h.interests)
    /\ TransportKnown(w, said, h.transport_mode)
    /\ StartKnown(w, h.start) /\ StartConfirmed(said, h.start)

TurnsInv == IsDraft(wishes) /\ Known(wishes, confirmed, heard)

\* Merging a patch: what it says replaces what was known.
LEMMA MergeIsDraft ==
    ASSUME NEW w, IsDraft(w), NEW p, NEW said
    PROVE  IsDraft(Merge(w, p, said))
BY DEF IsDraft, Merge, Fields

\* The start after a patch is the one the patch says, or the one before.
LEMMA MergeStart ==
    ASSUME NEW w, IsDraft(w), NEW p, IsPatch(p), NEW said, NEW old, StartKnown(w, old)
    PROVE  StartKnown(Merge(w, p, said), StartSaid(p, old))
<1> DEFINE m == Merge(w, p, said)
<1>1. /\ m.start_query = IF Has(p, "start_query") THEN p["start_query"] ELSE Unanchored(w, p).start_query
      /\ m.flexible_start = IF Has(p, "flexible_start") THEN p["flexible_start"]
                            ELSE Unanchored(w, p).flexible_start
  BY DEF Merge, Fields
<1>2. CASE FreeStart(p)
  <2>1. Unanchored(w, p).start_query = None
    BY <1>2 DEF Unanchored, IsDraft, Fields
  <2> QED BY <1>1, <1>2, <2>1, NoTownAssumption DEF StartSaid, StartKnown, FreeStart
<1>3. CASE ~FreeStart(p) /\ Has(p, "start_query")
  <2>1. Unanchored(w, p).flexible_start = FALSE
    BY <1>3 DEF Unanchored, IsDraft, Fields
  <2>2. m.flexible_start = FALSE /\ m.start_query = p["start_query"] /\ StartSaid(p, old) = p["start_query"]
    BY <1>1, <1>3, <2>1 DEF StartSaid, FreeStart, IsPatch
  <2>3. p["start_query"] \in Towns
    BY <1>3 DEF IsPatch
  <2> QED BY <2>2, <2>3, NoTownAssumption DEF StartKnown
<1>4. CASE ~FreeStart(p) /\ ~Has(p, "start_query")
  <2>1. Unanchored(w, p) = w
    BY <1>4 DEF Unanchored
  <2>2. m.start_query = w.start_query /\ m.flexible_start = IF Has(p, "flexible_start") THEN FALSE ELSE w.flexible_start
    BY <1>1, <1>4, <2>1 DEF FreeStart, IsPatch
  <2>3. StartSaid(p, old) = IF Has(p, "flexible_start") /\ old = "free" THEN None ELSE old
    BY <1>4 DEF StartSaid
  <2> QED BY <2>2, <2>3, NoTownAssumption DEF StartKnown
<1> QED BY <1>2, <1>3, <1>4

\* Whoever says a start confirms its field.
LEMMA MergeStartConfirmed ==
    ASSUME NEW p, IsPatch(p), NEW said, NEW old, StartConfirmed(said, old)
    PROVE  StartConfirmed(said \cup Touched(p), StartSaid(p, old))
<1>1. \A f \in StartFields : Has(p, f) => f \in Touched(p)
  BY DEF Touched, Has, StartFields
<1>2. CASE FreeStart(p)
  BY <1>1, <1>2, NoTownAssumption DEF StartSaid, StartConfirmed, FreeStart, StartFields
<1>3. CASE ~FreeStart(p) /\ Has(p, "start_query")
  <2>1. StartSaid(p, old) \in Towns /\ "start_query" \in Touched(p)
    BY <1>1, <1>3 DEF StartSaid, IsPatch, StartFields
  <2> QED BY <2>1, NoTownAssumption DEF StartConfirmed
<1>4. CASE ~FreeStart(p) /\ ~Has(p, "start_query")
  <2>1. StartSaid(p, old) \in {old, None}
    BY <1>4 DEF StartSaid
  <2> QED BY <2>1, NoTownAssumption DEF StartConfirmed
<1> QED BY <1>2, <1>3, <1>4

\* Interests after a patch were all said, by the patch or before it.
LEMMA MergeInterests ==
    ASSUME NEW w, IsDraft(w), NEW p, NEW said, NEW before \in SUBSET said, NEW words,
           InterestsKnown(w, said, words)
    PROVE  InterestsKnown(Merge(w, p, before), said \cup Touched(p), words \cup InterestsSaid(p))
<1> DEFINE m == Merge(w, p, before)
           base == IF Has(p, "interests") THEN p["interests"] ELSE w.interests
<1>1. Unanchored(w, p).interests = w.interests
  BY DEF Unanchored, IsDraft, Fields
<1>2. m.interests = IF Has(p, "interests_add")
                    THEN (IF "interests" \in before THEN base ELSE {}) \cup p["interests_add"]
                    ELSE base
  BY <1>1 DEF Merge, Fields
<1>3. "interests" \in Touched(p) <=> Has(p, "interests") \/ Has(p, "interests_add")
  BY DEF Touched, Has
<1>4. SUFFICES ASSUME "interests" \in said \cup Touched(p)
               PROVE  m.interests \subseteq words \cup InterestsSaid(p)
  BY DEF InterestsKnown
<1>5. "interests" \in said \/ Has(p, "interests") => base \subseteq words \cup InterestsSaid(p)
  BY DEF InterestsKnown, InterestsSaid
<1>6. Has(p, "interests_add") => p["interests_add"] \subseteq InterestsSaid(p)
  BY DEF InterestsSaid
<1> HIDE DEF m, base
<1>7. CASE Has(p, "interests_add")
  BY <1>2, <1>5, <1>6, <1>7
<1>8. CASE ~Has(p, "interests_add")
  BY <1>2, <1>3, <1>4, <1>5, <1>8
<1> QED BY <1>7, <1>8 DEF m

\* So with the transport, of which one value counts.
LEMMA MergeTransport ==
    ASSUME NEW w, IsDraft(w), NEW p, NEW said, NEW before, NEW last, TransportKnown(w, said, last)
    PROVE  TransportKnown(Merge(w, p, before), said \cup Touched(p),
                          IF Has(p, "transport_mode") THEN p["transport_mode"] ELSE last)
<1>1. Unanchored(w, p).transport_mode = w.transport_mode
  BY DEF Unanchored, IsDraft, Fields
<1>2. Merge(w, p, before).transport_mode =
          IF Has(p, "transport_mode") THEN p["transport_mode"] ELSE w.transport_mode
  BY <1>1 DEF Merge, Fields
<1>3. "transport_mode" \in Touched(p) => Has(p, "transport_mode")
  BY DEF Touched, Has
<1> QED BY <1>2, <1>3 DEF TransportKnown

\* What is known after a patch, of whomever: h names what was said before it.
Told(h, p) == [interests |-> h.interests \cup InterestsSaid(p),
               transport_mode |-> IF Has(p, "transport_mode") THEN p["transport_mode"] ELSE h.transport_mode,
               start |-> StartSaid(p, h.start)]

\* All three together.
LEMMA MergeKnown ==
    ASSUME NEW w, IsDraft(w), NEW p, IsPatch(p), NEW said, NEW before \in SUBSET said, NEW h,
           Known(w, said, h)
    PROVE  IsDraft(Merge(w, p, before)) /\ Known(Merge(w, p, before), said \cup Touched(p), Told(h, p))
BY MergeIsDraft, MergeStart, MergeStartConfirmed, MergeInterests, MergeTransport DEF Known, Told

\* Drafts of the profile touch nothing that was said.
LEMMA ProfileKnown ==
    ASSUME TurnsInv
    PROVE  IsDraft(WithProfile) /\ Known(WithProfile, confirmed, heard)
<1>1. IsDraft(WithProfile)
  BY DEF IsDraft, WithProfile
<1>2. \A f \in confirmed \cap Fields : WithProfile[f] = wishes[f]
  BY DEF WithProfile
<1>3. WithProfile.start_query = wishes.start_query /\ WithProfile.flexible_start = wishes.flexible_start
  BY DraftsAssumption DEF WithProfile, Has, Fields
<1> QED BY <1>1, <1>2, <1>3 DEF TurnsInv, Known, InterestsKnown, TransportKnown, StartKnown, Fields

\* The first part of a turn: a patch of the person over the drafts.
LEMMA OwnPartKnown ==
    ASSUME TurnsInv, NEW own, IsPatch(own), NEW before \in SUBSET confirmed
    PROVE  /\ IsDraft(Merge(WithProfile, own, before))
           /\ Known(Merge(WithProfile, own, before), confirmed \cup Touched(own), Told(heard, own))
BY ProfileKnown, MergeKnown

\* Saying nothing is a patch.
LEMMA NoPatchIsPatch == IsPatch(NoPatch)
BY DEF IsPatch, NoPatch, Has

\* What heard becomes, with and without the model.
LEMMA HeardOwn ==
    ASSUME NEW own, NEW w, NEW said, Known(w, said, Told(heard, own))
    PROVE  Known(w, said, Heard(own, NoPatch))
<1> DEFINE h == Heard(own, NoPatch)
           both == Over(Without(NoPatch, DOMAIN own), own)
<1>1. \A f : ~Has(NoPatch, f) /\ ~Has(Without(NoPatch, DOMAIN own), f)
  BY DEF Has, NoPatch, Without
<1>2. h.interests = heard.interests \cup InterestsSaid(own)
  BY <1>1 DEF Heard, InterestsSaid
<1>3. /\ Has(both, "transport_mode") <=> Has(own, "transport_mode")
      /\ Has(own, "transport_mode") => both["transport_mode"] = own["transport_mode"]
  BY DEF Over, Without, NoPatch, Has
<1>4. h.transport_mode = IF Has(own, "transport_mode") THEN own["transport_mode"] ELSE heard.transport_mode
  BY <1>3 DEF Heard
<1>5. \A old : StartSaid(Without(NoPatch, DOMAIN own), old) = old
  BY <1>1 DEF StartSaid, FreeStart
<1>6. h.start = StartSaid(own, heard.start)
  BY <1>5 DEF Heard
<1> HIDE DEF h
<1>7. h.interests = Told(heard, own).interests /\ h.transport_mode = Told(heard, own).transport_mode
      /\ h.start = Told(heard, own).start
  BY <1>2, <1>4, <1>6 DEF Told
<1>8. Known(w, said, h)
  BY <1>7 DEF Known
<1> QED BY <1>8 DEF h

\* What the person said of a field this turn, the model cannot unsay.
LEMMA EffectivePatch ==
    ASSUME NEW own, NEW p, IsPatch(p)
    PROVE  /\ IsPatch(Effective(own, p))
           /\ \A f \in Fields \ {"interests"} :
                 /\ Has(Effective(own, p), f) <=> Has(p, f) /\ ~Has(own, f)
                 /\ Has(Effective(own, p), f) => Effective(own, p)[f] = p[f]
           /\ InterestsSaid(Effective(own, p)) \subseteq InterestsSaid(p)
<1> DEFINE gone == {f \in DOMAIN p : (IF f = "interests_add" THEN "interests" ELSE f) \in Touched(own)}
           eff == Effective(own, p)
<1>1. eff = [f \in DOMAIN p \ gone |-> p[f]]
  BY DEF Effective, Without
<1>2. IsPatch(eff)
  BY <1>1 DEF IsPatch, Has
<1>3. ASSUME NEW f \in Fields \ {"interests"}
      PROVE  f \in Touched(own) <=> Has(own, f)
  BY <1>3 DEF Fields, Touched, Has
<1>4. ASSUME NEW f \in Fields \ {"interests"}
      PROVE  /\ Has(eff, f) <=> Has(p, f) /\ ~Has(own, f)
             /\ Has(eff, f) => eff[f] = p[f]
  BY <1>1, <1>3, <1>4 DEF Fields, Has
<1>5. InterestsSaid(eff) \subseteq InterestsSaid(p)
  <2> HIDE DEF gone
  <2> QED BY <1>1 DEF InterestsSaid, Has
<1> QED BY <1>2, <1>4, <1>5

\* After the model's patch, what the history has is what was told.
LEMMA HeardBoth ==
    ASSUME NEW own, NEW p, IsPatch(p), NEW w, NEW said,
           Known(w, said, Told(Told(heard, own), Effective(own, p)))
    PROVE  Known(w, said, Heard(own, p))
<1> DEFINE h == Heard(own, p)
           eff == Effective(own, p)
           rest == Without(p, DOMAIN own)
           both == Over(rest, own)
<1>1. \A f : /\ Has(rest, f) <=> Has(p, f) /\ ~Has(own, f)
             /\ Has(rest, f) => rest[f] = p[f]
  BY DEF Without, Has
<1>2. h.interests = heard.interests \cup InterestsSaid(own) \cup InterestsSaid(p)
  BY DEF Heard
<1>3. /\ Has(both, "transport_mode") <=> Has(own, "transport_mode") \/ Has(p, "transport_mode")
      /\ Has(both, "transport_mode") => both["transport_mode"] =
             IF Has(own, "transport_mode") THEN own["transport_mode"] ELSE p["transport_mode"]
  BY DEF Over, Without, Has
<1>4. h.transport_mode = IF Has(both, "transport_mode") THEN both["transport_mode"] ELSE heard.transport_mode
  BY DEF Heard
<1>5. h.start = StartSaid(rest, StartSaid(own, heard.start))
  BY DEF Heard
<1>6. /\ \A f \in {"transport_mode", "start_query", "flexible_start"} :
              /\ Has(eff, f) <=> Has(p, f) /\ ~Has(own, f)
              /\ Has(eff, f) => eff[f] = p[f]
      /\ InterestsSaid(eff) \subseteq InterestsSaid(p)
  BY EffectivePatch DEF Fields
<1> DEFINE told == Told(Told(heard, own), eff)
<1>7. /\ told.interests = heard.interests \cup InterestsSaid(own) \cup InterestsSaid(eff)
      /\ told.transport_mode = IF Has(eff, "transport_mode") THEN eff["transport_mode"]
                               ELSE IF Has(own, "transport_mode") THEN own["transport_mode"]
                               ELSE heard.transport_mode
      /\ told.start = StartSaid(eff, StartSaid(own, heard.start))
  BY DEF Told
<1> HIDE DEF h, eff, rest, both, told
<1>8. told.interests \subseteq h.interests
  BY <1>2, <1>6, <1>7
<1>9. told.transport_mode = h.transport_mode
  BY <1>3, <1>4, <1>6, <1>7
<1>10. told.start = h.start
  BY <1>1, <1>5, <1>6, <1>7 DEF StartSaid, FreeStart
<1>11. Known(w, said, told)
  BY DEF told, eff
<1>12. Known(w, said, h)
  BY <1>8, <1>9, <1>10, <1>11 DEF Known, InterestsKnown
<1> QED BY <1>12 DEF h

\* Whatever the model answers, in one call or two, is a patch.
LEMMA ResultIsPatch ==
    ASSUME NEW w, NEW said, NEW g, NEW result \in ModelAnswers(w, said, g)
    PROVE  IsPatch(result.patch)
<1>1. \A p \in Proposed : IsPatch(p)
  BY PatchesAssumption DEF IsPatch
<1>2. ASSUME NEW first \in Proposed, NEW second \in Proposed
      PROVE  IsPatch(Over(first, second))
  <2>1. IsPatch(first) /\ IsPatch(second)
    BY <1>1
  <2> QED BY <2>1 DEF IsPatch, Over, Has
<1>3. result.patch = NoPatch \/ \E first, second \in Proposed : result.patch = Over(first, second)
  BY DEF ModelAnswers
<1> QED BY <1>2, <1>3, NoPatchIsPatch

\* Every turn ends in a Save, and its answer is words or for what it saves.
ShowsWhatIsKept(answer, w, said) ==
    answer.kind # "words" => answer.wishes = w /\ answer.confirmed = said

\* A turn that saves what is known, with an answer for it, keeps both.
LEMMA PatchKeeps ==
    ASSUME NEW w, NEW said, NEW g, NEW m, NEW answer, NEW own, NEW model,
           Save(w, said, g, m, answer, own, model),
           IsDraft(w), Known(w, said, Heard(own, model)), ShowsWhatIsKept(answer, w, said)
    PROVE  TurnsInv' /\ ShownForTheWishesKept'
<1>1. wishes' = w /\ confirmed' = said /\ heard' = Heard(own, model) /\ shown' = answer
  BY DEF Save
<1>2. TurnsInv'
  BY <1>1 DEF TurnsInv
<1>3. ShownForTheWishesKept'
  BY <1>1 DEF ShownForTheWishesKept, ShowsWhatIsKept
<1> QED BY <1>2, <1>3

\* The answers are for what is saved with them.
LEMMA AnswersShow ==
    ASSUME NEW w, NEW said
    PROVE  /\ ShowsWhatIsKept(Words, w, said)
           /\ ShowsWhatIsKept(Search(w, said), w, said)
           /\ \A found : ShowsWhatIsKept(Cards(found, w, said), w, said)
BY DEF ShowsWhatIsKept, Words, Search, Cards

\* Options of the catalogue.
LEMMA MatchKeeps ==
    ASSUME NEW w, NEW said, NEW own, MatchFirst(w, said, own),
           IsDraft(w), Known(w, said, Told(heard, own))
    PROVE  TurnsInv' /\ ShownForTheWishesKept'
<1>1. PICK answer \in {Words, Search(w, said)} :
          \E g, m : Save(w, said, g, m, answer, own, NoPatch)
  BY DEF MatchFirst
<1>2. ShowsWhatIsKept(answer, w, said)
  BY AnswersShow
<1> QED BY <1>1, <1>2, HeardOwn, PatchKeeps

\* A built route: what was not said gets a default, and the start that was said does not.
LEMMA CustomKeeps ==
    ASSUME NEW w, NEW said, NEW own, BuildCustom(w, said, own),
           IsDraft(w), Known(w, said, Told(heard, own))
    PROVE  TurnsInv' /\ ShownForTheWishesKept'
<1> DEFINE free == IF said \cap StartFields = {} THEN [w EXCEPT !.flexible_start = TRUE] ELSE w
           full == IF "transport_mode" \in said THEN free ELSE [free EXCEPT !.transport_mode = "walk"]
           answer == [kind |-> "route", wishes |-> full, confirmed |-> said]
           h == Heard(own, NoPatch)
<1>1. Save(full, said, "custom", "custom", answer, own, NoPatch)
  BY DEF BuildCustom
<1>2. Known(w, said, h)
  BY HeardOwn
<1>3. IsDraft(free) /\ free.interests = w.interests /\ free.transport_mode = w.transport_mode
      /\ free.start_query = w.start_query
      /\ free.flexible_start = IF said \cap StartFields = {} THEN TRUE ELSE w.flexible_start
  BY DEF IsDraft, Fields
<1> HIDE DEF free
<1>4. IsDraft(full) /\ full.interests = w.interests /\ full.start_query = w.start_query
      /\ full.flexible_start = free.flexible_start
      /\ full.transport_mode = IF "transport_mode" \in said THEN w.transport_mode ELSE "walk"
  BY <1>3 DEF IsDraft, Fields
<1>5. ShowsWhatIsKept(answer, full, said)
  BY DEF ShowsWhatIsKept
<1> HIDE DEF full, answer, h
<1>6. InterestsKnown(full, said, h.interests) /\ TransportKnown(full, said, h.transport_mode)
  BY <1>2, <1>4 DEF Known, InterestsKnown, TransportKnown
<1>7. StartKnown(full, h.start)
  <2>1. h.start = "free" \/ h.start \in Towns => said \cap StartFields # {}
    BY <1>2 DEF Known, StartConfirmed, StartFields
  <2> QED BY <1>2, <1>3, <1>4, <2>1 DEF Known, StartKnown
<1>8. Known(full, said, h)
  BY <1>2, <1>6, <1>7 DEF Known
<1> QED BY <1>1, <1>4, <1>5, <1>8, PatchKeeps DEF h

\* An answer of the model, whose patch the turn makes its own.
LEMMA TalkKeeps ==
    ASSUME NEW w, NEW said, NEW g, NEW m, NEW own, NEW controls, TalkWith(w, said, g, m, own, controls),
           IsDraft(w), Known(w, said, Told(heard, own))
    PROVE  TurnsInv' /\ ShownForTheWishesKept'
<1>1. PICK result \in ModelAnswers(w, said, g) :
          \E last, purpose, answer :
             /\ Save(Merge(w, Effective(own, result.patch), said),
                     said \cup Touched(Effective(own, result.patch)),
                     last, purpose, answer, own, result.patch)
             /\ \/ answer = Words
                \/ answer = Cards(result.found, Merge(w, Effective(own, result.patch), said),
                                  said \cup Touched(Effective(own, result.patch)))
  BY DEF TalkWith
<1> DEFINE patch == Effective(own, result.patch)
           final == Merge(w, patch, said)
           known == said \cup Touched(patch)
<1>2. PICK last, purpose, answer :
          /\ Save(final, known, last, purpose, answer, own, result.patch)
          /\ answer = Words \/ answer = Cards(result.found, final, known)
  BY <1>1
<1>3. IsPatch(result.patch) /\ IsPatch(patch)
  BY ResultIsPatch, EffectivePatch
<1>4. IsDraft(final) /\ Known(final, known, Told(Told(heard, own), patch))
  BY <1>3, MergeKnown
<1>5. Known(final, known, Heard(own, result.patch))
  BY <1>3, <1>4, HeardBoth
<1>6. ShowsWhatIsKept(answer, final, known)
  BY <1>2, AnswersShow
<1> HIDE DEF patch, final, known
<1> QED BY <1>2, <1>4, <1>5, <1>6, PatchKeeps

\* What is pressed and said are patches.
LEMMA OwnsArePatches == \A own \in Chips \cup Spoken : IsPatch(own)
BY PatchesAssumption DEF IsPatch

\* A chip, a toggle or a form of controls.
LEMMA ChipKeeps ==
    ASSUME TurnsInv, NEW own \in Chips, PressChip(own)
    PROVE  TurnsInv' /\ ShownForTheWishesKept'
<1> DEFINE w == Merge(WithProfile, own, confirmed)
           said == confirmed \cup Touched(own)
<1>1. PICK controls, g : TalkWith(w, said, g, mode, own, controls)
  BY DEF PressChip
<1>2. IsDraft(w) /\ Known(w, said, Told(heard, own))
  BY OwnPartKnown, OwnsArePatches
<1> HIDE DEF w, said
<1> QED BY <1>1, <1>2, TalkKeeps

\* Words.
LEMMA SayKeeps ==
    ASSUME TurnsInv, NEW own \in Spoken, Say(own)
    PROVE  TurnsInv' /\ ShownForTheWishesKept'
<1>1. PICK g \in Goals :
          LET read == IF g \in {"discover", "custom"} THEN own ELSE NoPatch
              w == Merge(WithProfile, read, {})
              said == confirmed \cup Touched(read)
          IN \/ TalkWith(w, said, g, mode, read, FALSE)
             \/ MatchFirst(w, said, read)
             \/ g = "custom" /\ BuildCustom(w, said, read)
  BY DEF Say
<1> DEFINE read == IF g \in {"discover", "custom"} THEN own ELSE NoPatch
           w == Merge(WithProfile, read, {})
           said == confirmed \cup Touched(read)
<1>2. IsPatch(read)
  BY OwnsArePatches, NoPatchIsPatch
<1>3. IsDraft(w) /\ Known(w, said, Told(heard, read))
  BY <1>2, OwnPartKnown
<1>4. TalkWith(w, said, g, mode, read, FALSE) \/ MatchFirst(w, said, read) \/ BuildCustom(w, said, read)
  BY <1>1
<1> HIDE DEF read, w, said
<1> QED BY <1>3, <1>4, TalkKeeps, MatchKeeps, CustomKeeps

\* A button, or a canned answer.
LEMMA ButtonKeeps ==
    ASSUME TurnsInv, PressButton
    PROVE  TurnsInv' /\ ShownForTheWishesKept'
<1>1. Known(WithProfile, confirmed, Told(heard, NoPatch)) /\ IsDraft(WithProfile)
  <2>1. Told(heard, NoPatch).interests = heard.interests
        /\ Told(heard, NoPatch).transport_mode = heard.transport_mode
        /\ Told(heard, NoPatch).start = heard.start
    BY DEF Told, InterestsSaid, StartSaid, FreeStart, Has, NoPatch
  <2> QED BY <2>1, ProfileKnown DEF Known
<1>2. CASE MatchFirst(WithProfile, confirmed, NoPatch)
  BY <1>1, <1>2, MatchKeeps
<1>3. CASE BuildCustom(WithProfile, confirmed, NoPatch)
  BY <1>1, <1>3, CustomKeeps
<1>4. CASE ClearParams
  <2>1. IsDraft(wishes')
    BY <1>4 DEF ClearParams, IsDraft, Fields
  <2>2. confirmed' = {} /\ heard'.start = None
    BY <1>4 DEF ClearParams
  <2>3. Known(wishes', confirmed', heard')
    BY <2>2, NoTownAssumption DEF Known, InterestsKnown, TransportKnown, StartKnown, StartConfirmed
  <2>4. ShownForTheWishesKept'
    BY <1>4 DEF ClearParams, ShownForTheWishesKept, Words
  <2> QED BY <2>1, <2>3, <2>4 DEF TurnsInv
<1>5. CASE Canned(NoPatch)
  <2> DEFINE w == Merge(WithProfile, NoPatch, confirmed)
             said == confirmed \cup Touched(NoPatch)
  <2>1. PICK g \in Goals : Save(w, said, g, mode, Words, NoPatch, NoPatch)
    BY <1>5 DEF Canned
  <2>2. IsDraft(w) /\ Known(w, said, Told(heard, NoPatch))
    BY NoPatchIsPatch, OwnPartKnown
  <2> HIDE DEF w, said
  <2> QED BY <2>1, <2>2, HeardOwn, AnswersShow, PatchKeeps
<1> QED BY <1>2, <1>3, <1>4, <1>5 DEF PressButton

\* A chat as it is opened.
LEMMA TurnsBegin == TurnsInit => TurnsInv /\ ShownForTheWishesKept
<1> SUFFICES ASSUME TurnsInit PROVE TurnsInv /\ ShownForTheWishesKept
  OBVIOUS
<1>1. wishes \in Wishes
  BY DraftsAssumption DEF TurnsInit
<1>2. IsDraft(wishes)
  BY <1>1 DEF IsDraft, Wishes, Fields
<1>3. heard.start \in {"both", None} /\ heard.transport_mode = wishes.transport_mode
      /\ heard.interests = IF "interests" \in confirmed THEN wishes.interests ELSE {}
  BY DEF TurnsInit
<1>4. Known(wishes, confirmed, heard)
  BY <1>3, NoTownAssumption DEF Known, InterestsKnown, TransportKnown, StartKnown, StartConfirmed
<1> QED BY <1>2, <1>4 DEF TurnsInv, TurnsInit, ShownForTheWishesKept

\* Every turn.
LEMMA TurnsStep ==
    TurnsInv /\ ShownForTheWishesKept /\ [TurnsNext]_turnVars => TurnsInv' /\ ShownForTheWishesKept'
<1> SUFFICES ASSUME TurnsInv, ShownForTheWishesKept, [TurnsNext]_turnVars
             PROVE  TurnsInv' /\ ShownForTheWishesKept'
  OBVIOUS
<1>1. CASE UNCHANGED turnVars
  BY <1>1 DEF turnVars, TurnsInv, ShownForTheWishesKept
<1>2. CASE TurnsNext
  BY <1>2, ChipKeeps, SayKeeps, ButtonKeeps DEF TurnsNext
<1> QED BY <1>1, <1>2

\* The invariant both theorems rest on.
LEMMA TurnsInvariant == TurnsSpec => [](TurnsInv /\ ShownForTheWishesKept)
<1> QED BY TurnsBegin, TurnsStep, PTL DEF TurnsSpec

\* Whatever may be pressed, said and proposed, and in however many turns: a
\* confirmed wish is what was last said of it in this chat, and a draft of the
\* form or the profile never becomes one (merge_constraint_patch).
THEOREM ConfirmedStaysAsHeard == TurnsSpec => []ConfirmedAsHeard
<1>1. TurnsInv => ConfirmedAsHeard
  BY DEF TurnsInv, Known, InterestsKnown, TransportKnown, StartKnown, ConfirmedAsHeard
<1> QED BY <1>1, TurnsInvariant, PTL

\* Cards and route of an answer are for the wishes it is stored with
\* ("Never attach old-area cards").
THEOREM ShownStaysForTheWishesKept == TurnsSpec => []ShownForTheWishesKept
<1> QED BY TurnsInvariant, PTL

-----------------------------------------------------------------------------
(* Types of a chat's wishes and of what was said of them.                    *)

Typed(p) == IsPatch(p) /\ TasteFits(p)
Starts == Towns \cup {None, "free", "both"}
HeardRow == [interests : SUBSET Interests, transport_mode : Transports \cup {None}, start : Starts]

\* Four values of the fields' types are wishes.
LEMMA FourAreWishes ==
    ASSUME NEW w, IsDraft(w), w.interests \subseteq Interests, w.transport_mode \in Transports \cup {None},
           w.start_query \in Towns \cup {None}, w.flexible_start \in BOOLEAN
    PROVE  w \in Wishes
<1> DEFINE row == [interests |-> w.interests, transport_mode |-> w.transport_mode,
                   start_query |-> w.start_query, flexible_start |-> w.flexible_start]
<1>1. w = row
  BY DEF IsDraft, Fields
<1>2. row \in Wishes
  BY DEF Wishes
<1> QED
  BY <1>1, <1>2

\* Wishes have the four fields, each of its type.
LEMMA WishesAreFour ==
    ASSUME NEW w \in Wishes
    PROVE  /\ IsDraft(w)
           /\ w.interests \subseteq Interests /\ w.transport_mode \in Transports \cup {None}
           /\ w.start_query \in Towns \cup {None} /\ w.flexible_start \in BOOLEAN
BY DEF IsDraft, Wishes, Fields

\* Merging a patch of the types into wishes gives wishes.
LEMMA MergeIsTyped ==
    ASSUME NEW w \in Wishes, NEW p, Typed(p), NEW said
    PROVE  Merge(w, p, said) \in Wishes
<1> DEFINE m == Merge(w, p, said)
           base == Unanchored(w, p)
           plain == [f \in Fields |-> IF Has(p, f) THEN p[f] ELSE base[f]]
<1>1. IsDraft(m)
  BY WishesAreFour, MergeIsDraft
<1>2. /\ base.interests \subseteq Interests /\ base.transport_mode \in Transports \cup {None}
      /\ base.start_query \in Towns \cup {None} /\ base.flexible_start \in BOOLEAN
  BY DEF Unanchored, Wishes
<1> HIDE DEF base
<1>3. /\ plain.interests \subseteq Interests /\ plain.transport_mode \in Transports \cup {None}
      /\ plain.start_query \in Towns \cup {None} /\ plain.flexible_start \in BOOLEAN
  BY <1>2 DEF Typed, TasteFits, IsPatch, Fields
<1>4. /\ m.transport_mode = plain.transport_mode
      /\ m.start_query = plain.start_query /\ m.flexible_start = plain.flexible_start
      /\ m.interests \in {plain.interests, plain.interests \cup p["interests_add"], p["interests_add"]}
      /\ ~Has(p, "interests_add") => m.interests = plain.interests
  BY DEF Merge, Fields, base
<1> HIDE DEF plain, m
<1>5. Has(p, "interests_add") => p["interests_add"] \subseteq Interests
  BY DEF Typed, TasteFits
<1>6. m.interests \subseteq Interests
  BY <1>3, <1>4, <1>5
<1>7. m \in Wishes
  BY <1>1, <1>3, <1>4, <1>6, FourAreWishes
<1> QED
  BY <1>7 DEF m

\* A patch touches fields.
LEMMA TouchesFields ==
    ASSUME NEW p, Typed(p)
    PROVE  Touched(p) \subseteq Fields
BY DEF Typed, IsPatch, Touched, Fields

\* Part of a patch, and one patch over another, are of the types.
LEMMA PartsAreTyped ==
    /\ Typed(NoPatch)
    /\ \A p, fields : Typed(p) => Typed(Without(p, fields))
    /\ \A p, q : Typed(p) /\ Typed(q) => Typed(Over(p, q))
<1>1. Typed(NoPatch)
  BY DEF Typed, IsPatch, TasteFits, NoPatch, Has
<1>2. ASSUME NEW p, NEW fields, Typed(p) PROVE Typed(Without(p, fields))
  BY <1>2 DEF Typed, IsPatch, TasteFits, Without, Has
<1>3. ASSUME NEW p, NEW q, Typed(p), Typed(q) PROVE Typed(Over(p, q))
  BY <1>3 DEF Typed, IsPatch, TasteFits, Over, Has
<1> QED
  BY <1>1, <1>2, <1>3

\* All that is pressed, said and proposed is of the types.
LEMMA SourcesAreTyped ==
    /\ \A p \in Chips \cup Spoken \cup Proposed : Typed(p)
    /\ \A w, said, g : \A result \in ModelAnswers(w, said, g) :
          Typed(result.patch) /\ result.goal \in Goals \cup {None}
    /\ \A own, p : Typed(p) => Typed(Effective(own, p))
<1>1. \A p \in Chips \cup Spoken \cup Proposed : Typed(p)
  BY PatchesAssumption DEF Typed, IsPatch
<1>2. ASSUME NEW w, NEW said, NEW g, NEW result \in ModelAnswers(w, said, g)
      PROVE  Typed(result.patch) /\ result.goal \in Goals \cup {None}
  <2>1. result.patch = NoPatch \/ \E first, second \in Proposed : result.patch = Over(first, second)
    BY DEF ModelAnswers
  <2>2. result.goal \in Goals \cup {None}
    BY DEF ModelAnswers
  <2> QED
    BY <1>1, <2>1, <2>2, PartsAreTyped
<1>3. ASSUME NEW own, NEW p, Typed(p) PROVE Typed(Effective(own, p))
  BY <1>3, PartsAreTyped DEF Effective
<1> QED
  BY <1>1, <1>2, <1>3

\* What was said of each field, after a turn.
LEMMA HeardIsTyped ==
    ASSUME heard \in HeardRow, NEW own, Typed(own), NEW model, Typed(model)
    PROVE  Heard(own, model) \in HeardRow
<1> DEFINE rest == Without(model, DOMAIN own)
           both == Over(rest, own)
<1>1. Typed(rest) /\ Typed(both)
  BY PartsAreTyped
<1>2. \A p : Typed(p) => InterestsSaid(p) \subseteq Interests
  BY DEF Typed, TasteFits, InterestsSaid
<1>3. \A p, old : Typed(p) /\ old \in Starts => StartSaid(p, old) \in Starts
  BY DEF Typed, IsPatch, StartSaid, Starts
<1> HIDE DEF rest, both
<1>4. heard.interests \cup InterestsSaid(own) \cup InterestsSaid(model) \in SUBSET Interests
  BY <1>2 DEF HeardRow
<1>5. (IF Has(both, "transport_mode") THEN both["transport_mode"] ELSE heard.transport_mode)
        \in Transports \cup {None}
  BY <1>1 DEF Typed, TasteFits, HeardRow
<1>6. StartSaid(rest, StartSaid(own, heard.start)) \in Starts
  BY <1>1, <1>3 DEF HeardRow
<1> QED
  BY <1>4, <1>5, <1>6 DEF Heard, HeardRow, rest, both

\* A turn that saves wishes, and an answer for them, keeps the types.
LEMMA SaveIsTyped ==
    ASSUME TurnsTypeOK, MoreTurns,
           NEW w \in Wishes, NEW said \in SUBSET Fields, NEW g \in Goals, NEW m \in {"discover", "custom"},
           NEW answer \in Shown, NEW own, Typed(own), NEW model, Typed(model),
           Save(w, said, g, m, answer, own, model)
    PROVE  TurnsTypeOK'
<1>1. heard' \in HeardRow
  BY HeardIsTyped DEF Save, TurnsTypeOK, HeardRow, Starts
<1>2. turns' \in 0..MaxTurns
  BY TurnsAssumption DEF Save, MoreTurns, TurnsTypeOK
<1> QED
  BY <1>1, <1>2 DEF Save, TurnsTypeOK, HeardRow, Starts

\* The answers there are.
LEMMA AnswersAreTyped ==
    ASSUME NEW w \in Wishes, NEW said \in SUBSET Fields
    PROVE  /\ Words \in Shown /\ Search(w, said) \in Shown
           /\ \A found : Cards(found, w, said) = Search(w, said)
           /\ [kind |-> "route", wishes |-> w, confirmed |-> said] \in Shown
BY DEF Words, Search, Cards, Shown

\* Options found first, or none.
LEMMA MatchIsTyped ==
    ASSUME TurnsTypeOK, MoreTurns, NEW w \in Wishes, NEW said \in SUBSET Fields, NEW own, Typed(own),
           MatchFirst(w, said, own)
    PROVE  TurnsTypeOK'
<1>1. PICK g \in Goals, m \in {"discover", "custom"}, answer \in {Words, Search(w, said)} :
          Save(w, said, g, m, answer, own, NoPatch)
  BY DEF MatchFirst, TurnsTypeOK, Goals
<1> QED
  BY <1>1, SaveIsTyped, AnswersAreTyped, PartsAreTyped

\* A built route, with the defaults of planning.
LEMMA CustomIsTyped ==
    ASSUME TurnsTypeOK, MoreTurns, NEW w \in Wishes, NEW said \in SUBSET Fields, NEW own, Typed(own),
           BuildCustom(w, said, own)
    PROVE  TurnsTypeOK'
<1>1. PICK free \in Wishes : free = IF said \cap StartFields = {} THEN [w EXCEPT !.flexible_start = TRUE] ELSE w
  BY DEF Wishes
<1>2. PICK full \in Wishes :
          full = IF "transport_mode" \in said THEN free ELSE [free EXCEPT !.transport_mode = "walk"]
  BY TurnsAssumption DEF Wishes
<1>3. Save(full, said, "custom", "custom", [kind |-> "route", wishes |-> full, confirmed |-> said], own, NoPatch)
  BY <1>1, <1>2 DEF BuildCustom
<1>4. "custom" \in Goals
  BY DEF Goals
<1> QED
  BY <1>3, <1>4, SaveIsTyped, AnswersAreTyped, PartsAreTyped

\* Answers of the model.
LEMMA TalkIsTyped ==
    ASSUME TurnsTypeOK, MoreTurns, NEW w \in Wishes, NEW said \in SUBSET Fields, NEW g \in Goals,
           NEW m \in {"discover", "custom"}, NEW own, Typed(own), NEW controls,
           TalkWith(w, said, g, m, own, controls)
    PROVE  TurnsTypeOK'
<1>1. PICK result \in ModelAnswers(w, said, g) :
          LET last == IF result.goal # None /\ ~controls THEN result.goal ELSE g
              patch == Effective(own, result.patch)
              final == Merge(w, patch, said)
              known == said \cup Touched(patch)
              purpose == CASE last = "custom" -> "custom" [] last = "discover" -> "discover" [] OTHER -> m
          IN \/ last = "discover"
                /\ Save(final, known, last, purpose, Cards(result.found, final, known), own, result.patch)
             \/ Save(final, known, last, purpose, Words, own, result.patch)
  BY DEF TalkWith
<1>2. PICK patch : patch = Effective(own, result.patch)
  OBVIOUS
<1>3. Typed(result.patch) /\ Typed(patch) /\ result.goal \in Goals \cup {None}
  BY <1>2, SourcesAreTyped
<1>4. PICK final \in Wishes : final = Merge(w, patch, said)
  BY <1>3, MergeIsTyped
<1>5. PICK known \in SUBSET Fields : known = said \cup Touched(patch)
  BY <1>3, TouchesFields
<1>6. PICK last \in Goals : last = IF result.goal # None /\ ~controls THEN result.goal ELSE g
  BY <1>3
<1>7. PICK purpose \in {"discover", "custom"} :
          purpose = CASE last = "custom" -> "custom" [] last = "discover" -> "discover" [] OTHER -> m
  OBVIOUS
<1>8. \/ Save(final, known, last, purpose, Cards(result.found, final, known), own, result.patch)
      \/ Save(final, known, last, purpose, Words, own, result.patch)
  BY <1>1, <1>2, <1>4, <1>5, <1>6, <1>7
<1>9. Cards(result.found, final, known) = Search(final, known)
  BY AnswersAreTyped
<1> QED
  BY <1>3, <1>8, <1>9, SaveIsTyped, AnswersAreTyped

\* The wishes with the drafts of the profile.
LEMMA ProfileIsTyped ==
    ASSUME TurnsTypeOK
    PROVE  WithProfile \in Wishes
<1>1. IsDraft(WithProfile)
  BY DEF IsDraft, WithProfile
<1>2. /\ wishes.interests \subseteq Interests /\ wishes.transport_mode \in Transports \cup {None}
      /\ wishes.start_query \in Towns \cup {None} /\ wishes.flexible_start \in BOOLEAN
  BY WishesAreFour DEF TurnsTypeOK
<1>3. /\ WithProfile.interests \subseteq Interests /\ WithProfile.transport_mode \in Transports \cup {None}
  BY <1>2, DraftsAssumption DEF WithProfile, TasteFits, Fields
<1>4. WithProfile.start_query = wishes.start_query /\ WithProfile.flexible_start = wishes.flexible_start
  BY DraftsAssumption DEF WithProfile, Has, Fields
<1> QED
  BY <1>1, <1>2, <1>3, <1>4, FourAreWishes

\* Every turn.
LEMMA TurnIsTyped == TurnsTypeOK /\ [TurnsNext]_turnVars => TurnsTypeOK'
<1> SUFFICES ASSUME TurnsTypeOK, [TurnsNext]_turnVars PROVE TurnsTypeOK'
  OBVIOUS
<1>1. CASE UNCHANGED turnVars
  BY <1>1 DEF turnVars, TurnsTypeOK
<1>2. ASSUME NEW own, Typed(own), NEW said
      PROVE  /\ Merge(WithProfile, own, said) \in Wishes
             /\ confirmed \cup Touched(own) \in SUBSET Fields
  BY <1>2, ProfileIsTyped, MergeIsTyped, TouchesFields DEF TurnsTypeOK
<1>3. ASSUME NEW own \in Chips, PressChip(own) PROVE TurnsTypeOK'
  <2>1. Typed(own)
    BY SourcesAreTyped
  <2>2. PICK w \in Wishes : w = Merge(WithProfile, own, confirmed)
    BY <1>2, <2>1
  <2>3. PICK said \in SUBSET Fields : said = confirmed \cup Touched(own)
    BY <1>2, <2>1
  <2>4. MoreTurns /\ \E controls \in BOOLEAN, g \in Goals : TalkWith(w, said, g, mode, own, controls)
    BY <1>3, <2>2, <2>3 DEF PressChip, TurnsTypeOK, Goals
  <2>5. MoreTurns /\ mode \in {"discover", "custom"}
    BY <2>4 DEF TurnsTypeOK
  <2>6. PICK controls \in BOOLEAN, g \in Goals : TalkWith(w, said, g, mode, own, controls)
    BY <2>4
  <2> QED
    BY <2>1, <2>5, <2>6, TalkIsTyped
<1>4. ASSUME NEW own \in Spoken, Say(own) PROVE TurnsTypeOK'
  <2>1. PICK g \in Goals :
            LET read == IF g \in {"discover", "custom"} THEN own ELSE NoPatch
                w == Merge(WithProfile, read, {})
                said == confirmed \cup Touched(read)
            IN \/ TalkWith(w, said, g, mode, read, FALSE)
               \/ MatchFirst(w, said, read)
               \/ g = "custom" /\ BuildCustom(w, said, read)
    BY <1>4 DEF Say
  <2>2. PICK read : read = IF g \in {"discover", "custom"} THEN own ELSE NoPatch
    OBVIOUS
  <2>3. Typed(read)
    BY <2>2, SourcesAreTyped, PartsAreTyped
  <2>4. PICK w \in Wishes : w = Merge(WithProfile, read, {})
    BY <1>2, <2>3
  <2>5. PICK said \in SUBSET Fields : said = confirmed \cup Touched(read)
    BY <1>2, <2>3
  <2>6. TalkWith(w, said, g, mode, read, FALSE) \/ MatchFirst(w, said, read) \/ BuildCustom(w, said, read)
    BY <2>1, <2>2, <2>4, <2>5
  <2>7. MoreTurns /\ mode \in {"discover", "custom"}
    BY <1>4 DEF Say, TurnsTypeOK
  <2> QED
    BY <2>3, <2>6, <2>7, TalkIsTyped, MatchIsTyped, CustomIsTyped
<1>5. CASE PressButton
  <2>1. WithProfile \in Wishes /\ confirmed \in SUBSET Fields /\ Typed(NoPatch) /\ MoreTurns
    BY <1>5, ProfileIsTyped, PartsAreTyped DEF PressButton, TurnsTypeOK
  <2>2. CASE MatchFirst(WithProfile, confirmed, NoPatch)
    BY <2>1, <2>2, MatchIsTyped
  <2>3. CASE BuildCustom(WithProfile, confirmed, NoPatch)
    BY <2>1, <2>3, CustomIsTyped
  <2>4. CASE ClearParams
    <3>1. wishes' \in Wishes /\ heard' \in HeardRow
      BY <2>4 DEF ClearParams, Wishes, HeardRow, Starts
    <3>2. turns' \in 0..MaxTurns
      BY <2>1, <2>4, TurnsAssumption DEF ClearParams, MoreTurns, TurnsTypeOK
    <3>3. confirmed' \subseteq Fields /\ goal' \in Goals /\ mode' \in {"discover", "custom"} /\ shown' \in Shown
      BY <2>4 DEF ClearParams, Goals, Words, Shown
    <3> QED
      BY <3>1, <3>2, <3>3 DEF TurnsTypeOK, HeardRow, Starts
  <2>5. CASE Canned(NoPatch)
    <3>1. PICK w \in Wishes : w = Merge(WithProfile, NoPatch, confirmed)
      BY <1>2, <2>1
    <3>2. PICK said \in SUBSET Fields : said = confirmed \cup Touched(NoPatch)
      BY <1>2, <2>1
    <3>3. PICK g \in Goals : Save(w, said, g, mode, Words, NoPatch, NoPatch)
      BY <2>5, <3>1, <3>2 DEF Canned
    <3>4. mode \in {"discover", "custom"} /\ Words \in Shown
      BY DEF TurnsTypeOK, Words, Shown
    <3> QED
      BY <2>1, <3>3, <3>4, SaveIsTyped
  <2> QED
    BY <1>5, <2>2, <2>3, <2>4, <2>5 DEF PressButton
<1> QED
  BY <1>1, <1>3, <1>4, <1>5 DEF TurnsNext

\* Types of a chat's wishes, for any values of the fields and any patches.
LEMMA TurnTypesHold == TurnsSpec => []TurnsTypeOK
<1>1. TurnsInit => TurnsTypeOK
  <2> SUFFICES ASSUME TurnsInit PROVE TurnsTypeOK
    OBVIOUS
  <2>1. wishes \in Wishes /\ confirmed \subseteq Fields
    BY DraftsAssumption DEF TurnsInit
  <2>2. heard \in HeardRow
    BY <2>1 DEF TurnsInit, HeardRow, Starts, Wishes
  <2>3. goal \in Goals /\ mode \in {"discover", "custom"} /\ shown \in Shown /\ turns \in 0..MaxTurns
    BY TurnsAssumption DEF TurnsInit, Goals, Shown
  <2> QED
    BY <2>1, <2>2, <2>3 DEF TurnsTypeOK, HeardRow, Starts
<1> QED
  BY <1>1, TurnIsTyped, PTL DEF TurnsSpec
=============================================================================
