----------------------------- MODULE SliceCache -----------------------------
(***************************************************************************)
(* The saved-slice cache of the market table (market_slice_cache.py).      *)
(*                                                                         *)
(* wrap_market_item_slice reads the fence of the saved revisions, takes    *)
(* the page from the cache, joins the thread that is building it or builds *)
(* it, and answers only if the fence is still the same.  After two tries,  *)
(* without room for another build or without a readable fence it reads     *)
(* uncached, and says so when the revisions moved meanwhile.               *)
(*                                                                         *)
(* A page is followed by the revisions its statements saw: one database    *)
(* read at its beginning and one at its end stand for all of them.  A      *)
(* fence is the revision it hashes.                                        *)
(***************************************************************************)
EXTENDS Integers, FiniteSets, Sequences

CONSTANTS
    Readers,         \* HTTP threads
    Keys,            \* distinct requests
    Size,            \* encoded size of each key's page
    MaxEntryBytes,   \* maximum_entry_bytes
    MaxBytes,        \* maximum_bytes
    MaxEntries,      \* maximum_entries
    MaxFlights,      \* maximum_flights
    MaxRevision, MaxCalls, MaxUnreadable   \* bounds: commits, calls, failed fence reads

None == -1
Revisions == 0..MaxRevision
Fences == Revisions \cup {None}

SliceAssumption ==
    /\ Size \in [Keys -> Nat]
    /\ MaxEntryBytes \in Nat /\ MaxBytes \in Nat
    /\ MaxEntries \in Nat \ {0} /\ MaxFlights \in Nat \ {0}
    /\ MaxRevision \in Nat /\ MaxCalls \in Nat /\ MaxUnreadable \in Nat

VARIABLES
    revision,     \* the saved revision
    fence, entries, bytes,   \* SliceCache: entries oldest first
    flights,      \* flights that are listed: key, fence, who builds, invalidated
    reader,       \* where each thread is
    calls, unreadable

cache == <<fence, entries, bytes, flights>>
vars == <<revision, cache, reader, calls, unreadable>>

Page == [begin : Revisions, end : Revisions]
NoPage == [begin |-> 0, end |-> 0]
Steps == {"idle", "fence", "get", "wait", "build", "built", "publish", "land", "post",
          "before", "plain", "plainEnd", "after", "done", "failed"}

\* outcome is what a builder leaves for those that wait: "stored" is the
\* page in flight['encoded'], "private" a page too large to share.
ReaderState == [step : Steps, key : Keys, attempt : 1..3, fence : Fences, page : Page,
                since : Revisions, outcome : {"none", "stored", "private", "stale", "error"},
                current : BOOLEAN]
Fresh(k) == [step |-> "fence", key |-> k, attempt |-> 1, fence |-> None, page |-> NoPage,
             since |-> revision, outcome |-> "none", current |-> FALSE]

TypeOK ==
    /\ revision \in Revisions
    /\ fence \in Fences
    /\ entries \in Seq([key : Keys, page : Page])
    /\ bytes \in Nat
    /\ flights \subseteq [key : Keys, fence : Revisions, leader : Readers, invalidated : BOOLEAN]
    /\ reader \in [Readers -> ReaderState]
    /\ calls \in 0..MaxCalls
    /\ unreadable \in 0..MaxUnreadable

Init ==
    /\ revision = 0
    /\ fence = None /\ entries = << >> /\ bytes = 0 /\ flights = {}
    /\ reader \in [Readers -> {[Fresh(k) EXCEPT !.step = "idle"] : k \in Keys}]
    /\ \A r, s \in Readers : reader[r].key = reader[s].key
    /\ calls = 0 /\ unreadable = 0

----------------------------------------------------------------------------

Go(r, step) == reader' = [reader EXCEPT ![r].step = step]

\* The fence as read now: saved_fence gives None when it cannot read or
\* trust a row.
Reads(f) ==
    \/ f = revision /\ UNCHANGED unreadable
    \/ f = None /\ unreadable < MaxUnreadable /\ unreadable' = unreadable + 1

\* The bytes of entries, where one of a key is among them, and those of other keys.
Bytes(q) ==
    LET sum[n \in 0..Len(q)] == IF n = 0 THEN 0 ELSE sum[n - 1] + Size[q[n].key]
    IN  sum[Len(q)]
Entry(k, q) == {i \in 1..Len(q) : q[i].key = k}
Others(K, q) ==
    LET rest[n \in 0..Len(q)] ==
          IF n = 0 THEN << >>
          ELSE IF q[n].key \in K THEN rest[n - 1] ELSE Append(rest[n - 1], q[n])
    IN  rest[Len(q)]

\* _observe: another fence than the one last seen empties the cache and
\* invalidates every listed flight, whose waiters wake to try again.
Invalidates(f) == f # fence
Woken(rs, f) ==
    [r \in Readers |-> IF rs[r].step = "wait" /\ Invalidates(f)
                       THEN [rs[r] EXCEPT !.step = "fence", !.attempt = @ + 1] ELSE rs[r]]
FlightsAfter(f) ==
    IF Invalidates(f) THEN {[x EXCEPT !.invalidated = TRUE] : x \in flights} ELSE flights

\* Otherwise it drops the entries whose time is up: those of some keys.
EntriesAfter(f, expired) ==
    IF Invalidates(f) THEN << >> ELSE Others(expired, entries)

\* The while loop after a store: the oldest go until both limits hold.
EvictedFrom(q, i) == SubSeq(q, i, Len(q))
Fits(q) == Len(q) <= MaxEntries /\ Bytes(q) <= MaxBytes
Evicted(q) ==
    LET i == CHOOSE n \in 1..Len(q) + 1 :
                 Fits(EvictedFrom(q, n)) /\ \A m \in 1..n - 1 : ~Fits(EvictedFrom(q, m))
    IN EvictedFrom(q, i)

----------------------------------------------------------------------------

\* Another connection commits rows together with their new revision.
Commit ==
    /\ revision < MaxRevision
    /\ revision' = revision + 1
    /\ UNCHANGED <<cache, reader, calls, unreadable>>

Call(r) ==
    /\ reader[r].step \in {"idle", "done", "failed"} /\ calls < MaxCalls
    /\ \E k \in Keys : reader' = [reader EXCEPT ![r] = Fresh(k)]
    /\ calls' = calls + 1
    /\ UNCHANGED <<revision, cache, unreadable>>

\* The loop of wrapped: two tries, then uncached.
ReadFence(r) ==
    /\ reader[r].step = "fence"
    /\ IF reader[r].attempt > 2
       THEN Go(r, "before") /\ UNCHANGED <<cache, unreadable>>
       ELSE \E f \in Fences :
              /\ Reads(f)
              /\ IF f # None
                 THEN /\ reader' = [reader EXCEPT ![r].step = "get", ![r].fence = f]
                      /\ UNCHANGED cache
                 ELSE \* cache.invalidate()
                      /\ reader' = [Woken(reader, None) EXCEPT ![r].step = "before"]
                      /\ flights' = FlightsAfter(None)
                      /\ entries' = EntriesAfter(None, {})
                      /\ bytes' = Bytes(entries')
                      /\ fence' = None
    /\ UNCHANGED <<revision, calls>>

\* get up to the end of its first lock: a hit, a flight to wait for, no room,
\* or a flight of one's own.
FlightFor(r, fs) == {x \in fs : x.key = reader[r].key /\ x.fence = reader[r].fence}

Get(r) ==
    LET k == reader[r].key
        f == reader[r].fence
        seen == FlightsAfter(f)
        woken == Woken(reader, f)
    IN
    /\ reader[r].step = "get"
    /\ \E expired \in SUBSET Keys :
         LET kept == EntriesAfter(f, expired)
             hit == Entry(k, kept)
         IN
         /\ fence' = f
         /\ \/ /\ \E i \in hit :
                     /\ entries' = Append(Others({k}, kept), kept[i])
                     /\ reader' = [woken EXCEPT ![r].step = "post", ![r].page = kept[i].page]
               /\ flights' = seen
            \/ /\ hit = {} /\ FlightFor(r, seen) # {}
               /\ entries' = kept
               /\ flights' = seen
               /\ reader' = IF \E x \in FlightFor(r, seen) : x.invalidated
                            THEN [woken EXCEPT ![r].step = "fence", ![r].attempt = @ + 1]
                            ELSE [woken EXCEPT ![r].step = "wait"]
            \/ /\ hit = {} /\ FlightFor(r, seen) = {} /\ Cardinality(seen) >= MaxFlights
               /\ entries' = kept
               /\ flights' = seen
               /\ reader' = [woken EXCEPT ![r].step = "before"]
            \/ /\ hit = {} /\ FlightFor(r, seen) = {} /\ Cardinality(seen) < MaxFlights
               /\ entries' = kept
               /\ flights' = seen \cup {[key |-> k, fence |-> f, leader |-> r,
                                         invalidated |-> FALSE]}
               /\ reader' = [woken EXCEPT ![r].step = "build"]
         /\ bytes' = Bytes(entries')
    /\ UNCHANGED <<revision, calls, unreadable>>

\* The wait is bounded: three seconds, then uncached.
WaitEnds(r) ==
    /\ reader[r].step = "wait"
    /\ Go(r, "before")
    /\ UNCHANGED <<revision, cache, calls, unreadable>>

\* The original read, its first and its last statement, or its failure.
Build(r) ==
    /\ reader[r].step = "build"
    /\ \/ reader' = [reader EXCEPT ![r].step = "built", ![r].page.begin = revision]
       \/ reader' = [reader EXCEPT ![r].step = "land", ![r].outcome = "error"]
    /\ UNCHANGED <<revision, cache, calls, unreadable>>

Built(r) ==
    /\ reader[r].step = "built"
    /\ reader' = [reader EXCEPT ![r].step = "publish", ![r].page.end = revision]
    /\ UNCHANGED <<revision, cache, calls, unreadable>>

\* still_current() reads the fence once more before the lock is taken.
StillCurrent(r, f) == f = reader[r].fence
Check(r) ==
    /\ reader[r].step = "publish" /\ reader[r].outcome = "none"
    /\ \E f \in Fences :
         /\ Reads(f)
         /\ reader' = IF StillCurrent(r, f)
                      THEN [reader EXCEPT ![r].outcome =
                              IF Size[reader[r].key] <= MaxEntryBytes THEN "stored" ELSE "private"]
                      ELSE [reader EXCEPT ![r].step = "land", ![r].outcome = "stale"]
    /\ UNCHANGED <<revision, cache, calls>>

\* The store, unless the flight was invalidated or the cache has since seen
\* another fence.
MayPublish(r) == fence = reader[r].fence /\ \A x \in flights : x.leader = r => ~x.invalidated
Appended(r) == Append(Others({reader[r].key}, entries),
                      [key |-> reader[r].key, page |-> reader[r].page])
BytesAfter(r) ==
    bytes + Size[reader[r].key] - (Bytes(Appended(r)) - Bytes(Evicted(Appended(r))))
Publish(r) ==
    /\ reader[r].step = "publish" /\ reader[r].outcome # "none"
    /\ IF ~MayPublish(r)
       THEN /\ reader' = [reader EXCEPT ![r].step = "land", ![r].outcome = "stale"]
            /\ UNCHANGED <<entries, bytes>>
       ELSE IF reader[r].outcome = "stored" /\ Size[reader[r].key] <= MaxBytes
       THEN /\ entries' = Evicted(Appended(r))
            /\ bytes' = BytesAfter(r)
            /\ Go(r, "land")
       ELSE /\ reader' = [reader EXCEPT ![r].step = "land", ![r].outcome = "private"]
            /\ UNCHANGED <<entries, bytes>>
    /\ UNCHANGED <<revision, fence, flights, calls, unreadable>>

\* finally: the flight leaves the list and its waiters wake.
Lands(r, s) ==
    /\ reader[s].step = "wait"
    /\ \E x \in flights : x.leader = r /\ x.key = reader[s].key /\ x.fence = reader[s].fence
Landed(o, x) ==
    CASE o = "stored" -> [x EXCEPT !.step = "post"]
      [] o = "private" -> [x EXCEPT !.step = "before"]
      [] o = "stale" -> [x EXCEPT !.step = "fence", !.attempt = @ + 1]
      [] o = "error" -> [x EXCEPT !.step = "failed"]
Land(r) ==
    LET o == reader[r].outcome
        own == [Landed(IF o = "private" THEN "stored" ELSE o, reader[r]) EXCEPT !.outcome = "none"]
    IN
    /\ reader[r].step = "land"
    /\ flights' = {x \in flights : x.leader # r}
    /\ reader' = [s \in Readers |->
                    IF s = r THEN own
                    ELSE IF Lands(r, s)
                    THEN Landed(o, IF o = "stored" THEN [reader[s] EXCEPT !.page = reader[r].page]
                                   ELSE reader[s])
                    ELSE reader[s]]
    /\ UNCHANGED <<revision, fence, entries, bytes, calls, unreadable>>

\* wrapped answers only if the fence is the one it took the page under.
PostCheck(r, f) == f = reader[r].fence
Post(r) ==
    /\ reader[r].step = "post"
    /\ \E f \in Fences :
         /\ Reads(f)
         /\ reader' = IF PostCheck(r, f)
                      THEN [reader EXCEPT ![r].step = "done", ![r].current = TRUE]
                      ELSE [reader EXCEPT ![r].step = "fence", ![r].attempt = @ + 1]
    /\ UNCHANGED <<revision, cache, calls>>

\* uncached: the fence before, the read, the fence after.
PlainFence(r) ==
    /\ reader[r].step = "before"
    /\ \E f \in Fences : Reads(f) /\ reader' = [reader EXCEPT ![r].step = "plain", ![r].fence = f]
    /\ UNCHANGED <<revision, cache, calls>>

PlainRead(r) ==
    /\ \/ reader[r].step = "plain" /\ reader' = [reader EXCEPT ![r].step = "plainEnd",
                                                              ![r].page.begin = revision]
       \/ reader[r].step = "plainEnd" /\ reader' = [reader EXCEPT ![r].step = "after",
                                                                 ![r].page.end = revision]
    /\ UNCHANGED <<revision, cache, calls, unreadable>>

SaysCurrent_Readable(r, f) == reader[r].fence # None /\ f # None
SaysCurrent(r, f) == reader[r].fence # None /\ f = reader[r].fence
PlainAnswer(r) ==
    /\ reader[r].step = "after"
    /\ \E f \in Fences :
         /\ Reads(f)
         /\ reader' = IF SaysCurrent(r, f)
                      THEN [reader EXCEPT ![r].step = "done", ![r].current = TRUE]
                      ELSE [reader EXCEPT ![r] = [Fresh(reader[r].key) EXCEPT !.step = "done"]]
    /\ UNCHANGED <<revision, cache, calls>>

Step(r) == ReadFence(r) \/ Get(r) \/ Check(r) \/ Publish(r) \/ Land(r) \/ Post(r)
           \/ PlainFence(r) \/ PlainRead(r) \/ PlainAnswer(r)

Next ==
    \/ Commit
    \/ \E r \in Readers : Call(r) \/ WaitEnds(r) \/ Build(r) \/ Built(r) \/ Step(r)

Spec == Init /\ [][Next]_vars

----------------------------------------------------------------------------

\* An answer that does not call itself stale is the page of one revision,
\* which was the saved one at some time during the call.
AnswersCurrent ==
    \A r \in Readers :
        reader[r].step = "done" /\ reader[r].current =>
            /\ reader[r].page.begin = reader[r].page.end
            /\ reader[r].page.end \in reader[r].since..revision

\* The bytes counted are those of the entries, each key is kept once, and
\* both limits hold.
BytesExact ==
    /\ bytes = Bytes(entries)
    /\ \A i, j \in 1..Len(entries) : entries[i].key = entries[j].key => i = j
    /\ Len(entries) <= MaxEntries /\ bytes <= MaxBytes

\* What is kept was read whole, of the fence the cache stands at.
EntriesWhole ==
    \A i \in 1..Len(entries) : entries[i].page = [begin |-> fence, end |-> fence]

\* A listed flight has its builder at work on it, and nobody waits for a
\* flight that is not listed or already void.
FlightsLed ==
    /\ \A x \in flights : reader[x.leader].step \in {"build", "built", "publish", "land"}
    /\ Cardinality(flights) <= MaxFlights
    /\ \A r \in Readers : reader[r].step = "wait" =>
          \E x \in FlightFor(r, flights) : ~x.invalidated

\* The shared cache never passes off a page of other revisions, keeps within
\* its limits and leaves nobody waiting for a build that is not under way
\* (market_slice_cache.py, SliceCache and wrap_market_item_slice).
SliceInv == TypeOK /\ AnswersCurrent /\ BytesExact /\ EntriesWhole /\ FlightsLed
=============================================================================
