----------------------------- MODULE QuoteReads -----------------------------
(***************************************************************************)
(* How saved quotes reach a reader (quote_book.prices, Pipeline.value,     *)
(* Analysis.read, Features.record) while publications go on.               *)
(*                                                                         *)
(* A read is several transactions with caches in between: the ledger's own *)
(* cache of priced items, the pipeline's cache of valued holdings and the  *)
(* cache of analyses, each keyed by the ledger's revision.  Publishing     *)
(* commits first and clears the first cache afterwards.                    *)
(*                                                                         *)
(* The model follows one held item: which revision last changed its ask    *)
(* (and when that ask expires), and which last changed its sales windows.  *)
(* The caches' size limits, which only forget, are left out.               *)
(***************************************************************************)
EXTENDS Integers

CONSTANTS
    Readers,      \* threads of the HTTP server that ask for an analysis
    worker,       \* the refresh worker, which records closes
    Ttl,          \* 600: seconds an ask stays fresh
    PriceRest,    \* 30: longest life of a cached price
    ValueRest,    \* 15: longest life of a cached valuation
    Bucket,       \* 15: an analysis is cached for a slot of so many seconds
    MaxTime, MaxRevision, MaxReads   \* bounds: seconds, publications, reads

ASSUME ReadsAssumption ==
    /\ worker \notin Readers
    /\ Ttl \in Nat \ {0} /\ PriceRest \in Nat \ {0} /\ ValueRest \in Nat \ {0}
    /\ Bucket \in Nat \ {0}
    /\ MaxTime \in Nat /\ MaxRevision \in Nat /\ MaxReads \in Nat

VARIABLES
    now,
    revision, asks, expires, sales,   \* the ledger
    clears,          \* publications that have yet to clear the price cache
    bookCache,       \* Book.cache: revision |-> [until, price]
    valueCache,      \* Pipeline.value_cache: revision |-> [until, price]
    analysisCache,   \* Analysis.cache: <<revision, slot>> |-> analysis
    begun,           \* reads begun
    thread,          \* where each thread is, and what it has in hand
    close            \* the hour's cash_observed_close and lastRecordedAt

ledger == <<revision, asks, expires, sales>>
caches == <<bookCache, valueCache, analysisCache>>
reads == <<begun, thread>>
vars == <<now, ledger, clears, caches, reads, close>>

Threads == Readers \cup {worker}
Times == 0..MaxTime
Revisions == 0..MaxRevision

\* What Book.prices returns of the item; priced says it took the ask for a
\* fresh one.  No price yet: the empty ledger's.
Price == [revision : Revisions, asks : Revisions, expires : Nat, sales : Revisions,
          windows : Revisions, priced : BOOLEAN]
NoPrice == [revision |-> 0, asks |-> 0, expires |-> 0, sales |-> 0, windows |-> 0,
            priced |-> FALSE]
Cached == [until : Nat, price : Price]

\* An analysis joins a valuation with what build reads itself; whole is
\* FALSE when build found another revision and gave up.
AnalysisOf == [price : Price, offers : Revisions, references : Revisions, whole : BOOLEAN]
NoAnalysis == [price |-> NoPrice, offers |-> 0, references |-> 0, whole |-> FALSE]

Steps == {"idle", "prices", "windows", "priced", "valued", "build", "check"}
ThreadState == [step : Steps, attempt : 0..2,
                at : Times,            \* value's or record's clock reading
                clock : Times,         \* the reading of the call under way
                key : Revisions,       \* the revision value read
                price : Price, analysis : AnalysisOf]
Idle == [step |-> "idle", attempt |-> 0, at |-> 0, clock |-> 0, key |-> 0,
         price |-> NoPrice, analysis |-> NoAnalysis]

Partial(S, T) == UNION {[D -> T] : D \in SUBSET S}
With(f, x, v) == [y \in DOMAIN f \cup {x} |-> IF y = x THEN v ELSE f[y]]

TypeOK ==
    /\ now \in Times
    /\ revision \in Revisions /\ asks \in Revisions /\ sales \in Revisions /\ expires \in Nat
    /\ clears \in 0..MaxRevision
    /\ DOMAIN bookCache \subseteq Revisions /\ \A r \in DOMAIN bookCache : bookCache[r] \in Cached
    /\ DOMAIN valueCache \subseteq Revisions /\ \A r \in DOMAIN valueCache : valueCache[r] \in Cached
    /\ \A k \in DOMAIN analysisCache : analysisCache[k] \in AnalysisOf
    /\ begun \in 0..MaxReads
    /\ thread \in [Threads -> ThreadState]
    /\ close \in [at : Times, asks : Revisions, expires : Nat]

Init ==
    /\ now = 0
    /\ revision = 0 /\ asks = 0 /\ expires = 0 /\ sales = 0
    /\ clears = 0
    /\ bookCache = << >> /\ valueCache = << >> /\ analysisCache = << >>
    /\ begun = 0
    /\ thread = [i \in Threads |-> Idle]
    /\ close = [at |-> 0, asks |-> 0, expires |-> 0]

-----------------------------------------------------------------------------
(* Publications.                                                           *)

\* Book.publish commits new asks, and with them the next revision.
PublishAsks ==
    /\ revision < MaxRevision
    /\ revision' = revision + 1
    /\ asks' = asks + 1
    /\ expires' = now + Ttl
    /\ clears' = clears + 1
    /\ UNCHANGED <<now, sales, caches, reads, close>>


RevisedBySales(r) == r + 1

\* Features.publish_sales
PublishSales ==
    /\ revision < MaxRevision /\ sales < MaxRevision
    /\ revision' = RevisedBySales(revision)
    /\ sales' = sales + 1
    /\ clears' = clears + 1
    /\ UNCHANGED <<now, asks, expires, caches, reads, close>>

\* "with self.lock: self.cache.clear()", after either commit.
ClearCache ==
    /\ clears > 0
    /\ clears' = clears - 1
    /\ bookCache' = << >>
    /\ UNCHANGED <<now, ledger, valueCache, analysisCache, reads, close>>

-----------------------------------------------------------------------------
(* One thread's read.                                                      *)

At(i, step) == thread[i].step = step
Goes(i, changed) == thread' = [thread EXCEPT ![i] = changed] /\ UNCHANGED begun
Starts(i, changed) ==
    /\ begun < MaxReads
    /\ begun' = begun + 1
    /\ thread' = [thread EXCEPT ![i] = changed]

ValueHit == revision \in DOMAIN valueCache /\ now < valueCache[revision].until

\* Analysis.read calls Pipeline.value, which reads the clock and the revision
\* and finds a valuation of it, or calls Book.prices.
AskValue(attempt) ==
    LET asking == [Idle EXCEPT !.attempt = attempt, !.at = now]
    IN  IF ValueHit
        THEN [asking EXCEPT !.step = "valued", !.price = valueCache[revision].price]
        ELSE [asking EXCEPT !.step = "prices", !.key = revision]

\* A request for an analysis comes in.
BeginAnalysis(i) ==
    /\ i \in Readers /\ At(i, "idle")
    /\ Starts(i, AskValue(1))
    /\ UNCHANGED <<now, ledger, clears, caches, close>>

\* Features.record: the worker reads the clock, then what is held.
BeginRecord ==
    /\ At(worker, "idle")
    /\ Starts(worker, [Idle EXCEPT !.step = "prices", !.at = now])
    /\ UNCHANGED <<now, ledger, clears, caches, close>>

BookHit == revision \in DOMAIN bookCache /\ now < bookCache[revision].until

\* Book.prices, clock reading and first transaction: its revision's cached
\* price, or the quotes and the sales references as of that revision.
ReadQuotes(i) ==
    /\ At(i, "prices")
    /\ Goes(i, IF BookHit
               THEN [thread[i] EXCEPT !.step = "priced", !.price = bookCache[revision].price]
               ELSE [thread[i] EXCEPT !.step = "windows", !.clock = now,
                        !.price = [revision |-> revision, asks |-> asks, expires |-> expires,
                                   sales |-> sales, windows |-> 0,
                                   priced |-> now < expires]])
    /\ UNCHANGED <<now, ledger, clears, caches, close>>

Sooner(a, b) == IF a < b THEN a ELSE b

\* As if an answer were kept for its own span only.
KeptUntil_Span(price, clock, span) == clock + span

\* An answer is kept no longer than its span, nor past a price's expiry.
KeptUntil(price, clock, span) ==
    IF clock < price.expires THEN Sooner(price.expires, clock + span) ELSE clock + span

\* Book.prices, second transaction: the sales windows shown beside the price.
\* All of it is stored under the revision of the first.
ReadWindows(i) ==
    LET price == [thread[i].price EXCEPT !.windows = sales]
    IN  /\ At(i, "windows")
        /\ bookCache' = With(bookCache, price.revision,
              [until |-> KeptUntil(price, thread[i].clock, PriceRest), price |-> price])
        /\ Goes(i, [thread[i] EXCEPT !.step = "priced", !.price = price, !.clock = 0])
        /\ UNCHANGED <<now, ledger, clears, valueCache, analysisCache, close>>

\* Pipeline.value stores under the revision it asked for.
StoreValue(i) ==
    /\ i \in Readers /\ At(i, "priced")
    /\ valueCache' = With(valueCache, thread[i].key,
          [until |-> KeptUntil(thread[i].price, thread[i].at, ValueRest),
           price |-> thread[i].price])
    /\ Goes(i, [thread[i] EXCEPT !.step = "valued", !.key = 0])
    /\ UNCHANGED <<now, ledger, clears, bookCache, analysisCache, close>>

Slot(i, t) == <<thread[i].price.revision, t \div Bucket>>
FoundAnalysis(i) == At(i, "valued") /\ Slot(i, now) \in DOMAIN analysisCache

\* Analysis.read: its own reading of the clock names the slot; an analysis
\* found there is what the reader gets.
LookUpAnalysis(i) ==
    /\ At(i, "valued")
    /\ Goes(i, IF FoundAnalysis(i) THEN Idle
               ELSE [thread[i] EXCEPT !.step = "build", !.clock = now])
    /\ UNCHANGED <<now, ledger, clears, caches, close>>

\* Analysis.build: offers and sales references in one transaction, given up
\* when the ledger has moved on.
Build(i) ==
    /\ At(i, "build")
    /\ Goes(i, [thread[i] EXCEPT !.step = "check",
                   !.analysis = IF revision = thread[i].price.revision
                                THEN [price |-> thread[i].price, offers |-> asks,
                                      references |-> sales, whole |-> TRUE]
                                ELSE NoAnalysis])
    /\ UNCHANGED <<now, ledger, clears, caches, close>>

\* As if the analysis were kept without another look at the revision.
Unmoved_Unchecked(i) == TRUE

Unmoved(i) == revision = thread[i].price.revision

\* Analysis.read: kept and served if the ledger did not move; else once more,
\* and then "Prices changed during analysis".
CheckAnalysis(i) ==
    /\ At(i, "check")
    /\ \/ /\ Unmoved(i)
          /\ analysisCache' = With(analysisCache, Slot(i, thread[i].clock), thread[i].analysis)
          /\ Goes(i, Idle)
       \/ /\ ~Unmoved(i)
          /\ IF thread[i].attempt < 2 THEN Goes(i, AskValue(2)) ELSE Goes(i, Idle)
          /\ UNCHANGED analysisCache
    /\ UNCHANGED <<now, ledger, clears, bookCache, valueCache, close>>

\* As if record did not compare revisions in its own transaction.
MayRecord_AnyRevision(i) == thread[i].at >= close.at /\ thread[i].price.priced

MayRecord(i) ==
    /\ revision = thread[i].price.revision
    /\ thread[i].at >= close.at
    /\ thread[i].price.priced

\* Features.record, the writing transaction.
Record ==
    /\ At(worker, "priced")
    /\ close' = IF MayRecord(worker)
                THEN [at |-> thread[worker].at, asks |-> thread[worker].price.asks,
                      expires |-> thread[worker].price.expires]
                ELSE close
    /\ Goes(worker, Idle)
    /\ UNCHANGED <<now, ledger, clears, caches>>

Tick ==
    /\ now < MaxTime
    /\ now' = now + 1
    /\ UNCHANGED <<ledger, clears, caches, reads, close>>

Next ==
    \/ PublishAsks \/ PublishSales \/ ClearCache
    \/ \E i \in Threads :
          \/ BeginAnalysis(i) \/ ReadQuotes(i) \/ ReadWindows(i) \/ StoreValue(i)
          \/ LookUpAnalysis(i) \/ Build(i) \/ CheckAnalysis(i)
    \/ BeginRecord \/ Record \/ Tick

Spec == Init /\ [][Next]_vars

-----------------------------------------------------------------------------
\* The price is what the ledger holds now, in all its parts.
IsCurrent(price) ==
    price.asks = asks /\ price.sales = sales /\ price.windows = sales

\* quote_book.prices and Pipeline.value store what they read under a revision
\* read earlier, and the caches are cleared only after a commit.  Still, what
\* a cache offers for the revision the ledger is at is what the ledger holds.
CachesCurrent ==
    /\ revision \in DOMAIN bookCache => IsCurrent(bookCache[revision].price)
    /\ revision \in DOMAIN valueCache => IsCurrent(valueCache[revision].price)

\* Analysis.read joins three transactions: what it keeps, and with that
\* serves, was read from one revision of the ledger, the one it is kept under.
AnalysesWhole ==
    \A k \in DOMAIN analysisCache :
        LET a == analysisCache[k]
        IN  /\ a.whole /\ a.price.revision = k[1]
            /\ a.offers = a.price.asks /\ a.references = a.price.sales

\* The types, and that no cache offers a stale reading, or one joined of
\* several revisions, as current.
ReadsInv == TypeOK /\ CachesCurrent /\ AnalysesWhole

\* Pipeline.value: a price counted in a valuation had not expired when the
\* valuation was asked for, however many caches it came through.
ValuesFresh ==
    \A i \in Threads :
        At(i, "valued") /\ thread[i].price.priced => thread[i].at < thread[i].price.expires

\* Features.record: a close is the ledger's ask at the moment it is written,
\* and was fresh at the time it is dated.
ClosesTrue ==
    [][close' # close =>
          close'.asks = asks /\ close'.at < close'.expires /\ close'.at >= close.at]_vars

\* "Cash values use qualified, fresh listing quotes" (README.md): an analysis
\* that a read is given counts no price that had expired when it was asked for.
AnalysesFresh ==
    [][\A i \in Readers :
          FoundAnalysis(i) /\ thread'[i] = Idle =>
             LET price == analysisCache[Slot(i, now)].price
             IN  price.priced => thread[i].at < price.expires]_vars
=============================================================================
