------------------------- MODULE SteamProofs ---------------------------------
(***************************************************************************)
(* Requests to Steam.  First the governor: for every set of requests,      *)
(* every interval, lease and cache time, its record and entries stay       *)
(* consistent, permits are kept, starts are paced and no reservation is    *)
(* stolen.  Then the asks for held items that go through it.               *)
(*                                                                         *)
(* The governor's invariant is inductive: what makes it so is that a       *)
(* reservation that has not started remembers a reading that already lay   *)
(* behind every earlier start and wait, and that no later reading falls    *)
(* behind it.                                                              *)
(***************************************************************************)
EXTENDS MCSteam, Sequences, FiniteSetTheorems, WellFoundedInduction, TLAPS

\* The larger and the smaller of two integers.
LEMMA LargerSmaller ==
    ASSUME NEW a \in Int, NEW b \in Int
    PROVE  /\ Larger(a, b) \in {a, b} /\ Larger(a, b) >= a /\ Larger(a, b) >= b
           /\ Smaller(a, b) \in {a, b} /\ Smaller(a, b) <= a /\ Smaller(a, b) <= b
BY DEF Larger, Smaller

\* A number of seconds after a time is a time.
LEMMA LaterNat ==
    ASSUME NEW a \in Nat, NEW b \in Nat
    PROVE  a + b \in Nat
OBVIOUS

\* A reservation is distinguished from none by its token.
LEMMA HolderHasLease ==
    ASSUME TypeOK, NEW token, Holds(token)
    PROVE  /\ lease # NoLease /\ lease \in Leases /\ lease.token = token
           /\ lease.key \in Requests
BY DEF TypeOK, Holds, Leases, NoLease, NoToken, Tokens

\* Init: no record, no reservation, nothing asked.
LEMMA InitGovernorInv == Init => GovernorInv
<1>. SUFFICES ASSUME Init PROVE GovernorInv
  OBVIOUS
<1>. USE GovernorAssumption DEF GovernorAssumption, Init
<1>1. TypeOK
  <2>1. entry \in [Requests -> Entries]
    BY DEF Entries, NoToken
  <2>2. lastStart \in Nat \cup {-MinInterval} /\ interval \in MinInterval..MaxInterval
    OBVIOUS
  <2>3. /\ remaining \in 0..MaxPermits /\ permits \in 0..MaxPermits /\ issued \in 0..MaxTokens
        /\ held \subseteq Tokens /\ attempts \in Nat /\ demanded \in Nat
        /\ nextAllowed \in Nat /\ lastClock \in Nat
    OBVIOUS
  <2>4. /\ present \in BOOLEAN /\ paused \in BOOLEAN /\ inspected \in BOOLEAN
        /\ reason \in Reasons /\ lease \in Leases \cup {NoLease}
    BY DEF Reasons
  <2>. QED
    BY <2>1, <2>2, <2>3, <2>4 DEF TypeOK
<1>2. EntriesMatchLease
  BY DEF EntriesMatchLease
<1>3. PermitsKept /\ DeadlineCovers
  BY DEF PermitsKept, DeadlineCovers
<1>. QED
  BY <1>1, <1>2, <1>3 DEF GovernorInv

\* RequestGovernor.reserve
LEMMA ReserveGovernorInv ==
    ASSUME GovernorInv, NEW t \in Readings, NEW k \in Requests, Reserve(k, t)
    PROVE  GovernorInv'
<1>. USE GovernorAssumption DEF GovernorAssumption, GovernorInv
<1>0. /\ t \in Nat /\ issued + 1 \in Tokens /\ issued + 1 # NoToken
      /\ interval \in Nat /\ nextAllowed \in Nat
  BY DEF Readings, Reserve, TypeOK, Tokens, NoToken
<1>1. lease' \in Leases /\ lease' # NoLease
  BY <1>0 DEF Reserve, Leases, NoLease, NoToken, Never
<1>2. entry' \in [Requests -> Entries]
  <2>. DEFINE n == Larger(entry[k].nextAllowed, t + interval)
  <2>1. n \in Nat
    BY <1>0 DEF TypeOK, Entries, Larger
  <2>2. entry' = [entry EXCEPT ![k].token = issued + 1, ![k].latest = t, ![k].nextAllowed = n]
    BY DEF Reserve, TypeOK, Entries
  <2>. HIDE DEF n
  <2>. QED
    BY <1>0, <2>1, <2>2 DEF TypeOK, Entries
<1>3. TypeOK'
  <2>1. paused' \in BOOLEAN /\ reason' \in Reasons /\ inspected' \in BOOLEAN
    BY DEF Reserve, TypeOK, Reasons
  <2>2. remaining' \in 0..MaxPermits /\ nextAllowed' \in Nat /\ lastClock' \in Nat
    BY <1>0 DEF Reserve, TypeOK, Larger
  <2>3. held' \subseteq Tokens /\ issued' \in 0..MaxTokens
    BY <1>0 DEF Reserve, TypeOK, Tokens
  <2>. QED
    BY <1>1, <1>2, <2>1, <2>2, <2>3 DEF Reserve, TypeOK, history
<1>4. EntriesMatchLease'
  BY <1>0, <1>1 DEF Reserve, Free, EntriesMatchLease, TypeOK, Entries, Never
<1>5. PermitsKept'
  <2>1. ~paused' => remaining' > 0 /\ reason' = "validation"
    <3>1. paused' <=> remaining = 1
      BY DEF Reserve
    <3>. QED
      BY <3>1 DEF Reserve, PermitsKept, TypeOK
  <2>2. attempts + remaining <= permits /\ remaining' = remaining - 1
    BY DEF Reserve, Free, PermitsKept, TypeOK
  <2>3. attempts' = attempts /\ permits' = permits /\ lease'.startedAt = Never
    BY DEF Reserve, history
  <2>. QED
    BY <1>1, <2>1, <2>2, <2>3 DEF PermitsKept, TypeOK
<1>6. DeadlineCovers'
  BY <1>0, <1>1 DEF Reserve, Due, DeadlineCovers, TypeOK, Larger, history
<1>. QED
  BY <1>3, <1>4, <1>5, <1>6

\* RequestGovernor.mark_started
LEMMA StartGovernorInv ==
    ASSUME GovernorInv, NEW t \in Readings, NEW token \in held, MarkStarted(token, t)
    PROVE  GovernorInv'
<1>. USE GovernorAssumption DEF GovernorAssumption, GovernorInv
<1>0. /\ t \in Nat /\ interval \in Nat /\ interval >= MinInterval /\ nextAllowed \in Nat
      /\ lease \in Leases /\ lease # NoLease /\ lease.key \in Requests
  BY HolderHasLease DEF MarkStarted, Readings, TypeOK
<1>1. lease' \in Leases /\ lease' # NoLease
  BY <1>0 DEF MarkStarted, Leases, NoLease, NoToken, Tokens
<1>2. entry' \in [Requests -> Entries]
  BY <1>0 DEF MarkStarted, TypeOK, Entries, Larger
<1>3. TypeOK'
  <2>1. nextAllowed' \in Nat /\ attempts' \in Nat /\ lastStart' \in Nat /\ lastClock' \in Nat
    BY <1>0 DEF MarkStarted, TypeOK, Larger
  <2>. QED
    BY <1>1, <1>2, <2>1 DEF MarkStarted, TypeOK
<1>4. EntriesMatchLease'
  BY <1>0, <1>1 DEF MarkStarted, MayStart, EntriesMatchLease, TypeOK, Entries, Leases, Never
<1>5. PermitsKept'
  BY <1>0, <1>1 DEF MarkStarted, MayStart, PermitsKept, TypeOK, Leases, Never
<1>6. DeadlineCovers'
  BY <1>0, <1>1 DEF MarkStarted, MayStart, EntriesMatchLease, DeadlineCovers, TypeOK,
                    Leases, Never, Larger
<1>. QED
  BY <1>3, <1>4, <1>5, <1>6

\* RequestGovernor.finish of a request that never went out.
LEMMA CancelGovernorInv ==
    ASSUME GovernorInv, NEW t \in Readings, NEW token \in held, Cancel(token, t)
    PROVE  GovernorInv'
<1>. USE GovernorAssumption DEF GovernorAssumption, GovernorInv
<1>0. t \in Nat /\ lease \in Leases /\ lease # NoLease /\ lease.key \in Requests
  BY HolderHasLease DEF Cancel, Readings, TypeOK
<1>1. entry' \in [Requests -> Entries]
  BY <1>0 DEF Cancel, TypeOK, Entries, Larger, NoToken
<1>2. TypeOK'
  BY <1>0, <1>1 DEF Cancel, Close, TypeOK
<1>3. EntriesMatchLease'
  BY <1>0 DEF Cancel, Close, EntriesMatchLease, TypeOK, Entries
<1>4. PermitsKept' /\ DeadlineCovers'
  BY <1>0 DEF Cancel, Close, PermitsKept, DeadlineCovers, TypeOK
<1>. QED
  BY <1>2, <1>3, <1>4

\* RequestGovernor.finish of a started request.
LEMMA FinishGovernorInv ==
    ASSUME GovernorInv, NEW t \in Readings, NEW token \in held,
           NEW outcome \in Outcomes, NEW retry \in Retries \cup {NoHeader},
           Finish(token, t, outcome, retry)
    PROVE  GovernorInv' /\ nextAllowed' >= nextAllowed
<1>. USE GovernorAssumption DEF GovernorAssumption, GovernorInv
<1>0. t \in Nat /\ lease \in Leases /\ lease # NoLease /\ lease.key \in Requests
  BY HolderHasLease DEF Finish, Readings, TypeOK
<1>1. Wait(outcome, retry, t) \in Nat
  BY <1>0 DEF Wait, NoHeader
<1>2. demanded' = Larger(demanded, Wait(outcome, retry, t))
  BY DEF Finish, Wait
<1>3. interval' \in MinInterval..MaxInterval
  BY DEF Finish, TypeOK, Smaller
<1>31. interval' \in Nat /\ t \in Nat
  BY <1>0, <1>3
<1>32. t + interval' \in Nat
  BY <1>31, LaterNat
<1>. DEFINE rested == IF outcome \in {"rate_limited", "transient"}
                      THEN Larger(nextAllowed, t + interval') ELSE nextAllowed
<1>4. /\ nextAllowed' = Larger(Larger(rested, entry[lease.key].nextAllowed),
                               Wait(outcome, retry, t))
      /\ entry[lease.key].nextAllowed \in Nat /\ nextAllowed \in Nat
  BY <1>0 DEF Finish, TypeOK, Entries
<1>5. rested \in Nat /\ rested >= nextAllowed
  <2>4. /\ Larger(nextAllowed, t + interval') \in Nat
        /\ Larger(nextAllowed, t + interval') >= nextAllowed
    BY <1>4, <1>32 DEF Larger
  <2>. QED
    BY <1>4, <2>4
<1>6. /\ nextAllowed' \in Nat /\ nextAllowed' >= nextAllowed
      /\ nextAllowed' >= Wait(outcome, retry, t)
  <2>. HIDE DEF rested
  <2>. QED
    BY <1>1, <1>4, <1>5 DEF Larger
<1>7. entry' \in [Requests -> Entries]
  <2>. DEFINE k == lease.key
              u == IF outcome = "success" THEN Larger(entry[k].cacheUntil, t + CacheTtl[k])
                   ELSE entry[k].cacheUntil
              n == Larger(entry[k].nextAllowed, nextAllowed')
  <2>1. u \in Nat /\ n \in Nat
    BY <1>0, <1>6 DEF TypeOK, Entries, Larger
  <2>2. entry' = [entry EXCEPT ![k].token = NoToken, ![k].latest = t,
                               ![k].cacheUntil = u, ![k].nextAllowed = n]
    BY <1>0 DEF Finish, TypeOK, Entries
  <2>. HIDE DEF u, n
  <2>. QED
    BY <1>0, <2>1, <2>2 DEF TypeOK, Entries, NoToken
<1>8. TypeOK'
  BY <1>0, <1>1, <1>2, <1>3, <1>6, <1>7 DEF Finish, Close, TypeOK, Larger
<1>9. EntriesMatchLease'
  BY <1>0 DEF Finish, Close, EntriesMatchLease, TypeOK, Entries
<1>10. PermitsKept'
  BY <1>0 DEF Finish, Close, PermitsKept, TypeOK
<1>11. DeadlineCovers'
  BY <1>0, <1>1, <1>2, <1>6 DEF Finish, Close, DeadlineCovers, TypeOK, Larger
<1>. QED
  BY <1>6, <1>8, <1>9, <1>10, <1>11

\* The operator's actions, and a crash.
LEMMA OperatorGovernorInv ==
    ASSUME GovernorInv,
           \/ \E t \in Readings : Pause(t)
           \/ \E t \in Readings, n \in 1..MaxPermits : StartValidation(t, n)
           \/ Inspect \/ Crash
    PROVE  GovernorInv'
<1>. USE GovernorAssumption DEF GovernorAssumption, GovernorInv
<1>1. ASSUME NEW t \in Readings, Pause(t) PROVE GovernorInv'
  <2>1. t \in Nat
    BY DEF Readings
  <2>2. interval' \in MinInterval..MaxInterval /\ nextAllowed' \in Nat
        /\ nextAllowed' >= nextAllowed
    BY <1>1, <2>1 DEF Pause, TypeOK, Larger
  <2>3. lastClock' \in Nat /\ lastClock' >= lastClock
    BY <1>1, <2>1 DEF Pause, TypeOK, Larger
  <2>4. TypeOK'
    BY <1>1, <2>2, <2>3 DEF Pause, TypeOK, Reasons, history
  <2>5. EntriesMatchLease'
    BY <1>1, <2>3 DEF Pause, EntriesMatchLease, TypeOK, Entries, Leases, NoLease, Never
  <2>6. PermitsKept' /\ DeadlineCovers'
    BY <1>1, <2>2 DEF Pause, PermitsKept, DeadlineCovers, TypeOK, history
  <2>. QED
    BY <2>4, <2>5, <2>6
<1>2. ASSUME NEW t \in Readings, NEW n \in 1..MaxPermits, StartValidation(t, n)
      PROVE  GovernorInv'
  <2>1. interval' \in MinInterval..MaxInterval
    BY <1>2 DEF StartValidation, TypeOK, Larger
  <2>2. remaining' \in 0..MaxPermits /\ permits' \in 0..MaxPermits /\ attempts' \in Nat
    BY <1>2 DEF StartValidation
  <2>3. /\ t \in Nat /\ lastClock' = t /\ reason' = "validation"
        /\ paused' = FALSE /\ inspected' = FALSE
    BY <1>2 DEF StartValidation, Readings
  <2>4. TypeOK'
    BY <1>2, <2>1, <2>2, <2>3 DEF StartValidation, TypeOK, Reasons
  <2>5. EntriesMatchLease' /\ PermitsKept' /\ DeadlineCovers'
    BY <1>2 DEF StartValidation, MayGrant, EntriesMatchLease, PermitsKept, DeadlineCovers,
                TypeOK, Entries, Readings
  <2>. QED
    BY <2>4, <2>5
<1>3. CASE Inspect
  BY <1>3 DEF Inspect, control, history, TypeOK, EntriesMatchLease, PermitsKept, DeadlineCovers
<1>4. CASE Crash
  BY <1>4 DEF Crash, control, history, TypeOK, EntriesMatchLease, PermitsKept, DeadlineCovers
<1>. QED
  BY <1>1, <1>2, <1>3, <1>4

\* Every step keeps the invariant.
LEMMA NextGovernorInv == GovernorInv /\ [Next]_vars => GovernorInv'
<1>. SUFFICES ASSUME GovernorInv, [Next]_vars PROVE GovernorInv'
  OBVIOUS
<1>1. CASE UNCHANGED vars
  BY <1>1 DEF vars, control, history, GovernorInv, TypeOK, EntriesMatchLease, PermitsKept,
              DeadlineCovers
<1>2. CASE Next
  BY <1>2, ReserveGovernorInv, StartGovernorInv, CancelGovernorInv, FinishGovernorInv,
     OperatorGovernorInv DEF Next
<1>. QED
  BY <1>1, <1>2

\* steam_request_governor: the record is one _check_state accepts, it agrees
\* with the request entries, no more requests go out than were granted, and
\* the deadline covers every start and every wait asked for -- for every set
\* of requests, every interval and every clock reading.
THEOREM GovernorInvariant == Spec => []GovernorInv
BY InitGovernorInv, NextGovernorInv, PTL DEF Spec

\* Of all steps only mark_started counts a request as on the wire; a grant
\* starts the count again.
LEMMA OnlyStartsCount ==
    ASSUME Next, attempts' # attempts, attempts' # 0
    PROVE  \E t \in Readings, token \in held : MarkStarted(token, t)
<1>1. ~(Inspect \/ Crash)
  BY DEF Inspect, Crash, history
<1>2. PICK t \in Readings :
        \/ \E k \in Requests : Reserve(k, t)
        \/ \E token \in held :
              \/ MarkStarted(token, t) \/ Cancel(token, t)
              \/ \E outcome \in Outcomes, retry \in Retries \cup {NoHeader} :
                    Finish(token, t, outcome, retry)
        \/ Pause(t)
        \/ \E n \in 1..MaxPermits : StartValidation(t, n)
  BY <1>1 DEF Next
<1>3. ~ \E k \in Requests : Reserve(k, t)
  BY DEF Reserve, history
<1>4. ~ (Pause(t) \/ \E n \in 1..MaxPermits : StartValidation(t, n))
  BY DEF Pause, StartValidation, history
<1>5. PICK token \in held :
        \/ MarkStarted(token, t) \/ Cancel(token, t)
        \/ \E outcome \in Outcomes, retry \in Retries \cup {NoHeader} :
              Finish(token, t, outcome, retry)
  BY <1>2, <1>3, <1>4
<1>6. ~Close(t)
  BY DEF Close
<1>. QED
  BY <1>5, <1>6 DEF Cancel, Finish

\* mark_started: no two requests go out within the minimum interval, and none
\* before a time an answer asked to wait for.
THEOREM GovernorPaced == Spec => StartsPaced
<1>1. GovernorInv /\ [Next]_vars =>
        [attempts' > attempts => lastStart' >= lastStart + MinInterval
                                 /\ lastStart' >= demanded]_vars
  <2>. SUFFICES ASSUME GovernorInv, Next, attempts' > attempts
                PROVE  lastStart' >= lastStart + MinInterval /\ lastStart' >= demanded
    OBVIOUS
  <2>. USE GovernorAssumption DEF GovernorAssumption, GovernorInv
  <2>0. attempts \in Nat /\ attempts' # attempts /\ attempts' # 0
    BY DEF TypeOK
  <2>1. \E t \in Readings, token \in held : MarkStarted(token, t)
    BY <2>0, OnlyStartsCount
  <2>2. PICK t \in Readings, token \in held : MarkStarted(token, t)
    BY <2>1
  <2>3. lease # NoLease /\ lease \in Leases /\ t \in Nat
    BY <2>2, HolderHasLease DEF MarkStarted, Readings
  <2>4. t >= lease.reservedAt
    BY <2>2, <2>3 DEF MarkStarted, MayStart, EntriesMatchLease, Leases, TypeOK
  <2>. QED
    BY <2>2, <2>3, <2>4 DEF MarkStarted, MayStart, DeadlineCovers, Leases, TypeOK
<1>. QED
  BY <1>1, GovernorInvariant, PTL DEF Spec, StartsPaced

\* "no lease stealing": a reservation ends only by the hand of a caller that
\* still holds its token.
THEOREM GovernorNeverStolen == Spec => NeverStolen
<1>1. GovernorInv /\ [Next]_vars =>
        [lease # NoLease /\ lease'.token # lease.token
            => lease' = NoLease /\ lease.token \in held]_vars
  <2>. SUFFICES ASSUME GovernorInv, Next, lease # NoLease, lease'.token # lease.token
                PROVE  lease' = NoLease /\ lease.token \in held
    OBVIOUS
  <2>1. ASSUME NEW t \in Readings, NEW token \in held, MarkStarted(token, t)
        PROVE  FALSE
    BY <2>1, HolderHasLease DEF MarkStarted, GovernorInv, Leases
  <2>2. ~(Inspect \/ Crash)
    BY DEF Inspect, Crash
  <2>3. PICK t \in Readings :
          \/ \E k \in Requests : Reserve(k, t)
          \/ \E token \in held :
                \/ MarkStarted(token, t) \/ Cancel(token, t)
                \/ \E outcome \in Outcomes, retry \in Retries \cup {NoHeader} :
                      Finish(token, t, outcome, retry)
          \/ Pause(t)
          \/ \E n \in 1..MaxPermits : StartValidation(t, n)
    BY <2>2 DEF Next
  <2>4. ~ \E k \in Requests : Reserve(k, t)
    BY DEF Reserve, Free
  <2>5. ~ (Pause(t) \/ \E n \in 1..MaxPermits : StartValidation(t, n))
    BY DEF Pause, StartValidation
  <2>6. PICK token \in held :
          \/ Cancel(token, t)
          \/ \E outcome \in Outcomes, retry \in Retries \cup {NoHeader} :
                Finish(token, t, outcome, retry)
    BY <2>1, <2>3, <2>4, <2>5
  <2>. QED
    BY <2>6 DEF Cancel, Finish, Close, Holds
<1>. QED
  BY <1>1, GovernorInvariant, PTL DEF Spec, NeverStolen

-----------------------------------------------------------------------------
(***************************************************************************)
(* The asks for held items (HeldAsks), for any items, askers and job       *)
(* slots.                                                                  *)
(*                                                                         *)
(* AsksInv is inductive only together with whose token is whose: the       *)
(* worker's is the one of its leased item, a single caller's is nobody     *)
(* else's, and a leased item belongs to a job that works or was cancelled. *)
(* QuietKept rests on two facts more: what silence is demanded is in the   *)
(* gate or in the control record, or about to be put there by the restart, *)
(* and while somebody holds the slot no request is out whose outcome       *)
(* nobody has saved.                                                       *)
(***************************************************************************)
Top == Asks!Max({Backoff, Negative} \cup RetryAfter)
CacheTop == Asks!Max({Remember, Negative})
Worked == {"look", "service", "asking", "slot", "wire", "done"}
Away == {"off", "lost", "barred"}
Works == {"queued", "running", "paused"}

ControlRecords == [retry : Asks!Left, token : Asks!Tokens \cup {0}, orphan : BOOLEAN, until : 0 .. AskLease]
JobRecords == [state : Asks!JobStates, retry : Asks!Left]
Receipts == [name : Names, age : 0 .. Fresh + 1, saved : BOOLEAN]
Results == [kind : Asks!Kinds, receipt : 0 .. MaxReceipts, cached : BOOLEAN, retry : Asks!Left]
CallRecords == [pc : Asks!Pcs, name : Names \cup {None}, job : Jobs \cup {None},
                token : Asks!Tokens \cup {0}, result : Results]
ItemRecords == [state : Asks!ItemStates, token : Asks!Tokens \cup {0}, until : 0 .. AskLease]

AsksTyped ==
    /\ saved \in ControlRecords
    /\ jobs \in [Jobs -> JobRecords]
    /\ items \in [Jobs -> [Names -> ItemRecords]]
    /\ current \in [Names -> [receipt : 0 .. MaxReceipts, retry : Asks!Left, failed : BOOLEAN]]
    /\ receipts \in Seq(Receipts) /\ Len(receipts) <= MaxReceipts
    /\ call \in [Asks!Callers -> CallRecords]
    /\ cache \in [Names -> [until : 0 .. CacheTop, result : Results]]
    /\ gate \in Asks!Left /\ gate >= 0 /\ ready \in BOOLEAN
    /\ owed \subseteq Asks!Askers /\ quiet \in Asks!Left /\ quiet >= 0 /\ moves \in 0 .. MaxMoves

\* A result in hand is one, and its receipt is on file.
Proper(result) ==
    /\ result.kind \in Asks!Kinds \ {"none"}
    /\ result.kind = "good" => result.receipt \in DOMAIN receipts

\* A thread in a call knows what it asks for, under a token, and what came of it.
CallTrue(c) ==
    /\ c = History => call[c].pc \in {"off", "slot", "wire"}
    /\ c = Worker /\ call[c].pc \in Worked => call[c].job \in Jobs
    /\ c \in Asks!Askers =>
         /\ call[c].pc \in Worked => call[c].name \in Names /\ call[c].token # 0
         /\ call[c].pc \notin Worked => call[c].token = 0
         /\ call[c].pc = "done" => Proper(call[c].result)
CacheTrue == \A n \in Names : cache[n].until > 0 => Proper(cache[n].result)
CallsTrue == CacheTrue /\ \A c \in Asks!Callers : CallTrue(c)

\* No two askers and no two items have one token, nor a single caller and an item.
TokensApart ==
    /\ \A c, d \in Asks!Askers : call[c].token # 0 /\ call[c].token = call[d].token => c = d
    /\ \A j, k \in Jobs, n, m \in Names :
         items[j][n].token # 0 /\ items[j][n].token = items[k][m].token => j = k /\ n = m
    /\ \A s \in Singles, j \in Jobs, n \in Names : call[s].token # 0 => items[j][n].token # call[s].token

\* A leased item has a token, and its job works or was cancelled.
LeasesTrue ==
    /\ \A j \in Jobs, n \in Names :
         /\ items[j][n].state = "leased" <=> items[j][n].token # 0
         /\ items[j][n].state = "leased" => j \in Asks!Active \/ jobs[j].state = "cancelled"
    /\ \A j \in Asks!Active, n \in Names : items[j][n].state = "leased" => saved.token = items[j][n].token

JobsKept ==
    /\ \A j, k \in Asks!Active : j = k
    /\ \A j \in Jobs :
         /\ j \in Asks!Active => /\ Asks!ItemsIn(j, {"pending", "leased"}) # {}
                                 /\ Asks!ItemsIn(j, {"cancelled"}) = {}
         /\ jobs[j].state \in {"complete", "partial"} =>
              /\ Asks!ItemsIn(j, {"pending", "leased", "cancelled"}) = {}
              /\ jobs[j].state = "partial" <=> Asks!ItemsIn(j, {"unpriced", "failed"}) # {}

LatestIs ==
    \A n \in Names :
        /\ current[n].receipt # 0 =>
             /\ current[n].receipt \in DOMAIN receipts
             /\ receipts[current[n].receipt].name = n /\ receipts[current[n].receipt].saved
        /\ \A r \in DOMAIN receipts : receipts[r].name = n /\ receipts[r].saved => r <= current[n].receipt

AsksKept == AsksTyped /\ CallsTrue /\ TokensApart /\ LeasesTrue /\ JobsKept /\ LatestIs

\* A request is out, or its outcome lost, under the lease on record.
OwedTrue ==
    /\ \A c, d \in owed : c = d
    /\ owed # {} =>
         /\ ready /\ saved.token # 0 /\ ~saved.orphan
         /\ \A c \in Asks!Askers : call[c].token = saved.token => c \in owed
         /\ \A c \in owed : call[c].token # 0 => call[c].token = saved.token /\ call[c].pc \in {"wire", "done"}

SilenceHeld ==
    /\ ready => quiet <= gate \/ quiet <= saved.retry
    /\ ~ready => /\ \A c \in Asks!Callers : call[c].pc \in Away
                 /\ \/ quiet = 0 \/ quiet <= saved.retry
                    \/ quiet <= Backoff /\ saved.token # 0 /\ ~saved.orphan

SlotQuiet ==
    /\ \A c, d \in Asks!Callers : {call[c].pc, call[d].pc} \subseteq {"slot", "wire"} => c = d
    /\ \A c \in Asks!Callers : call[c].pc = "slot" => owed = {} /\ quiet <= gate

SilenceKept == AsksKept /\ OwedTrue /\ SilenceHeld /\ SlotQuiet

-----------------------------------------------------------------------------
(* Operators.                                                              *)

LEMMA LeastOf ==
    ASSUME NEW S \in SUBSET Nat, S # {}
    PROVE  Asks!Min(S) \in S /\ \A k \in S : Asks!Min(S) <= k
<1> DEFINE T == {0 .. m : m \in S}
<1>1. T \subseteq FiniteSubsetsOf(Nat) /\ T # {}
  <2>1. \A m \in S : IsFiniteSet(0 .. m) /\ 0 .. m \in SUBSET Nat
    BY FS_Interval
  <2> QED
    BY <2>1 DEF FiniteSubsetsOf
<1>2. PICK x \in T : \A y \in T : <<y, x>> \notin StrictSubsetOrdering(Nat)
  <2> HIDE DEF T
  <2> QED
    BY <1>1, FS_StrictSubsetOrderingWellFounded, WFMin
<1>3. PICK m \in S : x = 0 .. m
  OBVIOUS
<1>4. ASSUME NEW k \in S, k < m PROVE FALSE
  <2>1. m \in 0 .. m /\ m \notin 0 .. k
    BY <1>4
  <2>2. 0 .. k \subseteq 0 .. m /\ 0 .. k # 0 .. m /\ 0 .. k \in SUBSET Nat /\ 0 .. m \in SUBSET Nat
    BY <2>1, <1>4
  <2>3. <<0 .. k, 0 .. m>> \in StrictSubsetOrdering(Nat)
    BY <2>2 DEF StrictSubsetOrdering
  <2> QED
    BY <2>3, <1>2, <1>3
<1>5. \A k \in S : m <= k
  BY <1>4
<1> QED
  BY <1>5 DEF Asks!Min

LEMMA GreatestOf ==
    ASSUME NEW S \in SUBSET Nat, S # {}, IsFiniteSet(S)
    PROVE  Asks!Max(S) \in S /\ \A k \in S : k <= Asks!Max(S)
<1> DEFINE Above(m) == {j \in S : j >= m}
           T == {Above(m) : m \in S}
<1>1. T \subseteq FiniteSubsetsOf(S) /\ T # {}
  <2>1. \A m \in S : Above(m) \in SUBSET S /\ IsFiniteSet(Above(m))
    BY FS_Subset
  <2> QED
    BY <2>1 DEF FiniteSubsetsOf
<1>2. PICK x \in T : \A y \in T : <<y, x>> \notin StrictSubsetOrdering(S)
  <2> HIDE DEF T
  <2> QED
    BY <1>1, FS_StrictSubsetOrderingWellFounded, WFMin
<1>3. PICK m \in S : x = Above(m)
  OBVIOUS
<1>4. ASSUME NEW k \in S, k > m PROVE FALSE
  <2>1. m \in Above(m) /\ m \notin Above(k)
    BY <1>4
  <2>2. Above(k) \subseteq Above(m)
    <3>1. ASSUME NEW j \in S, j >= k PROVE j >= m
      <4>1. k \in Nat /\ m \in Nat /\ j \in Nat /\ k > m
        BY <1>4
      <4> QED
        BY <3>1, <4>1
    <3> QED
      BY <3>1
  <2>3. Above(k) # Above(m) /\ Above(k) \in SUBSET S /\ Above(m) \in SUBSET S
    BY <2>1
  <2>4. <<Above(k), Above(m)>> \in StrictSubsetOrdering(S)
    BY <2>2, <2>3 DEF StrictSubsetOrdering
  <2> QED
    BY <2>4, <1>2, <1>3
<1>5. \A k \in S : m >= k
  BY <1>4
<1> QED
  BY <1>5 DEF Asks!Max

LEMMA Larger2 ==
    ASSUME NEW a \in Int, NEW b \in Int
    PROVE  Asks!Max({a, b}) \in {a, b} /\ Asks!Max({a, b}) >= a /\ Asks!Max({a, b}) >= b
<1>1. \E x \in {a, b} : \A y \in {a, b} : x >= y
  <2>1. a >= b \/ b >= a
    OBVIOUS
  <2> QED
    BY <2>1
<1> QED
  BY <1>1 DEF Asks!Max

LEMMA Smaller2 ==
    ASSUME NEW a \in Int, NEW b \in Int
    PROVE  Asks!Min({a, b}) \in {a, b} /\ Asks!Min({a, b}) <= a /\ Asks!Min({a, b}) <= b
<1>1. \E x \in {a, b} : \A y \in {a, b} : x <= y
  <2>1. a <= b \/ b <= a
    OBVIOUS
  <2> QED
    BY <2>1
<1> QED
  BY <1>1 DEF Asks!Min

LEMMA AsksConstants ==
    /\ {AskLease, Backoff, Negative, Fresh, CacheFor, Remember} \subseteq Nat \ {0}
    /\ MaxReceipts \in Nat /\ MaxMoves \in Nat /\ RetryAfter \subseteq Nat \ {0}
    /\ Asks!Callers = Asks!Askers \cup {History} /\ History \notin Asks!Askers
    /\ Asks!Askers = Singles \cup {Worker} /\ Worker \notin Singles
    /\ None \notin Names /\ None \notin Jobs /\ Jobs \subseteq Nat
    /\ IsFiniteSet(Names) /\ IsFiniteSet(Jobs)
<1>1. /\ {AskLease, Backoff, Negative, Fresh, CacheFor, Remember} \subseteq Nat \ {0}
      /\ MaxReceipts \in Nat /\ MaxMoves \in Nat /\ RetryAfter \subseteq Nat \ {0}
  BY AsksAssumed DEF Asks!AsksAssumption
<1>2. /\ Asks!Callers = Asks!Askers \cup {History}
      /\ Asks!Askers = Singles \cup {Worker}
  BY DEF Asks!Callers, Asks!Askers
<1>3. /\ History \notin Asks!Askers /\ Worker \notin Singles
      /\ None \notin Names \cup Jobs /\ Jobs \subseteq Nat /\ IsFiniteSet(Names) /\ IsFiniteSet(Jobs)
  BY AsksAssumed DEF Asks!AsksAssumption, Asks!IsFiniteSet, IsFiniteSet
<1> QED
  BY <1>1, <1>2, <1>3

LEMMA TopIs ==
    /\ Top \in Nat /\ Asks!Left = -1 .. Top
    /\ {Backoff, Negative} \cup RetryAfter \subseteq 1 .. Top
    /\ CacheTop \in Nat /\ {Remember, Negative} \subseteq 0 .. CacheTop
<1>1. {Backoff, Negative} \cup RetryAfter \in SUBSET Nat
  BY AsksConstants
<1>2. IsFiniteSet({Backoff, Negative} \cup RetryAfter)
  <2>1. IsFiniteSet(RetryAfter)
    BY AsksAssumed DEF Asks!AsksAssumption, Asks!IsFiniteSet, IsFiniteSet
  <2>2. IsFiniteSet({Backoff, Negative})
    <3>1. {Backoff, Negative} = {Backoff} \cup {Negative}
      OBVIOUS
    <3>2. IsFiniteSet({Backoff}) /\ IsFiniteSet({Negative})
      BY FS_Singleton
    <3> QED
      BY <3>1, <3>2, FS_Union
  <2> QED
    BY <2>1, <2>2, FS_Union
<1>3. Top \in Nat /\ \A x \in {Backoff, Negative} \cup RetryAfter : x <= Top
  BY <1>1, <1>2, GreatestOf DEF Top
<1>4. CacheTop \in {Remember, Negative} /\ CacheTop >= Remember /\ CacheTop >= Negative
  BY AsksConstants, Larger2 DEF CacheTop
<1>5. Asks!Left = -1 .. Top
  BY DEF Asks!Left, Asks!Unset, Top
<1>6. {Backoff, Negative} \cup RetryAfter \subseteq 1 .. Top
  <2>1. {Backoff, Negative} \cup RetryAfter \subseteq Nat \ {0}
    BY AsksConstants
  <2> QED
    BY <1>3, <2>1
<1>7. CacheTop \in Nat /\ {Remember, Negative} \subseteq 0 .. CacheTop
  BY <1>4, AsksConstants
<1> QED
  BY <1>3, <1>5, <1>6, <1>7

LEMMA TokensAre == Asks!Tokens \subseteq Nat \ {0}
  BY AsksAssumed, FS_CardinalityType DEF Asks!Tokens, Asks!AsksAssumption

LEMMA TokenIsNew ==
    ASSUME Asks!Tokens \ Asks!InUse # {}
    PROVE  /\ Asks!NextToken \in Asks!Tokens /\ Asks!NextToken # saved.token
           /\ \A c \in Asks!Askers : Asks!NextToken # call[c].token
           /\ \A j \in Jobs, n \in Names : Asks!NextToken # items[j][n].token
<1>1. Asks!Tokens \ Asks!InUse \in SUBSET Nat
  BY TokensAre
<1>2. Asks!NextToken \in Asks!Tokens \ Asks!InUse
  BY <1>1, LeastOf DEF Asks!NextToken
<1> QED
  BY <1>2 DEF Asks!InUse

\* Time that passes.
LEMMA DownLeft ==
    ASSUME NEW x \in Asks!Left
    PROVE  /\ Asks!Down(x) \in Asks!Left /\ x \in Int
           /\ Asks!Down(x) = IF x > 0 THEN x - 1 ELSE x
  BY TopIs DEF Asks!Down

LEMMA DownNat ==
    ASSUME NEW b \in Nat, NEW x \in 0 .. b
    PROVE  Asks!Down(x) \in 0 .. b
  BY DEF Asks!Down

\* A deadline put in the control record.
LEMMA RaisedTo ==
    ASSUME saved.retry \in Asks!Left, NEW r \in Asks!Left
    PROVE  /\ Asks!Raised(r) \in Asks!Left /\ Asks!Raised(r) >= saved.retry /\ Asks!Raised(r) > 0
           /\ Asks!Raised(r) >= r
           /\ r = Backoff => Asks!Raised(r) >= Backoff
<1> DEFINE d == IF r <= 0 THEN Backoff ELSE r
<1>1. d \in Int /\ saved.retry \in Int /\ d > 0 /\ d \in Asks!Left /\ d >= r
  BY TopIs
<1>2. Asks!Raised(r) = Asks!Max({saved.retry, d})
  BY DEF Asks!Raised
<1> HIDE DEF d
<1>3. Asks!Raised(r) \in {saved.retry, d} /\ Asks!Raised(r) >= saved.retry /\ Asks!Raised(r) >= d
  BY <1>1, <1>2, Larger2
<1> QED
  BY <1>1, <1>3, TopIs

LEMMA ResultIs ==
    ASSUME NEW k \in Asks!Kinds, NEW r \in 0 .. MaxReceipts, NEW b \in BOOLEAN, NEW t \in Asks!Left
    PROVE  /\ Asks!Result(k, r, b, t) \in Results
           /\ Asks!Result(k, r, b, t).kind = k /\ Asks!Result(k, r, b, t).receipt = r
           /\ Asks!Result(k, r, b, t).retry = t
  BY DEF Asks!Result, Results

LEMMA UnsetLeft == Asks!Unset \in Asks!Left /\ Asks!Unset = -1 /\ 0 \in Asks!Left
  BY TopIs DEF Asks!Unset

LEMMA NoResultIs == Asks!NoResult \in Results /\ Asks!NoResult.kind = "none"
<1> DEFINE no == FALSE
<1>1. 0 \in 0 .. MaxReceipts /\ "none" \in Asks!Kinds /\ no \in BOOLEAN
  BY AsksConstants DEF Asks!Kinds
<1>2. Asks!NoResult = Asks!Result("none", 0, no, Asks!Unset)
  BY DEF Asks!NoResult
<1> HIDE DEF no
<1> QED
  BY <1>1, <1>2, UnsetLeft, ResultIs

LEMMA CallIs ==
    ASSUME NEW pc \in Asks!Pcs, NEW n \in Names \cup {None}, NEW j \in Jobs \cup {None},
           NEW t \in Asks!Tokens \cup {0}
    PROVE  /\ Asks!Call(pc, n, j, t) \in CallRecords
           /\ Asks!Call(pc, n, j, t).pc = pc /\ Asks!Call(pc, n, j, t).name = n
           /\ Asks!Call(pc, n, j, t).job = j /\ Asks!Call(pc, n, j, t).token = t
  BY NoResultIs DEF Asks!Call, CallRecords

LEMMA AtIs ==
    ASSUME NEW pc \in Asks!Pcs
    PROVE  Asks!At(pc) \in CallRecords /\ Asks!At(pc).pc = pc /\ Asks!At(pc).token = 0
  BY CallIs DEF Asks!At

\* The control record.
LeaseSet(c, t, o, u) == [c EXCEPT !.token = t, !.orphan = o, !.until = u]

LEMMA LeaseSetIs ==
    ASSUME NEW c \in ControlRecords, NEW t \in Asks!Tokens \cup {0}, NEW o \in BOOLEAN, NEW u \in 0 .. AskLease
    PROVE  /\ LeaseSet(c, t, o, u) \in ControlRecords
           /\ LeaseSet(c, t, o, u).token = t /\ LeaseSet(c, t, o, u).retry = c.retry
           /\ LeaseSet(c, t, o, u).orphan = o
  BY DEF ControlRecords, LeaseSet

LEMMA GrantedIs ==
    ASSUME saved \in ControlRecords, NEW t \in Asks!Tokens
    PROVE  /\ Asks!Granted(t) \in ControlRecords
           /\ Asks!Granted(t).token = t /\ Asks!Granted(t).retry = saved.retry
<1> DEFINE no == FALSE
<1>1. Asks!Granted(t) = LeaseSet(saved, t, no, AskLease)
  BY DEF Asks!Granted, LeaseSet
<1>2. no \in BOOLEAN /\ AskLease \in 0 .. AskLease /\ t \in Asks!Tokens \cup {0}
  BY AsksConstants
<1> HIDE DEF no
<1> QED
  BY <1>1, <1>2, LeaseSetIs

LEMMA DroppedIs ==
    ASSUME NEW c \in ControlRecords
    PROVE  /\ Asks!Dropped(c) \in ControlRecords
           /\ Asks!Dropped(c).token = 0 /\ Asks!Dropped(c).retry = c.retry
<1> DEFINE no == FALSE
<1>1. Asks!Dropped(c) = LeaseSet(c, 0, no, 0)
  BY DEF Asks!Dropped, LeaseSet
<1>2. no \in BOOLEAN /\ 0 \in 0 .. AskLease /\ 0 \in Asks!Tokens \cup {0}
  BY AsksConstants
<1> HIDE DEF no
<1> QED
  BY <1>1, <1>2, LeaseSetIs

LEMMA ReleasedIs ==
    ASSUME NEW c \in ControlRecords, NEW t
    PROVE  /\ Asks!Released(c, t) \in ControlRecords /\ Asks!Released(c, t).retry = c.retry
           /\ c.token = t /\ ~c.orphan => Asks!Released(c, t).token = 0
           /\ c.token # t \/ c.orphan => Asks!Released(c, t) = c
  BY DroppedIs DEF Asks!Released

LEMMA RetryIs ==
    ASSUME saved \in ControlRecords, NEW r \in Asks!Left
    PROVE  LET c == [saved EXCEPT !.retry = r] IN
           c \in ControlRecords /\ c.retry = r /\ c.token = saved.token /\ c.orphan = saved.orphan
  BY DEF ControlRecords

LEMMA FloorIs ==
    ASSUME saved \in ControlRecords, NEW b \in BOOLEAN
    PROVE  LET c == Asks!Floor(b) IN
           /\ c \in ControlRecords /\ c.retry >= saved.retry /\ c.token = saved.token
           /\ b /\ ~saved.orphan => c.retry >= Backoff
<1>1. saved.retry \in Asks!Left /\ Backoff \in Asks!Left
  BY TopIs DEF ControlRecords
<1>2. /\ Asks!Raised(Backoff) \in Asks!Left /\ Asks!Raised(Backoff) >= saved.retry
      /\ Asks!Raised(Backoff) >= Backoff
  BY <1>1, RaisedTo
<1>3. saved.retry \in Int
  BY <1>1, TopIs
<1> QED
  BY <1>2, <1>3, RetryIs DEF Asks!Floor

LEMMA ControlAfterIs ==
    ASSUME saved \in ControlRecords, NEW result \in Results
    PROVE  LET c == Asks!ControlAfter(result) IN
           /\ c \in ControlRecords /\ c.retry >= saved.retry
           /\ c.token = saved.token /\ c.orphan = saved.orphan
<1>1. saved.retry \in Asks!Left /\ result.retry \in Asks!Left
  BY DEF ControlRecords, Results
<1>2. saved.retry \in Int /\ Asks!Raised(result.retry) \in Asks!Left /\ Asks!Raised(result.retry) >= saved.retry
  BY <1>1, RaisedTo, TopIs
<1> QED
  BY <1>2, RetryIs DEF Asks!ControlAfter

-----------------------------------------------------------------------------
(* How a step moves the callers, the jobs and the items.                   *)

LEMMA GoesIs ==
    ASSUME call \in [Asks!Callers -> CallRecords], NEW c \in Asks!Callers, NEW pc \in Asks!Pcs, Asks!Goes(c, pc)
    PROVE  /\ call' \in [Asks!Callers -> CallRecords]
           /\ \A d \in Asks!Callers \ {c} : call'[d] = call[d]
           /\ call'[c].pc = pc /\ call'[c].token = 0
  BY AtIs DEF Asks!Goes

LEMMA GoesOnIs ==
    ASSUME call \in [Asks!Callers -> CallRecords], NEW c \in Asks!Callers, NEW pc \in Asks!Pcs, Asks!GoesOn(c, pc)
    PROVE  /\ call' \in [Asks!Callers -> CallRecords]
           /\ \A d \in Asks!Callers \ {c} : call'[d] = call[d]
           /\ call'[c].pc = pc /\ call'[c].token = call[c].token
           /\ call'[c].name = call[c].name /\ call'[c].job = call[c].job
  BY DEF Asks!GoesOn, CallRecords

LEMMA AnswersIs ==
    ASSUME call \in [Asks!Callers -> CallRecords], NEW c \in Asks!Callers, NEW result \in Results,
           Asks!Answers(c, result)
    PROVE  /\ call' \in [Asks!Callers -> CallRecords]
           /\ \A d \in Asks!Callers \ {c} : call'[d] = call[d]
           /\ call'[c].pc = "done" /\ call'[c].token = call[c].token /\ call'[c].result = result
           /\ call'[c].name = call[c].name /\ call'[c].job = call[c].job
  BY DEF Asks!Answers, CallRecords, Asks!Pcs

LEMMA KickedIs ==
    ASSUME call \in [Asks!Callers -> CallRecords], Asks!Kicked
    PROVE  /\ call' \in [Asks!Callers -> CallRecords]
           /\ \A d \in Asks!Callers \ {Worker} : call'[d] = call[d]
           /\ \/ call'[Worker] = call[Worker]
              \/ call[Worker].pc \in Away /\ call'[Worker].pc = "loop" /\ call'[Worker].token = 0
<1>1. "loop" \in Asks!Pcs /\ Worker \in Asks!Callers
  BY AsksConstants DEF Asks!Pcs
<1> QED
  BY <1>1, AtIs DEF Asks!Kicked, Away

\* One caller moves; no receipt is lost.
LEMMA OneMoves ==
    ASSUME CallsTrue, NEW c \in Asks!Callers, \A d \in Asks!Callers \ {c} : call'[d] = call[d],
           DOMAIN receipts \subseteq DOMAIN receipts', cache' = cache, CallTrue(c)'
    PROVE  CallsTrue'
<1>1. \A d \in Asks!Callers \ {c} : CallTrue(d)'
  BY DEF CallsTrue, CallTrue, Proper
<1>2. CacheTrue'
  BY DEF CallsTrue, CacheTrue, Proper
<1> QED
  BY <1>1, <1>2 DEF CallsTrue

LEMMA CallsStay ==
    ASSUME CallsTrue, DOMAIN receipts \subseteq DOMAIN receipts', UNCHANGED <<call, cache>>
    PROVE  CallsTrue'
  BY DEF CallsTrue, CallTrue, CacheTrue, Proper

\* Tokens are given up, not shared.
LEMMA TokensStay ==
    ASSUME TokensApart, \A c \in Asks!Askers : call'[c].token \in {call[c].token, 0},
           \A j \in Jobs, n \in Names : items'[j][n].token \in {items[j][n].token, 0}
    PROVE  TokensApart'
<1>1. \A c, d \in Asks!Askers : call'[c].token # 0 /\ call'[c].token = call'[d].token => c = d
  BY DEF TokensApart
<1>2. \A j, k \in Jobs, n, m \in Names :
        items'[j][n].token # 0 /\ items'[j][n].token = items'[k][m].token => j = k /\ n = m
  BY DEF TokensApart
<1>3. \A s \in Singles, j \in Jobs, n \in Names : call'[s].token # 0 => items'[j][n].token # call'[s].token
  BY AsksConstants DEF TokensApart
<1> QED
  BY <1>1, <1>2, <1>3 DEF TokensApart

\* Jobs that work go on working; items stay.
LEMMA JobsStay ==
    ASSUME JobsKept, LeasesTrue, items' = items, saved'.token = saved.token,
           \A j \in Jobs : jobs'[j].state = jobs[j].state \/ {jobs[j].state, jobs'[j].state} \subseteq Works
    PROVE  JobsKept' /\ LeasesTrue' /\ Asks!Active' = Asks!Active
<1>1. Asks!Active' = Asks!Active
  BY DEF Asks!Active, Works
<1>2. \A j \in Jobs : jobs'[j].state \in {"complete", "partial", "cancelled"} => jobs'[j].state = jobs[j].state
  BY DEF Works
<1>3. \A j \in Jobs : jobs[j].state = "cancelled" => jobs'[j].state = "cancelled"
  BY DEF Works
<1>4. LeasesTrue'
  BY <1>1, <1>3 DEF LeasesTrue
<1>5. JobsKept'
  BY <1>1, <1>2 DEF JobsKept, Asks!ItemsIn
<1> QED
  BY <1>1, <1>4, <1>5

LEMMA LatestStays == LatestIs /\ UNCHANGED <<current, receipts>> => LatestIs'
  BY DEF LatestIs

LEMMA PausedIs ==
    ASSUME NEW js \in [Jobs -> JobRecords], NEW j \in Jobs, NEW t \in Asks!Left
    PROVE  /\ Asks!Paused(js, j, t) \in [Jobs -> JobRecords]
           /\ \A k \in Jobs \ {j} : Asks!Paused(js, j, t)[k] = js[k]
           /\ js[j].state = "cancelled" => Asks!Paused(js, j, t) = js
           /\ js[j].state # "cancelled" => Asks!Paused(js, j, t)[j].state = "paused"
  BY DEF Asks!Paused, JobRecords, Asks!JobStates

LEMMA ProgressedIs ==
    ASSUME NEW js \in [Jobs -> JobRecords], NEW its, NEW j \in Jobs
    PROVE  LET after == Asks!Progressed(js, its, j)
               having(states) == {n \in Names : its[j][n].state \in states}
           IN /\ after \in [Jobs -> JobRecords]
              /\ \A k \in Jobs \ {j} : after[k] = js[k]
              /\ js[j].state = "cancelled" \/ having({"pending", "leased"}) # {} => after = js
              /\ js[j].state # "cancelled" /\ having({"pending", "leased"}) = {} =>
                   /\ after[j].state \in {"complete", "partial"}
                   /\ after[j].state = "partial" <=> having({"unpriced", "failed"}) # {}
<1>1. Asks!Unset \in Asks!Left
  BY UnsetLeft
<1> QED
  BY <1>1 DEF Asks!Progressed, JobRecords, Asks!JobStates

\* Nothing but the callers, jobs and control record, whose token stays.
LEMMA Moved ==
    ASSUME AsksKept, AsksTyped', CallsTrue', UNCHANGED <<items, current, receipts>>, saved'.token = saved.token,
           \A c \in Asks!Askers : call'[c].token \in {call[c].token, 0},
           \A j \in Jobs : jobs'[j].state = jobs[j].state \/ {jobs[j].state, jobs'[j].state} \subseteq Works
    PROVE  AsksKept'
  BY TokensStay, JobsStay, LatestStays DEF AsksKept

\* A job is counted again after its items changed; the other jobs stay.
LEMMA Counted ==
    ASSUME JobsKept, NEW j \in Jobs, NEW js \in [Jobs -> JobRecords], jobs' = Asks!Progressed(js, items', j),
           \A k \in Jobs \ {j} : jobs[k].state = js[k].state /\ items'[k] = items[k],
           js[j].state \in Works \cup {"cancelled"},
           js[j].state \in Works => /\ \A k \in Asks!Active : k = j
                                   /\ \A n \in Names : items'[j][n].state # "cancelled"
    PROVE  /\ jobs' \in [Jobs -> JobRecords] /\ JobsKept'
           /\ \A k \in Jobs \ {j} : jobs'[k].state = jobs[k].state
           /\ js[j].state = "cancelled" => jobs'[j].state = "cancelled"
           /\ jobs'[j].state \in Works => js[j].state \in Works
           /\ js[j].state \in Works => \A n \in Names : items'[j][n].state = "leased" => jobs'[j].state \in Works
<1> DEFINE having(states) == {n \in Names : items'[j][n].state \in states}
<1>1. /\ jobs' \in [Jobs -> JobRecords]
      /\ \A k \in Jobs \ {j} : jobs'[k].state = jobs[k].state
      /\ js[j].state = "cancelled" \/ having({"pending", "leased"}) # {} => jobs' = js
      /\ js[j].state # "cancelled" /\ having({"pending", "leased"}) = {} =>
                   /\ jobs'[j].state \in {"complete", "partial"}
                   /\ jobs'[j].state = "partial" <=> having({"unpriced", "failed"}) # {}
  BY ProgressedIs
<1>2. \A states : Asks!ItemsIn(j, states)' = having(states)
  BY DEF Asks!ItemsIn
<1>3. \A states : \A k \in Jobs \ {j} : Asks!ItemsIn(k, states)' = Asks!ItemsIn(k, states)
  BY DEF Asks!ItemsIn
<1>4. \A k \in Jobs : k \in Asks!Active' <=> jobs'[k].state \in Works
  BY DEF Asks!Active, Works
<1>5. \A k \in Jobs : k \in Asks!Active <=> jobs[k].state \in Works
  BY DEF Asks!Active, Works
<1>6. Asks!Active' \subseteq Jobs /\ Asks!Active \subseteq Jobs
  BY DEF Asks!Active
<1>7. jobs'[j].state \in Works => js[j].state \in Works /\ having({"pending", "leased"}) # {}
  BY <1>1 DEF Works
<1>8. \A k, m \in Asks!Active' : k = m
  BY <1>1, <1>4, <1>5, <1>6, <1>7 DEF JobsKept
<1>9. ASSUME NEW k \in Jobs \ {j}
      PROVE  /\ k \in Asks!Active' => /\ Asks!ItemsIn(k, {"pending", "leased"})' # {}
                                      /\ Asks!ItemsIn(k, {"cancelled"})' = {}
             /\ jobs'[k].state \in {"complete", "partial"} =>
                  /\ Asks!ItemsIn(k, {"pending", "leased", "cancelled"})' = {}
                  /\ jobs'[k].state = "partial" <=> Asks!ItemsIn(k, {"unpriced", "failed"})' # {}
  BY <1>1, <1>3, <1>4, <1>5 DEF JobsKept
<1>10. js[j].state \in Works => having({"cancelled"}) = {}
  OBVIOUS
<1>11. /\ j \in Asks!Active' => having({"pending", "leased"}) # {} /\ having({"cancelled"}) = {}
       /\ jobs'[j].state \in {"complete", "partial"} =>
                  /\ having({"pending", "leased", "cancelled"}) = {}
                  /\ jobs'[j].state = "partial" <=> having({"unpriced", "failed"}) # {}
  <2>1. jobs'[j].state \in {"complete", "partial"} => js[j].state \in Works /\ having({"pending", "leased"}) = {}
    BY <1>1 DEF Works
  <2>2. having({"pending", "leased"}) = {} /\ having({"cancelled"}) = {} => having({"pending", "leased", "cancelled"}) = {}
    OBVIOUS
  <2> HIDE DEF having
  <2> QED
    BY <1>1, <1>4, <1>7, <1>10, <2>1, <2>2 DEF Works
<1>12. JobsKept'
  <2> HIDE DEF having
  <2> QED
    BY <1>2, <1>8, <1>9, <1>11 DEF JobsKept
<1>13. js[j].state \in Works => \A n \in Names : items'[j][n].state = "leased" => jobs'[j].state \in Works
  BY <1>1
<1> QED
  BY <1>1, <1>7, <1>12, <1>13

-----------------------------------------------------------------------------
(* The tables stay whole, step by step: the worker's claims.               *)

LEMMA AsksInit == Asks!Init => AsksKept
<1> SUFFICES ASSUME Asks!Init PROVE AsksKept
  OBVIOUS
<1> USE DEF Asks!Init
<1> DEFINE no == FALSE
<1>1. no \in BOOLEAN
  OBVIOUS
<1>2. /\ saved = [retry |-> 0, token |-> 0, orphan |-> no, until |-> 0]
      /\ current = [n \in Names |-> [receipt |-> 0, retry |-> 0, failed |-> no]]
  OBVIOUS
<1>3. ready \in BOOLEAN /\ moves \in 0 .. MaxMoves
  <2>1. ready = FALSE
    OBVIOUS
  <2>2. moves \in 0 .. MaxMoves
    BY AsksConstants
  <2> QED
    BY <2>1, <2>2
<1>4. 0 \in Asks!Left /\ Asks!Unset \in Asks!Left /\ 0 \in 0 .. MaxReceipts /\ 0 \in 0 .. AskLease /\ 0 \in 0 .. CacheTop
  BY AsksConstants, UnsetLeft, TopIs
<1>5. saved \in ControlRecords /\ current \in [Names -> [receipt : 0 .. MaxReceipts, retry : Asks!Left, failed : BOOLEAN]]
  <2> HIDE DEF no
  <2> QED
    BY <1>1, <1>2, <1>4 DEF ControlRecords
<1>6. jobs \in [Jobs -> JobRecords] /\ items \in [Jobs -> [Names -> ItemRecords]]
  BY <1>4 DEF JobRecords, ItemRecords, Asks!JobStates, Asks!ItemStates, Asks!Unleased
<1>7. call \in [Asks!Callers -> CallRecords] /\ \A c \in Asks!Callers : call[c].pc = "off" /\ call[c].token = 0
  BY AtIs DEF Asks!Pcs
<1>8. cache \in [Names -> [until : 0 .. CacheTop, result : Results]]
  BY NoResultIs, <1>4
<1>9. AsksTyped
  BY <1>3, <1>4, <1>5, <1>6, <1>7, <1>8, AsksConstants DEF AsksTyped
<1>10. CallsTrue
  BY <1>7 DEF CallsTrue, CallTrue, CacheTrue, Worked
<1>11. TokensApart
  BY <1>7, AsksConstants DEF TokensApart, Asks!Unleased
<1>12. LeasesTrue /\ JobsKept
  BY DEF LeasesTrue, JobsKept, Asks!Active, Asks!Unleased
<1>13. LatestIs
  BY DEF LatestIs
<1> QED
  BY <1>9, <1>10, <1>11, <1>12, <1>13 DEF AsksKept

LEMMA DeadlineIs ==
    ASSUME AsksTyped, NEW j \in Jobs
    PROVE  Asks!Deadline(j) \in Asks!Left
<1>1. saved.retry \in Asks!Left /\ jobs[j].retry \in Asks!Left
  BY DEF AsksTyped, ControlRecords, JobRecords
<1>2. saved.retry \in Int /\ jobs[j].retry \in Int
  BY <1>1, TopIs
<1> QED
  BY <1>1, <1>2, Larger2 DEF Asks!Deadline

\* The worker stops, or rests, without a claim.
LEMMA ClaimStops ==
    ASSUME AsksKept,
           Asks!ClaimIdle \/ \E j \in Jobs : Asks!ClaimLeased(j) \/ Asks!ClaimPaused(j) \/ Asks!ClaimCooling(j)
                                             \/ Asks!ClaimBarred(j)
    PROVE  AsksKept'
<1>1. /\ UNCHANGED <<saved, items, current, receipts, cache, gate, ready, owed, quiet, moves>>
      /\ call[Worker].pc = "loop"
  BY DEF Asks!ClaimIdle, Asks!ClaimLeased, Asks!ClaimPaused, Asks!ClaimCooling, Asks!ClaimBarred, Asks!Going,
         Asks!Claims, Asks!process, Asks!history
<1>2. /\ AsksTyped /\ CallsTrue /\ Worker \in Asks!Callers /\ Worker # History
  BY AsksConstants DEF AsksKept
<1>3. /\ jobs' \in [Jobs -> JobRecords]
      /\ \A j \in Jobs : jobs'[j].state = jobs[j].state \/ {jobs[j].state, jobs'[j].state} \subseteq Works
  <2>1. jobs' = jobs \/ \E j \in Asks!Active, t \in Asks!Left : jobs' = Asks!Paused(jobs, j, t)
    BY <1>2, DeadlineIs, UnsetLeft DEF Asks!ClaimIdle, Asks!ClaimLeased, Asks!ClaimPaused, Asks!ClaimCooling,
       Asks!ClaimBarred, Asks!Going, Asks!Claims, Asks!Rested, Asks!Active
  <2>2. CASE jobs' = jobs
    BY <1>2, <2>2 DEF AsksTyped
  <2>3. ASSUME NEW j \in Asks!Active, NEW t \in Asks!Left, jobs' = Asks!Paused(jobs, j, t)
        PROVE  /\ jobs' \in [Jobs -> JobRecords]
               /\ \A k \in Jobs : jobs'[k].state = jobs[k].state \/ {jobs[k].state, jobs'[k].state} \subseteq Works
    <3>1. j \in Jobs /\ jobs[j].state \in Works /\ jobs \in [Jobs -> JobRecords]
      BY <1>2 DEF AsksTyped, Asks!Active, Works
    <3>2. /\ jobs' \in [Jobs -> JobRecords] /\ jobs'[j].state = "paused"
          /\ \A k \in Jobs \ {j} : jobs'[k] = jobs[k]
      BY <2>3, <3>1, PausedIs DEF Works
    <3> QED
      BY <3>1, <3>2 DEF Works
  <2> QED
    BY <2>1, <2>2, <2>3
<1>4. /\ call' \in [Asks!Callers -> CallRecords]
      /\ \A d \in Asks!Callers \ {Worker} : call'[d] = call[d]
      /\ \/ call'[Worker] = call[Worker]
         \/ call'[Worker].pc \in Away /\ call'[Worker].token = 0
  <2>1. call' = call \/ \E pc \in Away : Asks!Goes(Worker, pc)
    BY DEF Asks!ClaimIdle, Asks!ClaimLeased, Asks!ClaimPaused, Asks!ClaimCooling, Asks!ClaimBarred, Asks!Going, Away
  <2>2. Away \subseteq Asks!Pcs
    BY DEF Away, Asks!Pcs
  <2>3. call \in [Asks!Callers -> CallRecords]
    BY <1>2 DEF AsksTyped
  <2>4. ASSUME NEW pc \in Away, Asks!Goes(Worker, pc)
        PROVE  /\ call' \in [Asks!Callers -> CallRecords] /\ \A d \in Asks!Callers \ {Worker} : call'[d] = call[d]
               /\ call'[Worker].pc = pc /\ call'[Worker].token = 0
    BY <1>2, <2>2, <2>3, <2>4, GoesIs
  <2> QED
    BY <2>1, <2>3, <2>4
<1>5. CallTrue(Worker)'
  BY <1>1, <1>2, <1>4 DEF CallsTrue, CallTrue, Away, Worked, Proper
<1>6. CallsTrue'
  BY <1>1, <1>2, <1>4, <1>5, OneMoves
<1>7. AsksTyped'
  BY <1>1, <1>2, <1>3, <1>4 DEF AsksTyped
<1>8. \A c \in Asks!Askers : call'[c].token \in {call[c].token, 0}
  BY <1>2, <1>4, AsksConstants
<1> QED
  BY <1>1, <1>3, <1>6, <1>7, <1>8, Moved

\* An item of a job that works gets another state, or a lease.
LEMMA ClaimReusedStep ==
    ASSUME AsksKept, NEW j \in Jobs, NEW n \in Names, Asks!ClaimReused(j, n)
    PROVE  AsksKept'
<1> DEFINE reused == Asks!Unleased("reused")
<1>1. /\ UNCHANGED <<saved, call, current, receipts, cache, gate, ready, owed, quiet, moves>>
      /\ j \in Asks!Active /\ items[j][n].state = "pending" /\ Asks!ItemsIn(j, {"leased"}) = {}
      /\ items' = [items EXCEPT ![j][n] = reused]
      /\ jobs' = Asks!Progressed(jobs, items', j)
  BY DEF Asks!ClaimReused, Asks!Going, Asks!Claims, Asks!process, Asks!history, Asks!ItemsIn
<1>2. AsksTyped /\ CallsTrue /\ TokensApart /\ LeasesTrue /\ JobsKept /\ LatestIs
  BY DEF AsksKept
<1>3. reused \in ItemRecords /\ reused.state = "reused" /\ reused.token = 0
  BY AsksConstants DEF Asks!Unleased, ItemRecords, Asks!ItemStates
<1> HIDE DEF reused
<1>4. /\ items' \in [Jobs -> [Names -> ItemRecords]] /\ items'[j][n] = reused
      /\ \A k \in Jobs, m \in Names : <<k, m>> # <<j, n>> => items'[k][m] = items[k][m]
  BY <1>1, <1>2, <1>3 DEF AsksTyped
<1>6. TokensApart'
  BY <1>1, <1>2, <1>3, <1>4, TokensStay
<1>7. jobs[j].state \in Works /\ jobs \in [Jobs -> JobRecords]
  BY <1>1, <1>2 DEF AsksTyped, Asks!Active, Works
<1>8. /\ \A k \in Asks!Active : k = j
      /\ \A m \in Names : items'[j][m].state \notin {"cancelled", "leased"}
  BY <1>1, <1>2, <1>3, <1>4 DEF JobsKept, Asks!ItemsIn
<1>9. \A k \in Jobs \ {j} : items'[k] = items[k]
  BY <1>1, <1>2 DEF AsksTyped
<1>10. /\ JobsKept' /\ jobs' \in [Jobs -> JobRecords]
       /\ \A k \in Jobs \ {j} : jobs'[k].state = jobs[k].state
  BY <1>1, <1>2, <1>7, <1>8, <1>9, Counted
<1>11. LeasesTrue'
  <2>1. \A k \in Jobs, m \in Names : items'[k][m].state = "leased" <=> items'[k][m].token # 0
    BY <1>1, <1>2, <1>3, <1>4 DEF LeasesTrue
  <2>2. \A k \in Jobs, m \in Names : items'[k][m].state = "leased" =>
          k # j /\ items[k][m].state = "leased" /\ items'[k] = items[k]
    BY <1>8, <1>9
  <2>3. /\ \A k \in Jobs \ {j} : k \in Asks!Active' <=> k \in Asks!Active
        /\ Asks!Active' \subseteq Jobs
    BY <1>10 DEF Asks!Active
  <2>4. \A k \in Jobs \ {j}, m \in Names :
          items[k][m].state = "leased" => k \in Asks!Active \/ jobs[k].state = "cancelled"
    BY <1>2 DEF LeasesTrue
  <2>5. \A k \in Asks!Active', m \in Names : items'[k][m].state # "leased"
    BY <1>8, <2>2, <2>3
  <2> QED
    BY <1>10, <2>1, <2>2, <2>3, <2>4, <2>5 DEF LeasesTrue
<1>12. AsksTyped'
  BY <1>1, <1>2, <1>4, <1>10 DEF AsksTyped
<1>13. CallsTrue' /\ LatestIs'
  BY <1>1, <1>2, CallsStay, LatestStays
<1> QED
  BY <1>6, <1>10, <1>11, <1>12, <1>13 DEF AsksKept

LEMMA ClaimLeaseStep ==
    ASSUME AsksKept, NEW j \in Jobs, NEW n \in Names, Asks!ClaimLease(j, n)
    PROVE  AsksKept'
<1> DEFINE t == Asks!NextToken
           leased == [state |-> "leased", token |-> t, until |-> AskLease]
           running == [state |-> "running", retry |-> Asks!Unset]
           claim == Asks!Call("look", n, j, t)
<1>1. /\ UNCHANGED <<current, receipts, cache, gate, ready, owed, quiet, moves>>
      /\ j \in Asks!Active /\ items[j][n].state = "pending" /\ Asks!ItemsIn(j, {"leased"}) = {}
      /\ items' = [items EXCEPT ![j][n] = leased] /\ jobs' = [jobs EXCEPT ![j] = running]
      /\ saved' = Asks!Granted(t) /\ call' = [call EXCEPT ![Worker] = claim]
      /\ Asks!Tokens \ Asks!InUse # {} /\ saved.token = 0
  BY DEF Asks!ClaimLease, Asks!Going, Asks!Claims, Asks!process, Asks!history, Asks!ItemsIn
<1>2. /\ AsksTyped /\ CallsTrue /\ TokensApart /\ LeasesTrue /\ JobsKept /\ LatestIs
      /\ Worker \in Asks!Callers /\ Worker \notin Singles /\ Worker \in Asks!Askers /\ Worker # History
      /\ Asks!Askers = Singles \cup {Worker} /\ Asks!Askers \subseteq Asks!Callers
  BY AsksConstants DEF AsksKept
<1>3. /\ t \in Asks!Tokens /\ t # 0 /\ \A c \in Asks!Askers : t # call[c].token
      /\ \A k \in Jobs, m \in Names : t # items[k][m].token
  BY <1>1, TokenIsNew, TokensAre
<1>4. leased \in ItemRecords /\ leased.state = "leased" /\ leased.token = t
  BY <1>3, AsksConstants DEF ItemRecords, Asks!ItemStates
<1>5. running \in JobRecords /\ running.state = "running"
  BY UnsetLeft DEF JobRecords, Asks!JobStates
<1>6. claim \in CallRecords /\ claim.pc = "look" /\ claim.name = n /\ claim.job = j /\ claim.token = t
  BY <1>3, CallIs DEF Asks!Pcs
<1>7. saved' \in ControlRecords /\ saved'.token = t
  BY <1>1, <1>2, <1>3, GrantedIs DEF AsksTyped
<1> HIDE DEF t, leased, running, claim
<1>8. /\ items' \in [Jobs -> [Names -> ItemRecords]] /\ items'[j][n] = leased
      /\ \A k \in Jobs, m \in Names : <<k, m>> # <<j, n>> => items'[k][m] = items[k][m]
  BY <1>1, <1>2, <1>4 DEF AsksTyped
<1>9. /\ jobs' \in [Jobs -> JobRecords] /\ jobs'[j].state = "running" /\ jobs[j].state \in Works
      /\ \A k \in Jobs \ {j} : jobs'[k] = jobs[k]
  BY <1>1, <1>2, <1>5 DEF AsksTyped, Asks!Active, Works
<1>10. /\ call' \in [Asks!Callers -> CallRecords] /\ call'[Worker] = claim
       /\ \A c \in Asks!Callers \ {Worker} : call'[c] = call[c]
  BY <1>1, <1>2, <1>6 DEF AsksTyped
<1>11. AsksTyped'
  BY <1>1, <1>2, <1>7, <1>8, <1>9, <1>10 DEF AsksTyped
<1>12. CallsTrue'
  <2>1. CallTrue(Worker)'
    BY <1>2, <1>3, <1>6, <1>10 DEF CallTrue, Worked
  <2> QED
    BY <1>1, <1>2, <1>10, <2>1, OneMoves
<1>13. TokensApart'
  <2>1. \A c, d \in Asks!Askers : call'[c].token # 0 /\ call'[c].token = call'[d].token => c = d
    BY <1>2, <1>3, <1>6, <1>10 DEF TokensApart
  <2>2. \A k, l \in Jobs, m, o \in Names :
          items'[k][m].token # 0 /\ items'[k][m].token = items'[l][o].token => k = l /\ m = o
    BY <1>2, <1>3, <1>4, <1>8 DEF TokensApart
  <2>3. \A s \in Singles, k \in Jobs, m \in Names : call'[s].token # 0 => items'[k][m].token # call'[s].token
    BY <1>2, <1>3, <1>4, <1>8, <1>10 DEF TokensApart
  <2> QED
    BY <2>1, <2>2, <2>3 DEF TokensApart
<1>14. Asks!Active' = Asks!Active /\ \A k \in Asks!Active : k = j
  BY <1>1, <1>2, <1>9 DEF Asks!Active, Works, JobsKept
<1>15. LeasesTrue'
  <2>1. \A k \in Jobs, m \in Names : items'[k][m].state = "leased" <=> items'[k][m].token # 0
    BY <1>2, <1>3, <1>4, <1>8 DEF LeasesTrue
  <2>2. \A k \in Jobs, m \in Names : items'[k][m].state = "leased" =>
          k \in Asks!Active' \/ jobs'[k].state = "cancelled"
    BY <1>1, <1>2, <1>8, <1>9, <1>14 DEF LeasesTrue
  <2>3. \A m \in Names : items'[j][m].state = "leased" => m = n
    BY <1>1, <1>8 DEF Asks!ItemsIn
  <2> QED
    BY <1>4, <1>7, <1>8, <1>14, <2>1, <2>2, <2>3 DEF LeasesTrue
<1>16. JobsKept'
  <2>1. n \in Asks!ItemsIn(j, {"pending", "leased"})' /\ Asks!ItemsIn(j, {"cancelled"})' = {}
    BY <1>1, <1>2, <1>4, <1>8 DEF JobsKept, Asks!ItemsIn
  <2>2. \A k \in Jobs \ {j} : items'[k] = items[k]
    BY <1>1, <1>2 DEF AsksTyped
  <2> QED
    BY <1>2, <1>9, <1>14, <2>1, <2>2 DEF JobsKept, Asks!ItemsIn
<1> QED
  BY <1>1, <1>2, <1>11, <1>12, <1>13, <1>15, <1>16, LatestStays DEF AsksKept

-----------------------------------------------------------------------------
(* One request.                                                            *)

LEMMA SingleClaimStep ==
    ASSUME AsksKept, NEW s \in Singles, NEW n \in Names, Asks!SingleClaim(s, n)
    PROVE  AsksKept'
<1> DEFINE t == Asks!NextToken
           claim == Asks!Call("service", n, None, t)
<1>1. /\ UNCHANGED <<jobs, items, current, receipts, cache, gate, ready, owed, quiet, moves>>
      /\ saved' = Asks!Granted(t) /\ call' = [call EXCEPT ![s] = claim]
      /\ Asks!Tokens \ Asks!InUse # {} /\ saved.token = 0
  BY DEF Asks!SingleClaim, Asks!process, Asks!history
<1>2. /\ AsksTyped /\ CallsTrue /\ TokensApart /\ LeasesTrue /\ JobsKept /\ LatestIs
      /\ s \in Asks!Callers /\ s \in Asks!Askers /\ s # Worker /\ s # History
      /\ Asks!Askers = Singles \cup {Worker} /\ Asks!Askers \subseteq Asks!Callers
  BY AsksConstants DEF AsksKept
<1>3. /\ t \in Asks!Tokens /\ t # 0 /\ \A c \in Asks!Askers : t # call[c].token
      /\ \A k \in Jobs, m \in Names : t # items[k][m].token
  BY <1>1, TokenIsNew, TokensAre
<1>4. claim \in CallRecords /\ claim.pc = "service" /\ claim.name = n /\ claim.token = t
  BY <1>3, CallIs DEF Asks!Pcs
<1>5. saved' \in ControlRecords /\ saved'.token = t
  BY <1>1, <1>2, <1>3, GrantedIs DEF AsksTyped
<1> HIDE DEF t, claim
<1>6. /\ call' \in [Asks!Callers -> CallRecords] /\ call'[s] = claim
      /\ \A c \in Asks!Callers \ {s} : call'[c] = call[c]
  BY <1>1, <1>2, <1>4 DEF AsksTyped
<1>7. AsksTyped'
  BY <1>1, <1>2, <1>5, <1>6 DEF AsksTyped
<1>8. CallsTrue'
  <2>1. CallTrue(s)'
    BY <1>2, <1>3, <1>4, <1>6 DEF CallTrue, Worked
  <2> QED
    BY <1>1, <1>2, <1>6, <2>1, OneMoves
<1>9. TokensApart'
  BY <1>1, <1>2, <1>3, <1>4, <1>6 DEF TokensApart
<1>10. JobsKept'
  BY <1>1, <1>2 DEF JobsKept, Asks!Active, Asks!ItemsIn
<1>11. LeasesTrue'
  <2>1. \A j \in Asks!Active, m \in Names : items[j][m].state # "leased"
    BY <1>1, <1>2 DEF LeasesTrue, Asks!Active
  <2> QED
    BY <1>1, <1>2, <2>1 DEF LeasesTrue, Asks!Active
<1> QED
  BY <1>1, <1>2, <1>7, <1>8, <1>9, <1>10, <1>11, LatestStays DEF AsksKept

LEMMA MovesIs ==
    ASSUME moves \in 0 .. MaxMoves, Asks!Costs \/ UNCHANGED moves
    PROVE  moves' \in 0 .. MaxMoves
  BY AsksConstants DEF Asks!Costs

\* What the process has beside its threads stays in its bounds.
SurroundingsTyped ==
    /\ gate \in Asks!Left /\ gate >= 0 /\ ready \in BOOLEAN
    /\ owed \subseteq Asks!Askers /\ quiet \in Asks!Left /\ quiet >= 0 /\ moves \in 0 .. MaxMoves

\* An asker goes on in its call, or has a proper answer.
LEMMA AskerMoves ==
    ASSUME AsksKept, NEW c \in Asks!Askers, call[c].pc \in Worked,
           UNCHANGED <<jobs, items, current, receipts, cache>>,
           saved' \in ControlRecords, saved'.token = saved.token, SurroundingsTyped',
           \/ \E pc \in Worked \ {"done"} : Asks!GoesOn(c, pc)
           \/ \E result \in Results : Proper(result) /\ Asks!Answers(c, result)
    PROVE  AsksKept'
<1>1. AsksTyped /\ CallsTrue /\ c \in Asks!Callers /\ c # History /\ Worked \subseteq Asks!Pcs
      /\ Asks!Askers \subseteq Asks!Callers
  BY AsksConstants DEF AsksKept, Worked, Asks!Pcs
<1>2. call \in [Asks!Callers -> CallRecords]
  BY <1>1 DEF AsksTyped
<1> DEFINE Moves == /\ call' \in [Asks!Callers -> CallRecords]
                    /\ \A d \in Asks!Callers \ {c} : call'[d] = call[d]
                    /\ call'[c].pc \in Worked /\ call'[c].token = call[c].token
                    /\ call'[c].name = call[c].name /\ call'[c].job = call[c].job
                    /\ call'[c].pc = "done" => Proper(call'[c].result)
<1>3. Moves
  <2>1. ASSUME NEW pc \in Worked \ {"done"}, Asks!GoesOn(c, pc)
        PROVE  Moves
    BY <1>1, <1>2, <2>1, GoesOnIs
  <2>2. ASSUME NEW result \in Results, Proper(result), Asks!Answers(c, result)
        PROVE  Moves
    BY <1>1, <1>2, <2>2, AnswersIs DEF Worked
  <2> QED
    BY <2>1, <2>2
<1>4. CallTrue(c)'
  BY <1>1, <1>3 DEF CallsTrue, CallTrue, Proper
<1>5. CallsTrue'
  BY <1>1, <1>3, <1>4, OneMoves
<1>6. AsksTyped'
  BY <1>1, <1>3 DEF AsksTyped, SurroundingsTyped
<1>7. \A d \in Asks!Askers : call'[d].token \in {call[d].token, 0}
  BY <1>1, <1>3
<1> QED
  BY <1>5, <1>6, <1>7, Moved

\* Surroundings that no caller of this step touches.
LEMMA SurroundingsStay ==
    ASSUME AsksTyped, UNCHANGED <<gate, ready, owed, quiet>>, Asks!Costs \/ UNCHANGED moves
    PROVE  SurroundingsTyped'
  BY MovesIs DEF AsksTyped, SurroundingsTyped

LEMMA DeferralIs ==
    ASSUME NEW result \in Asks!Deferrals
    PROVE  result \in Results /\ Proper(result)
<1> DEFINE no == FALSE
<1>1. PICK t \in {Asks!Unset} \cup RetryAfter : result = Asks!Result("deferred", 0, no, t)
  BY DEF Asks!Deferrals
<1>2. t \in Asks!Left /\ no \in BOOLEAN /\ 0 \in 0 .. MaxReceipts /\ "deferred" \in Asks!Kinds
  BY UnsetLeft, TopIs, AsksConstants DEF Asks!Kinds
<1> HIDE DEF no
<1>3. result \in Results /\ result.kind = "deferred"
  BY <1>1, <1>2, ResultIs
<1> QED
  BY <1>3 DEF Proper, Asks!Kinds

LEMMA SavedIs ==
    ASSUME AsksKept, NEW n \in Names, NEW result \in Asks!Saved(n)
    PROVE  result \in Results /\ Proper(result)
<1> DEFINE yes == TRUE
<1>1. /\ yes \in BOOLEAN /\ Asks!Unset \in Asks!Left /\ 0 \in 0 .. MaxReceipts
      /\ {"good", "failed", "unavailable"} \subseteq Asks!Kinds
  BY UnsetLeft, AsksConstants DEF Asks!Kinds
<1>2. current[n].receipt \in 0 .. MaxReceipts
  BY DEF AsksKept, AsksTyped
<1>3. \/ Asks!FreshFor(n, CacheFor) /\ result = Asks!Result("good", current[n].receipt, yes, Asks!Unset)
      \/ result = Asks!Result("failed", 0, yes, Asks!Unset)
      \/ result = Asks!Result("unavailable", 0, yes, Asks!Unset)
  BY DEF Asks!Saved
<1> HIDE DEF yes
<1>4. CASE Asks!FreshFor(n, CacheFor) /\ result = Asks!Result("good", current[n].receipt, yes, Asks!Unset)
  <2>1. current[n].receipt \in DOMAIN receipts
    BY <1>2, <1>4 DEF AsksKept, LatestIs, Asks!FreshFor
  <2> QED
    BY <1>1, <1>2, <1>4, <2>1, ResultIs DEF Proper, Asks!Kinds
<1>5. CASE result = Asks!Result("failed", 0, yes, Asks!Unset)
  BY <1>1, <1>5, ResultIs DEF Proper, Asks!Kinds
<1>6. CASE result = Asks!Result("unavailable", 0, yes, Asks!Unset)
  BY <1>1, <1>6, ResultIs DEF Proper, Asks!Kinds
<1> QED
  BY <1>3, <1>4, <1>5, <1>6

LEMMA LookStep == AsksKept /\ Asks!Look => AsksKept'
<1> SUFFICES ASSUME AsksKept, Asks!Look PROVE AsksKept'
  OBVIOUS
<1>1. /\ UNCHANGED <<saved, jobs, items, current, receipts, cache, gate, ready, owed, quiet>>
      /\ call[Worker].pc = "look" /\ (Asks!Costs \/ UNCHANGED moves)
  BY DEF Asks!Look, Asks!Still, Asks!durable, Asks!process, Asks!history
<1>2. Worker \in Asks!Askers /\ call[Worker].pc \in Worked /\ call[Worker].name \in Names
  BY <1>1, AsksConstants DEF AsksKept, CallsTrue, CallTrue, Worked
<1>3. \/ \E pc \in Worked \ {"done"} : Asks!GoesOn(Worker, pc)
      \/ \E result \in Results : Proper(result) /\ Asks!Answers(Worker, result)
  BY <1>2, SavedIs, DeferralIs DEF Asks!Look, Worked
<1>4. AsksTyped /\ SurroundingsTyped' /\ saved' \in ControlRecords
  BY <1>1, SurroundingsStay DEF AsksKept, AsksTyped
<1> QED
  BY <1>1, <1>2, <1>3, <1>4, AskerMoves

\* A result of the gate or the lock: no receipt.
LEMMA RefusalIs ==
    ASSUME NEW kind \in {"limited", "busy", "unavailable", "failed"}, NEW t \in Asks!Left
    PROVE  Asks!Result(kind, 0, FALSE, t) \in Results /\ Proper(Asks!Result(kind, 0, FALSE, t))
<1> DEFINE no == FALSE
<1>1. no \in BOOLEAN /\ 0 \in 0 .. MaxReceipts /\ kind \in Asks!Kinds
  BY AsksConstants DEF Asks!Kinds
<1> HIDE DEF no
<1>2. Asks!Result(kind, 0, no, t) \in Results /\ Proper(Asks!Result(kind, 0, no, t))
  BY <1>1, ResultIs DEF Proper, Asks!Kinds
<1> QED
  BY <1>2 DEF no

LEMMA EnterStep == ASSUME AsksKept, NEW c \in Asks!Askers, Asks!Enter(c) PROVE AsksKept'
<1>1. /\ UNCHANGED <<saved, jobs, items, current, receipts, cache, gate, ready, owed, quiet, moves>>
      /\ call[c].pc = "service"
  BY DEF Asks!Enter, Asks!Still, Asks!durable, Asks!process, Asks!history
<1>2. /\ AsksTyped /\ CacheTrue /\ call[c].pc \in Worked /\ call[c].name \in Names
      /\ c \in Asks!Callers
  BY <1>1, AsksConstants DEF AsksKept, CallsTrue, CallTrue, Worked
<1> DEFINE kept == cache[call[c].name]
           yes == TRUE
           again == [kept.result EXCEPT !.cached = yes]
<1>3. kept.until > 0 => again \in Results /\ Proper(again)
  <2>1. kept.result \in Results /\ yes \in BOOLEAN
    BY <1>2 DEF AsksTyped
  <2>2. kept.until > 0 => Proper(kept.result)
    BY <1>2 DEF CacheTrue
  <2> HIDE DEF yes, kept
  <2> QED
    BY <2>1, <2>2 DEF Proper, Results
<1>4. \/ \E pc \in Worked \ {"done"} : Asks!GoesOn(c, pc)
      \/ \E result \in Results : Proper(result) /\ Asks!Answers(c, result)
  <2>1. gate \in Asks!Left
    BY <1>2 DEF AsksTyped
  <2>2. \/ Asks!Answers(c, Asks!Result("busy", 0, FALSE, Asks!Unset))
        \/ kept.until > 0 /\ Asks!Answers(c, again)
        \/ Asks!Answers(c, Asks!Result("limited", 0, FALSE, gate))
        \/ Asks!GoesOn(c, "asking")
    BY DEF Asks!Enter
  <2> HIDE DEF kept, again
  <2> QED
    BY <1>3, <2>1, <2>2, RefusalIs, UnsetLeft DEF Worked
<1>5. SurroundingsTyped' /\ saved' \in ControlRecords
  BY <1>1, <1>2, SurroundingsStay DEF AsksTyped
<1> QED
  BY <1>1, <1>2, <1>4, <1>5, AskerMoves

\* The gate is only ever raised.
LEMMA GateAfterIs ==
    ASSUME AsksTyped, NEW t \in Asks!Left
    PROVE  Asks!GateAfter(t) \in Asks!Left /\ Asks!GateAfter(t) >= gate /\ Asks!GateAfter(t) >= t
<1>1. gate \in Asks!Left /\ gate \in Int /\ t \in Int
  BY TopIs DEF AsksTyped
<1>2. Asks!Max({gate, t}) \in {gate, t} /\ Asks!Max({gate, t}) >= gate /\ Asks!Max({gate, t}) >= t
  BY <1>1, Larger2
<1> QED
  BY <1>1, <1>2 DEF Asks!GateAfter

LEMMA BlockedUntilIs == AsksTyped => Asks!BlockedUntil \in Asks!Left
  BY UnsetLeft DEF Asks!BlockedUntil, AsksTyped, ControlRecords

LEMMA AdmitStep == ASSUME AsksKept, NEW c \in Asks!Askers, Asks!Admit(c) PROVE AsksKept'
<1>1. /\ UNCHANGED <<saved, jobs, items, current, receipts, cache, ready, owed, quiet>>
      /\ call[c].pc = "asking" /\ (Asks!Costs \/ UNCHANGED moves)
      /\ gate' \in {gate, Asks!GateAfter(Asks!BlockedUntil)}
  BY DEF Asks!Admit, Asks!durable, Asks!history
<1>2. AsksTyped /\ call[c].pc \in Worked /\ Asks!BlockedUntil \in Asks!Left
  BY <1>1, BlockedUntilIs DEF AsksKept, Worked
<1>3. \/ \E pc \in Worked \ {"done"} : Asks!GoesOn(c, pc)
      \/ \E result \in Results : Proper(result) /\ Asks!Answers(c, result)
  BY <1>2, DeferralIs, RefusalIs DEF Asks!Admit, Worked
<1>4. gate' \in Asks!Left /\ gate' >= 0
  <2>1. gate \in Asks!Left /\ gate >= 0 /\ gate \in Int
    BY <1>2, TopIs DEF AsksTyped
  <2>2. /\ Asks!GateAfter(Asks!BlockedUntil) \in Asks!Left /\ Asks!GateAfter(Asks!BlockedUntil) >= gate
        /\ Asks!GateAfter(Asks!BlockedUntil) \in Int
    BY <1>2, GateAfterIs, TopIs
  <2> QED
    BY <1>1, <2>1, <2>2
<1>5. SurroundingsTyped' /\ saved' \in ControlRecords
  BY <1>1, <1>2, <1>4, MovesIs DEF AsksTyped, SurroundingsTyped
<1> QED
  BY <1>1, <1>2, <1>3, <1>5, AskerMoves

\* The history collector takes the slot, sends, or leaves.
LEMMA HistoryMoves ==
    ASSUME AsksKept, UNCHANGED <<jobs, items, current, receipts, cache>>,
           saved' \in ControlRecords, saved'.token = saved.token, SurroundingsTyped',
           \/ UNCHANGED call
           \/ \E pc \in {"slot", "wire"} : Asks!GoesOn(History, pc)
           \/ Asks!Goes(History, "off")
    PROVE  AsksKept'
<1>1. /\ AsksTyped /\ CallsTrue /\ History \in Asks!Callers /\ History \notin Asks!Askers /\ History # Worker
      /\ {"off", "slot", "wire"} \subseteq Asks!Pcs /\ Asks!Askers \subseteq Asks!Callers
  BY AsksConstants DEF AsksKept, Asks!Pcs
<1>2. call \in [Asks!Callers -> CallRecords]
  BY <1>1 DEF AsksTyped
<1> DEFINE Moves == /\ call' \in [Asks!Callers -> CallRecords]
                    /\ \A d \in Asks!Callers \ {History} : call'[d] = call[d]
                    /\ call'[History].pc \in {"off", "slot", "wire"}
<1>3. Moves
  <2>1. CASE UNCHANGED call
    BY <1>1, <1>2, <2>1 DEF CallsTrue, CallTrue
  <2>2. ASSUME NEW pc \in {"slot", "wire"}, Asks!GoesOn(History, pc) PROVE Moves
    BY <1>1, <1>2, <2>2, GoesOnIs
  <2>3. CASE Asks!Goes(History, "off")
    BY <1>1, <1>2, <2>3, GoesIs
  <2> QED
    BY <2>1, <2>2, <2>3
<1>4. CallTrue(History)'
  BY <1>1, <1>3 DEF CallTrue
<1>5. CallsTrue'
  BY <1>1, <1>3, <1>4, OneMoves
<1>6. AsksTyped'
  BY <1>1, <1>3 DEF AsksTyped, SurroundingsTyped
<1>7. \A d \in Asks!Askers : call'[d].token \in {call[d].token, 0}
  BY <1>1, <1>3
<1> QED
  BY <1>5, <1>6, <1>7, Moved

LEMMA HistoryOpensStep == AsksKept /\ Asks!HistoryOpens => AsksKept'
<1> SUFFICES ASSUME AsksKept, Asks!HistoryOpens PROVE AsksKept'
  OBVIOUS
<1>1. /\ UNCHANGED <<saved, jobs, items, current, receipts, cache, ready, owed, quiet, moves>>
      /\ gate' \in {gate, Asks!GateAfter(Asks!BlockedUntil)}
      /\ (UNCHANGED call \/ \E pc \in {"slot", "wire"} : Asks!GoesOn(History, pc))
  BY DEF Asks!HistoryOpens, Asks!durable, Asks!history
<1>2. AsksTyped /\ Asks!BlockedUntil \in Asks!Left
  BY BlockedUntilIs DEF AsksKept
<1>3. gate' \in Asks!Left /\ gate' >= 0
  <2>1. gate \in Asks!Left /\ gate >= 0 /\ gate \in Int
    BY <1>2, TopIs DEF AsksTyped
  <2>2. /\ Asks!GateAfter(Asks!BlockedUntil) \in Asks!Left /\ Asks!GateAfter(Asks!BlockedUntil) >= gate
        /\ Asks!GateAfter(Asks!BlockedUntil) \in Int
    BY <1>2, GateAfterIs, TopIs
  <2> QED
    BY <1>1, <2>1, <2>2
<1>4. SurroundingsTyped' /\ saved' \in ControlRecords
  BY <1>1, <1>2, <1>3, MovesIs DEF AsksTyped, SurroundingsTyped
<1> QED
  BY <1>1, <1>4, HistoryMoves

LEMMA SendStep == ASSUME AsksKept, NEW c \in Asks!Callers, Asks!Send(c) PROVE AsksKept'
<1>1. /\ UNCHANGED <<saved, jobs, items, current, receipts, cache, gate, ready, quiet, moves>>
      /\ call[c].pc = "slot" /\ owed' \subseteq owed \cup (Asks!Askers \cap {c})
  BY DEF Asks!Send, Asks!durable, Asks!process
<1>2. AsksTyped /\ gate \in Asks!Left
  BY DEF AsksKept, AsksTyped
<1>3. SurroundingsTyped' /\ saved' \in ControlRecords
  BY <1>1, <1>2 DEF AsksTyped, SurroundingsTyped
<1>4. CASE c \in Asks!Askers
  <2>1. \/ \E pc \in Worked \ {"done"} : Asks!GoesOn(c, pc)
        \/ \E result \in Results : Proper(result) /\ Asks!Answers(c, result)
    BY <1>2, <1>4, RefusalIs, AsksConstants DEF Asks!Send, Worked
  <2> QED
    BY <1>1, <1>3, <1>4, <2>1, AskerMoves DEF Worked
<1>5. CASE c = History
  <2>1. Asks!Goes(History, "off") \/ \E pc \in {"slot", "wire"} : Asks!GoesOn(History, pc)
    BY <1>5 DEF Asks!Send
  <2> QED
    BY <1>1, <1>3, <2>1, HistoryMoves
<1> QED
  BY <1>4, <1>5, AsksConstants

LEMMA HistoryAnsweredStep == AsksKept /\ Asks!HistoryAnswered => AsksKept'
<1> SUFFICES ASSUME AsksKept, Asks!HistoryAnswered PROVE AsksKept'
  OBVIOUS
<1>1. /\ UNCHANGED <<saved, jobs, items, current, receipts, cache, gate, ready, owed, quiet, moves>>
      /\ Asks!Goes(History, "off")
  BY DEF Asks!HistoryAnswered, Asks!Still, Asks!durable, Asks!process, Asks!history
<1>2. SurroundingsTyped' /\ saved' \in ControlRecords
  BY <1>1 DEF AsksKept, AsksTyped, SurroundingsTyped
<1> QED
  BY <1>1, <1>2, HistoryMoves

LEMMA LimitedStep == ASSUME AsksKept, NEW c \in Asks!Callers, Asks!Limited(c) PROVE AsksKept'
<1>1. AsksTyped
  BY DEF AsksKept
<1>2. PICK demand \in RetryAfter \cup {Backoff} :
        gate' = Asks!GateAfter(demand) /\ quiet' = Asks!Max({quiet, demand})
  BY DEF Asks!Limited
<1>3. demand \in Asks!Left /\ demand \in Int /\ gate \in Asks!Left /\ quiet \in Asks!Left /\ gate >= 0 /\ quiet >= 0
      /\ gate \in Int /\ quiet \in Int /\ saved \in ControlRecords /\ saved.retry \in Asks!Left
  BY <1>1, TopIs DEF AsksTyped, ControlRecords
<1>4. /\ UNCHANGED <<jobs, items, current, receipts, cache, ready, owed>>
      /\ call[c].pc = "wire" /\ Asks!Costs
      /\ saved' \in {[saved EXCEPT !.retry = Asks!Raised(gate')], saved}
  BY DEF Asks!Limited
<1>5. gate' \in Asks!Left /\ gate' >= 0
  <2>1. gate' \in Asks!Left /\ gate' >= gate
    BY <1>1, <1>2, <1>3, GateAfterIs
  <2>2. gate' \in Int
    BY <2>1, TopIs
  <2> QED
    BY <1>3, <2>1, <2>2
<1>6. quiet' \in Asks!Left /\ quiet' >= 0
  <2>1. quiet' \in {quiet, demand} /\ quiet' >= quiet
    BY <1>2, <1>3, Larger2
  <2> QED
    BY <1>3, <2>1
<1>7. SurroundingsTyped'
  BY <1>1, <1>4, <1>5, <1>6, MovesIs DEF AsksTyped, SurroundingsTyped
<1>8. saved' \in ControlRecords /\ saved'.token = saved.token
  BY <1>3, <1>4, <1>5, RaisedTo, RetryIs
<1>9. CASE c \in Asks!Askers
  <2>1. \E result \in Results : Proper(result) /\ Asks!Answers(c, result)
    BY <1>5, <1>9, RefusalIs, AsksConstants DEF Asks!Limited
  <2> QED
    BY <1>4, <1>7, <1>8, <1>9, <2>1, AskerMoves DEF Worked
<1>10. CASE c = History
  <2>1. Asks!Goes(History, "off")
    BY <1>10 DEF Asks!Limited
  <2> QED
    BY <1>4, <1>7, <1>8, <2>1, HistoryMoves
<1> QED
  BY <1>9, <1>10, AsksConstants

LEMMA AnsweredMoves ==
    ASSUME AsksKept, NEW c \in Asks!Askers, call[c].pc \in Worked,
           UNCHANGED <<saved, jobs, items, current, gate, ready, owed, quiet, moves>>,
           NEW result \in Results, NEW span \in 0 .. CacheTop, Proper(result)',
           Asks!Remembered(c, result, span), Asks!Answers(c, result),
           receipts' \in Seq(Receipts), Len(receipts') <= MaxReceipts,
           \A r \in DOMAIN receipts : r \in DOMAIN receipts' /\ receipts'[r] = receipts[r],
           \A r \in DOMAIN receipts' \ DOMAIN receipts : ~receipts'[r].saved
    PROVE  AsksKept'
<1>1. /\ AsksTyped /\ CallsTrue /\ TokensApart /\ LeasesTrue /\ JobsKept /\ LatestIs
      /\ c \in Asks!Callers /\ c # History /\ Asks!Askers \subseteq Asks!Callers
  BY AsksConstants DEF AsksKept
<1>2. call[c].name \in Names
  BY <1>1 DEF CallsTrue, CallTrue
<1>3. /\ call' \in [Asks!Callers -> CallRecords]
      /\ \A d \in Asks!Callers \ {c} : call'[d] = call[d]
      /\ call'[c].pc = "done" /\ call'[c].token = call[c].token /\ call'[c].result = result
      /\ call'[c].name = call[c].name /\ call'[c].job = call[c].job
  BY <1>1, AnswersIs DEF AsksTyped
<1> DEFINE kept == [until |-> span, result |-> result]
<1>4. kept \in [until : 0 .. CacheTop, result : Results] /\ kept.result = result
  OBVIOUS
<1>5. cache' = [cache EXCEPT ![call[c].name] = kept]
  BY DEF Asks!Remembered
<1> HIDE DEF kept
<1>6. /\ cache' \in [Names -> [until : 0 .. CacheTop, result : Results]]
      /\ cache'[call[c].name] = kept /\ \A n \in Names \ {call[c].name} : cache'[n] = cache[n]
  BY <1>1, <1>2, <1>4, <1>5 DEF AsksTyped
<1>7. DOMAIN receipts \subseteq DOMAIN receipts'
  OBVIOUS
<1>8. CacheTrue'
  <2> SUFFICES ASSUME NEW n \in Names PROVE (cache[n].until > 0 => Proper(cache[n].result))'
    BY DEF CacheTrue
  <2>1. CASE n = call[c].name
    <3>1. cache'[n].result = result
      BY <1>4, <1>6, <2>1
    <3> QED
      BY <3>1 DEF Proper
  <2>2. CASE n # call[c].name
    BY <1>1, <1>6, <1>7, <2>2 DEF CallsTrue, CacheTrue, Proper
  <2> QED
    BY <2>1, <2>2
<1>9. CallTrue(c)'
  BY <1>1, <1>3 DEF CallsTrue, CallTrue, Worked
<1>10. \A d \in Asks!Callers \ {c} : CallTrue(d)'
  BY <1>1, <1>3, <1>7 DEF CallsTrue, CallTrue, Proper
<1>11. CallsTrue'
  BY <1>8, <1>9, <1>10 DEF CallsTrue
<1>12. TokensApart' /\ LeasesTrue' /\ JobsKept'
  BY <1>1, <1>3, TokensStay, JobsStay
<1>13. LatestIs'
  BY <1>1 DEF LatestIs
<1>14. AsksTyped'
  BY <1>1, <1>3, <1>6 DEF AsksTyped
<1> QED
  BY <1>11, <1>12, <1>13, <1>14 DEF AsksKept

LEMMA AnswerGoodStep == ASSUME AsksKept, NEW c \in Asks!Askers, Asks!AnswerGood(c) PROVE AsksKept'
<1> DEFINE no == FALSE
           receipt == [name |-> call[c].name, age |-> 0, saved |-> no]
           result == Asks!Result("good", Len(receipts) + 1, no, Asks!Unset)
<1>1. /\ call[c].pc = "wire" /\ Len(receipts) < MaxReceipts /\ receipts' = Append(receipts, receipt)
      /\ UNCHANGED <<saved, jobs, items, current, gate, ready, owed, quiet, moves>>
  BY DEF Asks!AnswerGood, Asks!durable, Asks!history
<1>2. receipts \in Seq(Receipts) /\ call[c].pc \in Worked
  BY <1>1 DEF AsksKept, AsksTyped, Worked
<1>3. call[c].name \in Names
  BY <1>2, AsksConstants DEF AsksKept, CallsTrue, CallTrue
<1>4. receipt \in Receipts /\ ~receipt.saved
  BY <1>3, AsksConstants DEF Receipts
<1> HIDE DEF receipt
<1>5. /\ receipts' \in Seq(Receipts) /\ Len(receipts') = Len(receipts) + 1
      /\ \A r \in DOMAIN receipts : r \in DOMAIN receipts' /\ receipts'[r] = receipts[r]
      /\ DOMAIN receipts' \ DOMAIN receipts \subseteq {Len(receipts) + 1}
      /\ receipts'[Len(receipts) + 1] = receipt /\ Len(receipts) + 1 \in DOMAIN receipts'
  BY <1>1, <1>2, <1>4
<1>6. Asks!Remembered(c, result, Remember) /\ Asks!Answers(c, result)
  BY <1>5 DEF Asks!AnswerGood
<1>7. no \in BOOLEAN /\ Len(receipts) + 1 \in 0 .. MaxReceipts /\ "good" \in Asks!Kinds
  BY <1>1, <1>2, AsksConstants DEF Asks!Kinds
<1> HIDE DEF no
<1>8. PICK good \in Results : /\ good.kind = "good" /\ good.receipt = Len(receipts) + 1
                              /\ Asks!Remembered(c, good, Remember) /\ Asks!Answers(c, good)
  <2>1. result \in Results /\ result.kind = "good" /\ result.receipt = Len(receipts) + 1
    BY <1>7, UnsetLeft, ResultIs
  <2> HIDE DEF result
  <2> QED
    BY <1>6, <2>1
<1> HIDE DEF result
<1>9. Proper(good)'
  BY <1>5, <1>8 DEF Proper, Asks!Kinds
<1>10. /\ Remember \in 0 .. CacheTop /\ Len(receipts') <= MaxReceipts
       /\ \A r \in DOMAIN receipts' \ DOMAIN receipts : ~receipts'[r].saved
  BY <1>1, <1>2, <1>4, <1>5, TopIs, AsksConstants
<1> QED
  BY <1>1, <1>2, <1>5, <1>8, <1>9, <1>10, AnsweredMoves

LEMMA AnswerBadStep == ASSUME AsksKept, NEW c \in Asks!Askers, Asks!AnswerBad(c) PROVE AsksKept'
<1>1. /\ call[c].pc = "wire" /\ UNCHANGED <<saved, jobs, items, current, receipts, gate, ready, owed, quiet, moves>>
  BY DEF Asks!AnswerBad, Asks!durable, Asks!history
<1>2. PICK kind \in {"unavailable", "failed"} :
        LET result == Asks!Result(kind, 0, FALSE, Asks!Unset) IN
        Asks!Remembered(c, result, Negative) /\ Asks!Answers(c, result)
  BY DEF Asks!AnswerBad
<1> DEFINE result == Asks!Result(kind, 0, FALSE, Asks!Unset)
<1>3. Asks!Remembered(c, result, Negative) /\ Asks!Answers(c, result) /\ result \in Results /\ Proper(result)
  BY <1>2, RefusalIs, UnsetLeft
<1> HIDE DEF result
<1>4. Proper(result)'
  BY <1>1, <1>3 DEF Proper
<1>5. receipts \in Seq(Receipts) /\ Len(receipts) <= MaxReceipts /\ Negative \in 0 .. CacheTop
  BY TopIs DEF AsksKept, AsksTyped
<1> QED
  BY <1>1, <1>3, <1>4, <1>5, AnsweredMoves DEF Worked

-----------------------------------------------------------------------------
(* The outcome.                                                            *)

CurrentRecords == [receipt : 0 .. MaxReceipts, retry : Asks!Left, failed : BOOLEAN]
Kept(r, n, b) == [receipt |-> r, retry |-> n, failed |-> b]
LEMMA KeptIs ==
    ASSUME NEW r \in 0 .. MaxReceipts, NEW n \in Asks!Left, NEW b \in BOOLEAN
    PROVE  Kept(r, n, b) \in CurrentRecords /\ Kept(r, n, b).receipt = r
  BY DEF Kept, CurrentRecords

Marked(row, b) == [row EXCEPT !.saved = b]
LEMMA MarkedIs ==
    ASSUME NEW row \in Receipts, NEW b \in BOOLEAN
    PROVE  Marked(row, b) \in Receipts /\ Marked(row, b).name = row.name /\ Marked(row, b).saved = b
  BY DEF Marked, Receipts

LEMMA StoredIs ==
    ASSUME AsksTyped, LatestIs, NEW r \in DOMAIN receipts, Asks!Stored(r)
    PROVE  /\ current' \in [Names -> CurrentRecords]
           /\ receipts' \in Seq(Receipts) /\ Len(receipts') = Len(receipts) /\ DOMAIN receipts' = DOMAIN receipts
           /\ LatestIs'
<1> DEFINE no == FALSE
           yes == TRUE
           m == receipts[r].name
           row == Marked(receipts[r], yes)
           latest == Kept(r, 0, no)
<1>1. /\ receipts \in Seq(Receipts) /\ current \in [Names -> CurrentRecords] /\ r \in Nat
      /\ Len(receipts) <= MaxReceipts /\ r <= Len(receipts) /\ no \in BOOLEAN /\ yes \in BOOLEAN
  BY DEF AsksTyped, CurrentRecords
<1>2. receipts[r] \in Receipts /\ m \in Names /\ r \in 0 .. MaxReceipts /\ 0 \in Asks!Left
  <2>1. receipts[r] \in Receipts
    BY <1>1
  <2>3. receipts[r].name \in Names
    BY <2>1 DEF Receipts
  <2>2. r \in 0 .. MaxReceipts
    BY <1>1, AsksConstants
  <2> QED
    BY <2>1, <2>2, <2>3, UnsetLeft
<1>3. row \in Receipts /\ row.name = m /\ row.saved
  <2>1. yes
    OBVIOUS
  <2> HIDE DEF yes
  <2> QED
    BY <1>1, <1>2, <2>1, MarkedIs
<1>4. latest \in CurrentRecords /\ latest.receipt = r
  <2> HIDE DEF no
  <2> QED
    BY <1>1, <1>2, KeptIs
<1>5. receipts' = [receipts EXCEPT ![r] = row]
  BY DEF Asks!Stored, Marked
<1>6. current' = IF ~receipts[r].saved /\ r > current[m].receipt THEN [current EXCEPT ![m] = latest] ELSE current
  BY DEF Asks!Stored, Kept
<1> HIDE DEF row, latest, yes, no
<1>7. /\ receipts' \in Seq(Receipts) /\ Len(receipts') = Len(receipts) /\ DOMAIN receipts' = DOMAIN receipts
      /\ receipts'[r] = row /\ \A x \in DOMAIN receipts \ {r} : receipts'[x] = receipts[x]
  BY <1>1, <1>3, <1>5
<1>8. current' \in [Names -> CurrentRecords]
  BY <1>1, <1>2, <1>4, <1>6
<1>9. \A x \in DOMAIN receipts : /\ receipts'[x].name = receipts[x].name
                                 /\ receipts'[x].saved <=> receipts[x].saved \/ x = r
  BY <1>3, <1>7
<1>10. \A n \in Names : current[n].receipt \in Nat
  BY <1>1, AsksConstants DEF CurrentRecords
<1>11. \A x \in DOMAIN receipts : x \in Nat
  BY <1>1
<1>12. LatestIs'
  <2> SUFFICES ASSUME NEW n \in Names
               PROVE /\ current'[n].receipt # 0 =>
                          /\ current'[n].receipt \in DOMAIN receipts'
                          /\ receipts'[current'[n].receipt].name = n /\ receipts'[current'[n].receipt].saved
                     /\ \A x \in DOMAIN receipts' :
                          receipts'[x].name = n /\ receipts'[x].saved => x <= current'[n].receipt
    BY DEF LatestIs
  <2>1. /\ current[n].receipt # 0 =>
             /\ current[n].receipt \in DOMAIN receipts
             /\ receipts[current[n].receipt].name = n /\ receipts[current[n].receipt].saved
        /\ \A x \in DOMAIN receipts : receipts[x].name = n /\ receipts[x].saved => x <= current[n].receipt
    BY DEF LatestIs
  <2>2. CASE n = m /\ ~receipts[r].saved /\ r > current[m].receipt
    <3>1. current'[n] = latest
      BY <1>1, <1>2, <1>6, <2>2
    <3>2. \A x \in DOMAIN receipts' : receipts'[x].name = n /\ receipts'[x].saved => x <= r
      BY <1>1, <1>7, <1>9, <1>10, <1>11, <2>1, <2>2
    <3> QED
      BY <1>4, <1>7, <1>9, <2>2, <3>1, <3>2
  <2>3. CASE ~(n = m /\ ~receipts[r].saved /\ r > current[m].receipt)
    <3>1. current'[n] = current[n]
      BY <1>1, <1>2, <1>6, <2>3
    <3>2. receipts[r].name = n => r <= current[n].receipt
      BY <1>1, <1>10, <2>1, <2>3
    <3> QED
      BY <1>7, <1>9, <2>1, <3>1, <3>2
  <2> QED
    BY <2>2, <2>3
<1> QED
  BY <1>7, <1>8, <1>12

Failing(row, n, b) == [row EXCEPT !.retry = n, !.failed = b]
LEMMA FailingIs ==
    ASSUME NEW row \in CurrentRecords, NEW n \in Asks!Left, NEW b \in BOOLEAN
    PROVE  Failing(row, n, b) \in CurrentRecords /\ Failing(row, n, b).receipt = row.receipt
  BY DEF Failing, CurrentRecords

LEMMA OutcomeIs ==
    ASSUME AsksTyped, LatestIs, NEW n \in Names, NEW result \in Results, Proper(result), Asks!Outcome(n, result)
    PROVE  /\ current' \in [Names -> CurrentRecords]
           /\ receipts' \in Seq(Receipts) /\ Len(receipts') = Len(receipts) /\ DOMAIN receipts' = DOMAIN receipts
           /\ LatestIs'
<1>1. /\ receipts \in Seq(Receipts) /\ current \in [Names -> CurrentRecords]
  BY DEF AsksTyped, CurrentRecords
<1>2. CASE result.kind = "good"
  BY <1>2, StoredIs DEF Asks!Outcome, Proper
<1>3. CASE result.kind \in {"unavailable", "failed"}
  <2> DEFINE b == result.kind = "failed"
             row == Failing(current[n], Negative, b)
  <2>1. receipts' = receipts /\ current' = [current EXCEPT ![n] = row]
    BY <1>3 DEF Asks!Outcome, Asks!Missed, Failing
  <2>2. row \in CurrentRecords /\ row.receipt = current[n].receipt
    <3>1. b \in BOOLEAN /\ current[n] \in CurrentRecords /\ Negative \in Asks!Left
      BY <1>1, TopIs
    <3> HIDE DEF b
    <3> QED
      BY <3>1, FailingIs
  <2> HIDE DEF row
  <2>3. /\ current' \in [Names -> CurrentRecords]
        /\ \A m \in Names : current'[m].receipt = current[m].receipt
    BY <1>1, <2>1, <2>2
  <2> QED
    BY <1>1, <2>1, <2>3 DEF LatestIs
<1>4. CASE result.kind \notin {"good", "unavailable", "failed"}
  BY <1>1, <1>4, LatestStays DEF Asks!Outcome
<1> QED
  BY <1>2, <1>3, <1>4

\* An asker's call is over.
LEMMA CallEnds ==
    ASSUME AsksTyped, CallsTrue, NEW c \in Asks!Askers, NEW pc \in Away \cup {"loop"}, Asks!Goes(c, pc),
           cache' = cache, DOMAIN receipts' = DOMAIN receipts
    PROVE  /\ call' \in [Asks!Callers -> CallRecords] /\ CallsTrue'
           /\ \A d \in Asks!Askers : call'[d].token \in {call[d].token, 0}
           /\ call'[c].pc = pc /\ call'[c].token = 0 /\ \A d \in Asks!Callers \ {c} : call'[d] = call[d]
<1>1. /\ c \in Asks!Callers /\ c # History /\ Asks!Askers \subseteq Asks!Callers
      /\ pc \in Asks!Pcs /\ pc \notin Worked
  BY AsksConstants DEF Away, Asks!Pcs, Worked
<1>2. /\ call' \in [Asks!Callers -> CallRecords] /\ \A d \in Asks!Callers \ {c} : call'[d] = call[d]
      /\ call'[c].pc = pc /\ call'[c].token = 0
  BY <1>1, GoesIs DEF AsksTyped
<1>3. CallTrue(c)'
  BY <1>1, <1>2 DEF CallTrue, Worked
<1> QED
  BY <1>1, <1>2, <1>3, OneMoves

LEMMA FinishSingleStep == ASSUME AsksKept, NEW s \in Singles, Asks!FinishSingle(s) PROVE AsksKept'
<1>1. /\ UNCHANGED <<jobs, items, cache, gate, ready, quiet, moves>> /\ owed' = owed \ {s}
      /\ call[s].pc = "done" /\ Asks!Outcome(call[s].name, call[s].result) /\ Asks!Goes(s, "off")
      /\ saved' = Asks!Released(Asks!ControlAfter(call[s].result), call[s].token)
  BY DEF Asks!FinishSingle, Asks!process
<1>2. /\ AsksTyped /\ CallsTrue /\ TokensApart /\ LeasesTrue /\ JobsKept /\ LatestIs
      /\ s \in Asks!Askers /\ s \in Asks!Callers
  BY AsksConstants DEF AsksKept
<1>3. /\ call[s].name \in Names /\ call[s].token # 0 /\ Proper(call[s].result) /\ call[s].result \in Results
      /\ saved \in ControlRecords
  BY <1>1, <1>2 DEF CallsTrue, CallTrue, Worked, AsksTyped, CallRecords
<1>4. /\ current' \in [Names -> CurrentRecords]
      /\ receipts' \in Seq(Receipts) /\ Len(receipts') = Len(receipts) /\ DOMAIN receipts' = DOMAIN receipts
      /\ LatestIs'
  BY <1>1, <1>2, <1>3, OutcomeIs
<1>5. /\ call' \in [Asks!Callers -> CallRecords] /\ CallsTrue'
      /\ \A d \in Asks!Askers : call'[d].token \in {call[d].token, 0}
  BY <1>1, <1>2, <1>4, CallEnds DEF Away
<1>6. /\ saved' \in ControlRecords
      /\ saved.token # call[s].token => saved'.token = saved.token
  BY <1>1, <1>3, ControlAfterIs, ReleasedIs
<1>7. AsksTyped'
  BY <1>1, <1>2, <1>4, <1>5, <1>6 DEF AsksTyped, CurrentRecords
<1>8. TokensApart'
  BY <1>1, <1>2, <1>5, TokensStay
<1>9. JobsKept' /\ Asks!Active' = Asks!Active
  BY <1>1, <1>2 DEF JobsKept, Asks!Active, Asks!ItemsIn
<1>10. LeasesTrue'
  <2>1. \A j \in Asks!Active, n \in Names : items[j][n].state = "leased" => saved'.token = items[j][n].token
    BY <1>2, <1>3, <1>6 DEF LeasesTrue, TokensApart, Asks!Active
  <2> QED
    BY <1>1, <1>2, <1>9, <2>1 DEF LeasesTrue
<1> QED
  BY <1>4, <1>5, <1>7, <1>8, <1>9, <1>10 DEF AsksKept

\* What the outcome makes of the job before it is counted again.
LEMMA JobsAfterIs ==
    ASSUME AsksTyped, NEW j \in Jobs, NEW result \in Results
    PROVE  /\ Asks!JobsAfter(j, result) \in [Jobs -> JobRecords]
           /\ \A k \in Jobs \ {j} : Asks!JobsAfter(j, result)[k] = jobs[k]
           /\ jobs[j].state = "cancelled" => Asks!JobsAfter(j, result)[j].state = "cancelled"
           /\ jobs[j].state \in Works => Asks!JobsAfter(j, result)[j].state \in Works
<1>1. /\ jobs \in [Jobs -> JobRecords] /\ result.retry \in Asks!Left /\ saved.retry \in Asks!Left
      /\ Asks!Unset \in Asks!Left /\ Negative \in Asks!Left
  BY UnsetLeft, TopIs DEF AsksTyped, ControlRecords, Results
<1>2. Asks!Raised(result.retry) \in Asks!Left
  BY <1>1, RaisedTo
<1>3. Asks!JobsAfter(j, result) = jobs \/ \E t \in Asks!Left : Asks!JobsAfter(j, result) = Asks!Paused(jobs, j, t)
  BY <1>1, <1>2 DEF Asks!JobsAfter
<1>4. ASSUME NEW t \in Asks!Left, Asks!JobsAfter(j, result) = Asks!Paused(jobs, j, t)
      PROVE  /\ Asks!JobsAfter(j, result) \in [Jobs -> JobRecords]
             /\ \A k \in Jobs \ {j} : Asks!JobsAfter(j, result)[k] = jobs[k]
             /\ jobs[j].state = "cancelled" => Asks!JobsAfter(j, result)[j].state = "cancelled"
             /\ jobs[j].state \in Works => Asks!JobsAfter(j, result)[j].state \in Works
  BY <1>1, <1>4, PausedIs DEF Works
<1> QED
  BY <1>1, <1>3, <1>4

LEMMA ItemAfterIs ==
    ASSUME NEW kind \in Asks!Kinds \ {"none"}, NEW cached, NEW cancelled
    PROVE  /\ Asks!ItemAfter(kind, cached, cancelled)
                \in {"reused", "success", "cancelled", "pending", "unpriced", "failed"}
           /\ Asks!ItemAfter(kind, cached, cancelled) = "cancelled" => cancelled
  BY DEF Asks!ItemAfter, Asks!Kinds

LEMMA UnleasedIs ==
    ASSUME NEW state \in Asks!ItemStates
    PROVE  /\ Asks!Unleased(state) \in ItemRecords
           /\ Asks!Unleased(state).state = state /\ Asks!Unleased(state).token = 0
  BY AsksConstants DEF Asks!Unleased, ItemRecords

LEMMA FinishStep == AsksKept /\ Asks!Finish => AsksKept'
<1> SUFFICES ASSUME AsksKept, Asks!Finish PROVE AsksKept'
  OBVIOUS
<1> DEFINE own == call[Worker]
           j == own.job
           n == own.name
           t == own.token
           after == Asks!ItemAfter(own.result.kind, own.result.cached, jobs[j].state = "cancelled")
           given == Asks!Unleased(after)
           js == Asks!JobsAfter(j, own.result)
<1>1. /\ UNCHANGED <<cache, gate, ready, quiet, moves>> /\ owed' = owed \ {Worker}
      /\ own.pc = "done" /\ items[j][n].state = "leased" /\ items[j][n].token = t
      /\ Asks!Outcome(n, own.result) /\ Asks!Goes(Worker, "loop")
      /\ items' = [items EXCEPT ![j][n] = given]
      /\ jobs' = Asks!Progressed(js, items', j)
      /\ saved' = Asks!Released(Asks!ControlAfter(own.result), t)
  BY DEF Asks!Finish, Asks!OwnsItem, Asks!process
<1>2. /\ AsksTyped /\ CallsTrue /\ TokensApart /\ LeasesTrue /\ JobsKept /\ LatestIs
      /\ Worker \in Asks!Askers /\ Worker \in Asks!Callers
  BY AsksConstants DEF AsksKept
<1>3. /\ n \in Names /\ t # 0 /\ j \in Jobs /\ Proper(own.result) /\ own.result \in Results
      /\ saved \in ControlRecords /\ jobs \in [Jobs -> JobRecords] /\ items \in [Jobs -> [Names -> ItemRecords]]
  BY <1>1, <1>2 DEF CallsTrue, CallTrue, Worked, AsksTyped, CallRecords
<1>4. /\ current' \in [Names -> CurrentRecords]
      /\ receipts' \in Seq(Receipts) /\ Len(receipts') = Len(receipts) /\ DOMAIN receipts' = DOMAIN receipts
      /\ LatestIs'
  BY <1>1, <1>2, <1>3, OutcomeIs
<1>5. /\ call' \in [Asks!Callers -> CallRecords] /\ CallsTrue'
      /\ \A d \in Asks!Askers : call'[d].token \in {call[d].token, 0}
  BY <1>1, <1>2, <1>4, CallEnds
<1>6. /\ saved' \in ControlRecords
      /\ saved.token # t => saved'.token = saved.token
  BY <1>1, <1>3, ControlAfterIs, ReleasedIs
<1>7. /\ given \in ItemRecords /\ given.token = 0 /\ given.state # "leased"
      /\ given.state = "cancelled" => jobs[j].state = "cancelled"
  <2>1. own.result.kind \in Asks!Kinds \ {"none"}
    BY <1>3 DEF Proper
  <2>2. /\ after \in {"reused", "success", "cancelled", "pending", "unpriced", "failed"}
        /\ after = "cancelled" => jobs[j].state = "cancelled"
    BY <2>1, ItemAfterIs
  <2> HIDE DEF after
  <2>3. after \in Asks!ItemStates
    BY <2>2 DEF Asks!ItemStates
  <2> QED
    BY <2>2, <2>3, UnleasedIs
<1>8. /\ js \in [Jobs -> JobRecords] /\ \A k \in Jobs \ {j} : js[k] = jobs[k]
      /\ jobs[j].state = "cancelled" => js[j].state = "cancelled"
      /\ jobs[j].state \in Works => js[j].state \in Works
  BY <1>2, <1>3, JobsAfterIs
<1>9. jobs[j].state \in Works \cup {"cancelled"} /\ (j \in Asks!Active <=> jobs[j].state \in Works)
  BY <1>1, <1>2, <1>3 DEF LeasesTrue, Asks!Active, Works
<1> HIDE DEF own, j, n, t, given, js
<1>10. /\ items' \in [Jobs -> [Names -> ItemRecords]] /\ items'[j][n] = given
       /\ \A k \in Jobs, m \in Names : <<k, m>> # <<j, n>> => items'[k][m] = items[k][m]
       /\ \A k \in Jobs \ {j} : items'[k] = items[k]
  BY <1>1, <1>3, <1>7
<1>11. js[j].state \in Works \cup {"cancelled"} /\ (js[j].state \in Works => jobs[j].state \in Works)
  BY <1>8, <1>9 DEF Works
<1>12. js[j].state \in Works => /\ \A k \in Asks!Active : k = j
                                /\ \A m \in Names : items'[j][m].state # "cancelled"
  <2> SUFFICES ASSUME js[j].state \in Works
               PROVE  /\ \A k \in Asks!Active : k = j
                      /\ \A m \in Names : items'[j][m].state # "cancelled"
    OBVIOUS
  <2>1. j \in Asks!Active /\ jobs[j].state # "cancelled"
    BY <1>9, <1>11 DEF Works
  <2>2. \A m \in Names : items[j][m].state # "cancelled"
    BY <1>2, <1>3, <2>1 DEF JobsKept, Asks!ItemsIn
  <2>3. \A k \in Asks!Active : k = j
    BY <1>2, <2>1 DEF JobsKept
  <2> QED
    BY <1>3, <1>7, <1>10, <2>1, <2>2, <2>3
<1>13. /\ jobs' \in [Jobs -> JobRecords] /\ JobsKept'
       /\ \A k \in Jobs \ {j} : jobs'[k].state = jobs[k].state
       /\ js[j].state = "cancelled" => jobs'[j].state = "cancelled"
       /\ jobs'[j].state \in Works => js[j].state \in Works
  <2>1. \A k \in Jobs \ {j} : jobs[k].state = js[k].state /\ items'[k] = items[k]
    BY <1>8, <1>10
  <2>2. JobsKept /\ js \in [Jobs -> JobRecords] /\ j \in Jobs /\ jobs' = Asks!Progressed(js, items', j)
    BY <1>1, <1>2, <1>3, <1>8
  <2> QED
    BY ONLY <2>1, <2>2, <1>11, <1>12, Counted
<1>14. TokensApart'
  BY <1>2, <1>3, <1>5, <1>7, <1>10, TokensStay
<1>15. j \in Asks!Active => \A m \in Names : items'[j][m].state # "leased"
  <2> SUFFICES ASSUME j \in Asks!Active, NEW m \in Names, m # n, items[j][m].state = "leased" PROVE FALSE
    BY <1>7, <1>10, <1>3
  <2>1. items[j][m].token = saved.token /\ items[j][n].token = saved.token
    BY <1>1, <1>2, <1>3 DEF LeasesTrue
  <2> QED
    BY <1>1, <1>2, <1>3, <2>1 DEF TokensApart
<1>16. LeasesTrue'
  <2>1. \A k \in Jobs, m \in Names : items'[k][m].state = "leased" <=> items'[k][m].token # 0
    BY <1>2, <1>3, <1>7, <1>10 DEF LeasesTrue
  <2>2. \A k \in Jobs : k \in Asks!Active' <=> jobs'[k].state \in Works
    BY DEF Asks!Active, Works
  <2>3. \A k \in Jobs : k \in Asks!Active <=> jobs[k].state \in Works
    BY DEF Asks!Active, Works
  <2>4. Asks!Active' \subseteq Jobs
    BY DEF Asks!Active
  <2>5. \A k \in Jobs, m \in Names : items'[k][m].state = "leased" => items[k][m].state = "leased"
    BY <1>7, <1>10
  <2>6. \A k \in Jobs, m \in Names : items'[k][m].state = "leased" =>
          k \in Asks!Active' \/ jobs'[k].state = "cancelled"
    <3>1. ASSUME NEW k \in Jobs \ {j}, NEW m \in Names, items'[k][m].state = "leased"
          PROVE  k \in Asks!Active' \/ jobs'[k].state = "cancelled"
      BY <1>2, <1>13, <2>2, <2>3, <2>5, <3>1 DEF LeasesTrue
    <3>2. ASSUME NEW m \in Names, items'[j][m].state = "leased"
          PROVE  jobs'[j].state = "cancelled"
      BY <1>9, <1>8, <1>13, <1>15, <3>2
    <3> QED
      BY <3>1, <3>2
  <2>7. ASSUME NEW k \in Asks!Active', NEW m \in Names, items'[k][m].state = "leased"
        PROVE  saved'.token = items'[k][m].token
    <3>1. k \in Jobs /\ k # j
      BY <1>11, <1>13, <1>9, <1>15, <2>2, <2>4, <2>7
    <3>2. k \in Asks!Active /\ items'[k][m] = items[k][m]
      BY <1>10, <1>13, <2>2, <2>3, <3>1
    <3>3. saved.token = items[k][m].token
      BY <1>2, <2>7, <3>2 DEF LeasesTrue
    <3>4. items[k][m].token # items[j][n].token
      BY <1>1, <1>2, <1>3, <3>1 DEF TokensApart
    <3> QED
      BY <1>1, <1>6, <3>2, <3>3, <3>4
  <2> QED
    BY <2>1, <2>6, <2>7 DEF LeasesTrue
<1>17. AsksTyped'
  BY <1>1, <1>2, <1>4, <1>5, <1>6, <1>10, <1>13 DEF AsksTyped, CurrentRecords
<1> QED
  BY <1>4, <1>5, <1>13, <1>14, <1>16, <1>17 DEF AsksKept

LEMMA FinishStaleStep == AsksKept /\ Asks!FinishStale => AsksKept'
<1> SUFFICES ASSUME AsksKept, Asks!FinishStale PROVE AsksKept'
  OBVIOUS
<1>1. /\ UNCHANGED <<saved, jobs, items, cache, gate, ready, quiet, moves>> /\ owed' = owed \ {Worker}
      /\ call[Worker].pc = "done" /\ Asks!Goes(Worker, "loop")
      /\ IF call[Worker].result.kind = "good" THEN Asks!Stored(call[Worker].result.receipt)
         ELSE UNCHANGED <<current, receipts>>
  BY DEF Asks!FinishStale, Asks!process
<1>2. /\ AsksTyped /\ CallsTrue /\ TokensApart /\ LeasesTrue /\ JobsKept /\ LatestIs
      /\ Worker \in Asks!Askers /\ Worker \in Asks!Callers
  BY AsksConstants DEF AsksKept
<1>3. Proper(call[Worker].result)
  BY <1>1, <1>2 DEF CallsTrue, CallTrue
<1>4. /\ current' \in [Names -> CurrentRecords]
      /\ receipts' \in Seq(Receipts) /\ Len(receipts') = Len(receipts) /\ DOMAIN receipts' = DOMAIN receipts
      /\ LatestIs'
  <2>1. CASE call[Worker].result.kind = "good"
    BY <1>1, <1>2, <1>3, <2>1, StoredIs DEF Proper
  <2>2. CASE call[Worker].result.kind # "good"
    BY <1>1, <1>2, <2>2, LatestStays DEF AsksTyped, CurrentRecords
  <2> QED
    BY <2>1, <2>2
<1>5. /\ call' \in [Asks!Callers -> CallRecords] /\ CallsTrue'
      /\ \A d \in Asks!Askers : call'[d].token \in {call[d].token, 0}
  BY <1>1, <1>2, <1>4, CallEnds
<1>6. AsksTyped'
  BY <1>1, <1>2, <1>4, <1>5 DEF AsksTyped, CurrentRecords
<1>7. TokensApart' /\ JobsKept' /\ LeasesTrue'
  BY <1>1, <1>2, <1>5, TokensStay, JobsStay
<1> QED
  BY <1>4, <1>5, <1>6, <1>7 DEF AsksKept

\* The active job is told to wait for the operator.
LEMMA AllPaused ==
    ASSUME AsksTyped, NEW js, \A j \in Jobs : js[j] \in {jobs[j], [state |-> "paused", retry |-> Asks!Unset]},
           js = [j \in Jobs |-> js[j]], \A j \in Jobs : js[j] # jobs[j] => j \in Asks!Active
    PROVE  /\ js \in [Jobs -> JobRecords]
           /\ \A j \in Jobs : js[j].state = jobs[j].state \/ {jobs[j].state, js[j].state} \subseteq Works
<1> DEFINE waits == [state |-> "paused", retry |-> Asks!Unset]
<1>1. waits \in JobRecords /\ waits.state = "paused"
  BY UnsetLeft DEF JobRecords, Asks!JobStates
<1> HIDE DEF waits
<1>2. \A j \in Jobs : js[j] = jobs[j] \/ (js[j] = waits /\ jobs[j].state \in Works)
  BY DEF waits, Asks!Active, Works
<1>3. \A j \in Jobs : js[j] \in JobRecords
  BY <1>1, <1>2 DEF AsksTyped
<1> QED
  BY <1>1, <1>2, <1>3 DEF Works

LEMMA FinishFailsStep == ASSUME AsksKept, NEW c \in Asks!Askers, Asks!FinishFails(c) PROVE AsksKept'
<1> DEFINE js == [j \in Jobs |-> IF j \in Asks!Active THEN [state |-> "paused", retry |-> Asks!Unset] ELSE jobs[j]]
<1>1. /\ UNCHANGED <<saved, items, current, receipts, cache, gate, ready, owed, quiet>>
      /\ Asks!Costs /\ jobs' \in {jobs, js} /\ \E pc \in Away : Asks!Goes(c, pc)
  BY DEF Asks!FinishFails, Asks!process, Asks!history, Away
<1>2. AsksTyped /\ CallsTrue
  BY DEF AsksKept
<1>3. /\ call' \in [Asks!Callers -> CallRecords] /\ CallsTrue'
      /\ \A d \in Asks!Askers : call'[d].token \in {call[d].token, 0}
  BY <1>1, <1>2, CallEnds
<1>4. /\ js \in [Jobs -> JobRecords]
      /\ \A j \in Jobs : js[j].state = jobs[j].state \/ {jobs[j].state, js[j].state} \subseteq Works
  <2>1. /\ \A j \in Jobs : js[j] \in {jobs[j], [state |-> "paused", retry |-> Asks!Unset]}
        /\ js = [j \in Jobs |-> js[j]] /\ \A j \in Jobs : js[j] # jobs[j] => j \in Asks!Active
    OBVIOUS
  <2> HIDE DEF js
  <2> QED
    BY <1>2, <2>1, AllPaused
<1>5. AsksTyped'
  BY <1>1, <1>2, <1>3, <1>4, MovesIs DEF AsksTyped
<1>6. \A j \in Jobs : jobs'[j].state = jobs[j].state \/ {jobs[j].state, jobs'[j].state} \subseteq Works
  BY <1>1, <1>4
<1> QED
  BY <1>1, <1>3, <1>5, <1>6, Moved

LEMMA ReconcileStep == AsksKept /\ Asks!Reconcile => AsksKept'
<1> SUFFICES ASSUME AsksKept, Asks!Reconcile PROVE AsksKept'
  OBVIOUS
<1> DEFINE yes == TRUE
           back(j) == j \in Asks!Active /\ \E n \in Asks!ItemsIn(j, {"leased"}) : items[j][n].token = saved.token
           js == [j \in Jobs |-> IF back(j) THEN [state |-> "paused", retry |-> Asks!Unset] ELSE jobs[j]]
<1>1. /\ UNCHANGED <<items, current, receipts, call, cache, gate, owed, quiet, moves>> /\ ready' \in BOOLEAN
      /\ jobs' \in {jobs, js} /\ saved' \in {saved, [saved EXCEPT !.retry = Asks!Raised(Backoff), !.orphan = yes]}
  BY DEF Asks!Reconcile, Asks!history
<1>2. AsksTyped /\ CallsTrue /\ saved \in ControlRecords
  BY DEF AsksKept, AsksTyped
<1>3. saved' \in ControlRecords /\ saved'.token = saved.token
  <2>1. Asks!Raised(Backoff) \in Asks!Left /\ yes \in BOOLEAN
    <3>1. saved.retry \in Asks!Left /\ Backoff \in Asks!Left
      BY <1>2, TopIs DEF ControlRecords
    <3> QED
      BY <3>1, RaisedTo
  <2> HIDE DEF yes
  <2> QED
    BY <1>1, <1>2, <2>1 DEF ControlRecords
<1>4. /\ js \in [Jobs -> JobRecords]
      /\ \A j \in Jobs : js[j].state = jobs[j].state \/ {jobs[j].state, js[j].state} \subseteq Works
  <2>1. /\ \A j \in Jobs : js[j] \in {jobs[j], [state |-> "paused", retry |-> Asks!Unset]}
        /\ js = [j \in Jobs |-> js[j]] /\ \A j \in Jobs : js[j] # jobs[j] => j \in Asks!Active
    OBVIOUS
  <2> HIDE DEF js
  <2> QED
    BY <1>2, <2>1, AllPaused
<1>5. CallsTrue'
  BY <1>1, <1>2, CallsStay
<1>6. AsksTyped'
  BY <1>1, <1>2, <1>3, <1>4 DEF AsksTyped
<1>7. \A j \in Jobs : jobs'[j].state = jobs[j].state \/ {jobs[j].state, jobs'[j].state} \subseteq Works
  BY <1>1, <1>4
<1> QED
  BY <1>1, <1>3, <1>5, <1>6, <1>7, Moved

-----------------------------------------------------------------------------
(* The operator, time and crashes.                                         *)

LEMMA KickedMoves ==
    ASSUME AsksTyped, CallsTrue, Asks!Kicked, cache' = cache, DOMAIN receipts' = DOMAIN receipts
    PROVE  /\ call' \in [Asks!Callers -> CallRecords] /\ CallsTrue'
           /\ \A d \in Asks!Askers : call'[d].token \in {call[d].token, 0}
<1>1. /\ Worker \in Asks!Callers /\ Worker # History /\ Asks!Askers \subseteq Asks!Callers
  BY AsksConstants
<1>2. /\ call' \in [Asks!Callers -> CallRecords]
      /\ \A d \in Asks!Callers \ {Worker} : call'[d] = call[d]
      /\ \/ call'[Worker] = call[Worker]
         \/ call[Worker].pc \in Away /\ call'[Worker].pc = "loop" /\ call'[Worker].token = 0
  BY KickedIs DEF AsksTyped
<1>3. CallTrue(Worker)'
  BY <1>1, <1>2 DEF CallsTrue, CallTrue, Worked, Proper
<1> QED
  BY <1>1, <1>2, <1>3, OneMoves

LEMMA StartStep == ASSUME AsksKept, NEW unresolved \in SUBSET Names, Asks!Start(unresolved) PROVE AsksKept'
<1>1. /\ UNCHANGED <<saved, current, receipts, cache, gate, ready, owed, quiet>>
      /\ Asks!Costs /\ Asks!Active = {} /\ Asks!Kicked /\ {k \in Jobs : Asks!Unused(k)} # {}
  BY DEF Asks!Start, Asks!process, Asks!history
<1>4. PICK j \in Jobs : j = Asks!Min({k \in Jobs : Asks!Unused(k)})
  <2>1. {k \in Jobs : Asks!Unused(k)} \in SUBSET Nat
    BY AsksConstants
  <2> QED
    BY <1>1, <2>1, LeastOf
<1> DEFINE first(n) == IF n \in unresolved THEN "unpriced"
                       ELSE IF Asks!FreshFor(n, Fresh + 1) THEN "reused"
                       ELSE IF current[n].retry > 0 THEN "unpriced" ELSE "pending"
           base == [k \in Jobs |->
                      [state |-> IF k = j THEN "queued" ELSE IF Asks!Unused(k) THEN "none" ELSE jobs[k].state,
                       retry |-> IF k = j \/ Asks!Unused(k) THEN Asks!Unset ELSE jobs[k].retry]]
           its == [k \in Jobs |-> [n \in Names |->
                      IF k # j THEN IF Asks!Unused(k) THEN Asks!Unleased("none") ELSE items[k][n]
                      ELSE Asks!Unleased(first(n))]]
           having(states) == {n \in Names : its[j][n].state \in states}
<1>2. items' = its /\ jobs' = Asks!Progressed(base, items', j)
  <2>1. \A n \in Names : Asks!Unleased(first(n)) =
          Asks!Unleased(IF n \in unresolved THEN "unpriced"
                          ELSE IF Asks!FreshFor(n, Fresh + 1) THEN "reused"
                          ELSE IF current[n].retry > 0 THEN "unpriced" ELSE "pending")
    OBVIOUS
  <2> QED
    BY <1>4 DEF Asks!Start
<1>3. AsksTyped /\ CallsTrue /\ TokensApart /\ LeasesTrue /\ JobsKept /\ LatestIs
  BY DEF AsksKept
<1>5. /\ \A n \in Names : first(n) \in {"unpriced", "reused", "pending"}
      /\ {"none", "unpriced", "reused", "pending"} \subseteq Asks!ItemStates
      /\ {"none", "queued"} \subseteq Asks!JobStates
  BY DEF Asks!ItemStates, Asks!JobStates
<1>6. /\ Asks!Unleased("none") \in ItemRecords /\ Asks!Unleased("none").state = "none" /\ Asks!Unleased("none").token = 0
      /\ \A n \in Names : /\ Asks!Unleased(first(n)) \in ItemRecords
                          /\ Asks!Unleased(first(n)).state \in {"unpriced", "reused", "pending"}
                          /\ Asks!Unleased(first(n)).token = 0
  <2> HIDE DEF first
  <2> QED
    BY <1>5, UnleasedIs
<1> HIDE DEF first
<1>7. /\ its \in [Jobs -> [Names -> ItemRecords]]
      /\ \A k \in Jobs \ {j}, n \in Names :
           its[k][n] = IF Asks!Unused(k) THEN Asks!Unleased("none") ELSE items[k][n]
      /\ \A n \in Names : its[j][n].state \in {"unpriced", "reused", "pending"} /\ its[j][n].token = 0
  BY <1>3, <1>4, <1>6 DEF AsksTyped
<1>8. /\ base \in [Jobs -> JobRecords] /\ base[j].state = "queued"
      /\ \A k \in Jobs \ {j} : base[k].state = IF Asks!Unused(k) THEN "none" ELSE jobs[k].state
  BY <1>3, <1>4, <1>5, UnsetLeft DEF AsksTyped, JobRecords
<1> HIDE DEF its, base
<1>9. /\ jobs' \in [Jobs -> JobRecords]
      /\ \A k \in Jobs \ {j} : jobs'[k] = base[k]
      /\ having({"pending", "leased"}) # {} => jobs' = base
      /\ having({"pending", "leased"}) = {} =>
                   /\ jobs'[j].state \in {"complete", "partial"}
                   /\ jobs'[j].state = "partial" <=> having({"unpriced", "failed"}) # {}
  <2> DEFINE holding(states) == {n \in Names : items'[j][n].state \in states}
  <2>1. \A states : holding(states) = having(states)
    BY <1>2
  <2>2. /\ jobs' \in [Jobs -> JobRecords]
        /\ \A k \in Jobs \ {j} : jobs'[k] = base[k]
        /\ holding({"pending", "leased"}) # {} => jobs' = base
        /\ holding({"pending", "leased"}) = {} =>
                   /\ jobs'[j].state \in {"complete", "partial"}
                   /\ jobs'[j].state = "partial" <=> holding({"unpriced", "failed"}) # {}
    BY <1>2, <1>8, ProgressedIs
  <2> HIDE DEF holding, having
  <2> QED
    BY <2>1, <2>2
<1>10. /\ \A k \in Jobs \ {j} : jobs'[k].state = IF Asks!Unused(k) THEN "none" ELSE jobs[k].state
       /\ \A k \in Jobs : jobs[k].state \notin Works
       /\ Asks!Active' \subseteq Jobs /\ \A k \in Jobs : k \in Asks!Active' => jobs'[k].state \in Works
  BY <1>1, <1>8, <1>9 DEF Asks!Active, Works
<1>11. Asks!Active' \subseteq {j}
  BY <1>10 DEF Works
<1>12. TokensApart' /\ CallsTrue' /\ call' \in [Asks!Callers -> CallRecords]
  <2>1. \A k \in Jobs, n \in Names : items'[k][n].token \in {items[k][n].token, 0}
    BY <1>2, <1>6, <1>7
  <2> QED
    BY <1>1, <1>3, <2>1, KickedMoves, TokensStay
<1>13. LeasesTrue'
  <2>1. \A k \in Jobs, n \in Names : items'[k][n].state = "leased" <=> items'[k][n].token # 0
    BY <1>2, <1>3, <1>6, <1>7 DEF LeasesTrue
  <2>2. \A k \in Jobs, n \in Names : items'[k][n].state = "leased" =>
          k # j /\ ~Asks!Unused(k) /\ items[k][n].state = "leased"
    BY <1>2, <1>6, <1>7
  <2>3. \A k \in Jobs, n \in Names : items[k][n].state = "leased" => jobs[k].state = "cancelled"
    BY <1>1, <1>3 DEF LeasesTrue
  <2>4. \A k \in Jobs, n \in Names : items'[k][n].state = "leased" => jobs'[k].state = "cancelled"
    BY <1>10, <2>2, <2>3
  <2> QED
    BY <1>11, <1>10, <2>1, <2>2, <2>4 DEF LeasesTrue
<1>14. JobsKept'
  <2>1. \A states : Asks!ItemsIn(j, states)' = having(states)
    BY <1>2 DEF Asks!ItemsIn
  <2>2. having({"cancelled"}) = {}
    BY <1>7
  <2>3. having({"pending", "leased"}) = {} => having({"pending", "leased", "cancelled"}) = {}
    BY <1>7
  <2>4. ASSUME NEW k \in Jobs \ {j}, jobs'[k].state \in {"complete", "partial"}
        PROVE  /\ Asks!ItemsIn(k, {"pending", "leased", "cancelled"})' = {}
               /\ jobs'[k].state = "partial" <=> Asks!ItemsIn(k, {"unpriced", "failed"})' # {}
    <3>1. ~Asks!Unused(k) /\ jobs'[k].state = jobs[k].state
      BY <1>10, <2>4
    <3>2. \A n \in Names : items'[k][n] = items[k][n]
      BY <1>2, <1>7, <3>1
    <3>3. \A states : Asks!ItemsIn(k, states)' = Asks!ItemsIn(k, states)
      BY <3>2 DEF Asks!ItemsIn
    <3> QED
      BY <1>3, <2>4, <3>1, <3>3 DEF JobsKept
  <2>5. j \in Asks!Active' => having({"pending", "leased"}) # {}
    BY <1>4, <1>9, <1>10 DEF Works
  <2>6. jobs'[j].state \in {"complete", "partial"} => having({"pending", "leased"}) = {}
    BY <1>8, <1>9
  <2> HIDE DEF having
  <2> QED
    BY <1>9, <1>11, <2>1, <2>2, <2>3, <2>4, <2>5, <2>6 DEF JobsKept
<1>15. AsksTyped'
  BY <1>1, <1>2, <1>3, <1>7, <1>9, <1>12, MovesIs DEF AsksTyped
<1> QED
  BY <1>1, <1>3, <1>12, <1>13, <1>14, <1>15, LatestStays DEF AsksKept

LEMMA StartAgainStep == AsksKept /\ Asks!StartAgain => AsksKept'
<1> SUFFICES ASSUME AsksKept, Asks!StartAgain PROVE AsksKept'
  OBVIOUS
<1>1. /\ UNCHANGED <<saved, jobs, items, current, receipts, cache, gate, ready, owed, quiet>>
      /\ Asks!Costs /\ Asks!Kicked
  BY DEF Asks!StartAgain, Asks!durable, Asks!process, Asks!history
<1>2. AsksTyped /\ CallsTrue
  BY DEF AsksKept
<1>3. /\ call' \in [Asks!Callers -> CallRecords] /\ CallsTrue'
      /\ \A d \in Asks!Askers : call'[d].token \in {call[d].token, 0}
  BY <1>1, <1>2, KickedMoves
<1>4. AsksTyped'
  BY <1>1, <1>2, <1>3, MovesIs DEF AsksTyped
<1> QED
  BY <1>1, <1>3, <1>4, Moved

\* A lease is taken back: its request is taken for lost.
LEMMA TakenIs ==
    ASSUME AsksTyped, Asks!TakenForLost
    PROVE  /\ owed' = {} /\ quiet' \in Asks!Left /\ quiet' >= 0 /\ quiet' >= quiet
           /\ quiet' = quiet \/ (owed # {} /\ quiet' \in {quiet, Backoff})
<1>1. quiet \in Asks!Left /\ quiet \in Int /\ quiet >= 0 /\ Backoff \in Int /\ Backoff \in Asks!Left
  <2>1. quiet \in Asks!Left /\ quiet >= 0 /\ Backoff \in Asks!Left
    <3>1. quiet \in Asks!Left /\ quiet >= 0
      BY DEF AsksTyped
    <3> QED
      BY <3>1, TopIs
  <2>2. \A x \in Asks!Left : x \in Int
    BY TopIs
  <2> QED
    BY <2>1, <2>2
<1>2. Asks!Max({quiet, Backoff}) \in {quiet, Backoff} /\ Asks!Max({quiet, Backoff}) >= quiet
  BY <1>1, Larger2
<1>3. owed' = {} /\ (quiet' = quiet \/ (owed # {} /\ quiet' = Asks!Max({quiet, Backoff})))
  BY DEF Asks!TakenForLost
<1> QED
  BY <1>1, <1>2, <1>3

LEMMA ResumeStep == ASSUME AsksKept, NEW j \in Jobs, Asks!Resume(j) PROVE AsksKept'
<1> DEFINE suspect == saved.token # 0 \/ Asks!ItemsIn(j, {"leased"}) # {}
           given(n) == IF items[j][n].state = "leased" THEN Asks!Unleased("pending") ELSE items[j][n]
           queued == [state |-> "queued", retry |-> Asks!Unset]
<1>1. /\ UNCHANGED <<current, receipts, cache, gate, ready>>
      /\ Asks!Costs /\ j \in Asks!Active /\ Asks!Kicked /\ Asks!TakenForLost
      /\ saved' = Asks!Dropped(Asks!Floor(suspect))
      /\ items' = [items EXCEPT ![j] = [n \in Names |-> given(n)]]
      /\ jobs' = [jobs EXCEPT ![j] = queued]
  BY DEF Asks!Resume, Asks!process
<1>2. AsksTyped /\ CallsTrue /\ TokensApart /\ LeasesTrue /\ JobsKept /\ LatestIs
  BY DEF AsksKept
<1>3. saved' \in ControlRecords
  <2>1. suspect \in BOOLEAN /\ saved \in ControlRecords
    BY <1>2 DEF AsksTyped
  <2> HIDE DEF suspect
  <2> QED
    BY <1>1, <2>1, FloorIs, DroppedIs
<1>4. /\ \A n \in Names : given(n) \in ItemRecords
      /\ \A n \in Names : IF items[j][n].state = "leased" THEN given(n).state = "pending" /\ given(n).token = 0
                          ELSE given(n) = items[j][n]
  <2>1. /\ Asks!Unleased("pending") \in ItemRecords /\ Asks!Unleased("pending").state = "pending"
        /\ Asks!Unleased("pending").token = 0
    BY UnleasedIs DEF Asks!ItemStates
  <2> QED
    BY <1>2, <2>1 DEF AsksTyped
<1>5. queued \in JobRecords /\ queued.state = "queued"
  BY UnsetLeft DEF JobRecords, Asks!JobStates
<1> HIDE DEF given, queued, suspect
<1>6. /\ items' \in [Jobs -> [Names -> ItemRecords]] /\ \A n \in Names : items'[j][n] = given(n)
      /\ \A k \in Jobs \ {j} : items'[k] = items[k]
  BY <1>1, <1>2, <1>4 DEF AsksTyped
<1>7. /\ jobs' \in [Jobs -> JobRecords] /\ jobs'[j].state = "queued" /\ jobs[j].state \in Works
      /\ \A k \in Jobs \ {j} : jobs'[k] = jobs[k]
  BY <1>1, <1>2, <1>5 DEF AsksTyped, Asks!Active, Works
<1>8. Asks!Active' = Asks!Active /\ \A k \in Asks!Active : k = j
  BY <1>1, <1>2, <1>7 DEF Asks!Active, Works, JobsKept
<1>9. /\ owed' = {} /\ quiet' \in Asks!Left /\ quiet' >= 0
  BY <1>1, <1>2, TakenIs
<1>10. /\ call' \in [Asks!Callers -> CallRecords] /\ CallsTrue' /\ TokensApart'
  <2>1. \A k \in Jobs, n \in Names : items'[k][n].token \in {items[k][n].token, 0}
    BY <1>4, <1>6
  <2> QED
    BY <1>1, <1>2, <2>1, KickedMoves, TokensStay
<1>11. AsksTyped'
  BY <1>1, <1>2, <1>3, <1>6, <1>7, <1>9, <1>10, MovesIs DEF AsksTyped
<1>12. LeasesTrue'
  <2>1. \A k \in Jobs, n \in Names : items'[k][n].state = "leased" <=> items'[k][n].token # 0
    BY <1>2, <1>4, <1>6 DEF LeasesTrue
  <2>2. \A n \in Names : items'[j][n].state # "leased"
    BY <1>4, <1>6
  <2>3. \A k \in Jobs, n \in Names : items'[k][n].state = "leased" => jobs'[k].state = "cancelled"
    BY <1>2, <1>6, <1>7, <1>8, <2>2 DEF LeasesTrue
  <2> QED
    BY <1>8, <2>1, <2>2, <2>3 DEF LeasesTrue
<1>13. JobsKept'
  <2>1. Asks!ItemsIn(j, {"pending", "leased"}) \subseteq Asks!ItemsIn(j, {"pending", "leased"})'
    BY <1>4, <1>6 DEF Asks!ItemsIn
  <2>2. Asks!ItemsIn(j, {"cancelled"})' \subseteq Asks!ItemsIn(j, {"cancelled"})
    BY <1>4, <1>6 DEF Asks!ItemsIn
  <2>3. \A k \in Jobs \ {j} : \A states : Asks!ItemsIn(k, states)' = Asks!ItemsIn(k, states)
    BY <1>6 DEF Asks!ItemsIn
  <2>4. Asks!ItemsIn(j, {"pending", "leased"})' # {} /\ Asks!ItemsIn(j, {"cancelled"})' = {}
    BY <1>1, <1>2, <2>1, <2>2 DEF JobsKept
  <2> QED
    BY <1>2, <1>7, <1>8, <2>3, <2>4 DEF JobsKept
<1> QED
  BY <1>1, <1>2, <1>10, <1>11, <1>12, <1>13, LatestStays DEF AsksKept

LEMMA CancelStep == ASSUME AsksKept, NEW j \in Jobs, Asks!Cancel(j) PROVE AsksKept'
<1> DEFINE given(n) == IF items[j][n].state = "pending" THEN Asks!Unleased("cancelled") ELSE items[j][n]
<1>1. /\ UNCHANGED <<saved, current, receipts, call, cache, gate, ready, owed, quiet>>
      /\ Asks!Costs /\ j \in Asks!Active
      /\ items' = [items EXCEPT ![j] = [n \in Names |-> given(n)]]
      /\ jobs' = [jobs EXCEPT ![j].state = "cancelled"]
  BY DEF Asks!Cancel, Asks!process, Asks!history
<1>2. AsksTyped /\ CallsTrue /\ TokensApart /\ LeasesTrue /\ JobsKept /\ LatestIs
  BY DEF AsksKept
<1>3. /\ \A n \in Names : given(n) \in ItemRecords
      /\ \A n \in Names : IF items[j][n].state = "pending" THEN given(n).state = "cancelled" /\ given(n).token = 0
                          ELSE given(n) = items[j][n]
  <2>1. /\ Asks!Unleased("cancelled") \in ItemRecords /\ Asks!Unleased("cancelled").state = "cancelled"
        /\ Asks!Unleased("cancelled").token = 0
    BY UnleasedIs DEF Asks!ItemStates
  <2> QED
    BY <1>2, <2>1 DEF AsksTyped
<1> HIDE DEF given
<1>4. /\ items' \in [Jobs -> [Names -> ItemRecords]] /\ \A n \in Names : items'[j][n] = given(n)
      /\ \A k \in Jobs \ {j} : items'[k] = items[k]
  BY <1>1, <1>2, <1>3 DEF AsksTyped
<1>5. /\ jobs' \in [Jobs -> JobRecords] /\ jobs'[j].state = "cancelled"
      /\ \A k \in Jobs \ {j} : jobs'[k] = jobs[k]
  BY <1>1, <1>2 DEF AsksTyped, JobRecords, Asks!JobStates
<1>6. /\ \A k \in Asks!Active' : k \in Asks!Active /\ k # j /\ k \in Jobs
      /\ \A k \in Asks!Active : k \in Asks!Active' \/ k = j
  BY <1>5 DEF Asks!Active
<1>7. TokensApart'
  <2>1. \A k \in Jobs, n \in Names : items'[k][n].token \in {items[k][n].token, 0}
    BY <1>3, <1>4
  <2> QED
    BY <1>1, <1>2, <2>1, TokensStay, AsksConstants
<1>8. AsksTyped'
  BY <1>1, <1>2, <1>4, <1>5, MovesIs DEF AsksTyped
<1>9. LeasesTrue'
  <2>1. \A k \in Jobs, n \in Names : items'[k][n].state = "leased" <=> items'[k][n].token # 0
    BY <1>2, <1>3, <1>4 DEF LeasesTrue
  <2>2. \A k \in Jobs, n \in Names : items'[k][n].state = "leased" => items[k][n] = items'[k][n]
    BY <1>3, <1>4
  <2>3. \A k \in Jobs, n \in Names : items'[k][n].state = "leased" =>
          k \in Asks!Active' \/ jobs'[k].state = "cancelled"
    BY <1>2, <1>5, <1>6, <2>2 DEF LeasesTrue
  <2>4. \A k \in Asks!Active', n \in Names : items'[k][n].state = "leased" => saved'.token = items'[k][n].token
    BY <1>1, <1>2, <1>6, <2>2 DEF LeasesTrue
  <2> QED
    BY <2>1, <2>3, <2>4 DEF LeasesTrue
<1>10. JobsKept'
  <2>1. \A k \in Jobs \ {j} : \A states : Asks!ItemsIn(k, states)' = Asks!ItemsIn(k, states)
    BY <1>4 DEF Asks!ItemsIn
  <2> QED
    BY <1>2, <1>5, <1>6, <2>1 DEF JobsKept
<1> QED
  BY <1>1, <1>2, <1>7, <1>8, <1>9, <1>10, CallsStay, LatestStays DEF AsksKept

LEMMA ClearLeaseStep == AsksKept /\ Asks!ClearLease => AsksKept'
<1> SUFFICES ASSUME AsksKept, Asks!ClearLease PROVE AsksKept'
  OBVIOUS
<1> DEFINE yes == TRUE
           back(j, n) == items[j][n].state = "leased" /\ items[j][n].until = 0
           given(j, n) == IF back(j, n) THEN Asks!Unleased("cancelled") ELSE items[j][n]
<1>1. /\ UNCHANGED <<jobs, current, receipts, call, cache, gate, ready>>
      /\ Asks!Costs /\ Asks!TakenForLost
      /\ saved' = Asks!Dropped(Asks!Floor(yes))
      /\ items' = [j \in Jobs |-> [n \in Names |-> given(j, n)]]
      /\ \A j \in Jobs : Asks!ItemsIn(j, {"leased"}) # {} => jobs[j].state = "cancelled"
  BY DEF Asks!ClearLease, Asks!process
<1>2. AsksTyped /\ CallsTrue /\ TokensApart /\ LeasesTrue /\ JobsKept /\ LatestIs
  BY DEF AsksKept
<1>3. saved' \in ControlRecords
  <2>1. yes \in BOOLEAN /\ saved \in ControlRecords
    BY <1>2 DEF AsksTyped
  <2> HIDE DEF yes
  <2> QED
    BY <1>1, <2>1, FloorIs, DroppedIs
<1>4. /\ \A j \in Jobs, n \in Names : given(j, n) \in ItemRecords
      /\ \A j \in Jobs, n \in Names :
           \/ given(j, n) = items[j][n]
           \/ items[j][n].state = "leased" /\ given(j, n).state = "cancelled" /\ given(j, n).token = 0
  <2>1. /\ Asks!Unleased("cancelled") \in ItemRecords /\ Asks!Unleased("cancelled").state = "cancelled"
        /\ Asks!Unleased("cancelled").token = 0
    BY UnleasedIs DEF Asks!ItemStates
  <2> QED
    BY <1>2, <2>1 DEF AsksTyped
<1> HIDE DEF given
<1>5. /\ items' \in [Jobs -> [Names -> ItemRecords]]
      /\ \A j \in Jobs, n \in Names : items'[j][n] = given(j, n)
  BY <1>1, <1>4
<1>6. \A j \in Jobs, n \in Names : items[j][n].state = "leased" => jobs[j].state = "cancelled"
  BY <1>1 DEF Asks!ItemsIn
<1>7. /\ owed' = {} /\ quiet' \in Asks!Left /\ quiet' >= 0
  BY <1>1, <1>2, TakenIs
<1>8. TokensApart'
  <2>1. \A k \in Jobs, n \in Names : items'[k][n].token \in {items[k][n].token, 0}
    BY <1>4, <1>5
  <2> QED
    BY <1>1, <1>2, <2>1, TokensStay, AsksConstants
<1>9. AsksTyped'
  BY <1>1, <1>2, <1>3, <1>5, <1>7, MovesIs DEF AsksTyped
<1>10. /\ Asks!Active' = Asks!Active /\ Asks!Active \subseteq Jobs
       /\ \A j \in Asks!Active : jobs[j].state # "cancelled"
  BY <1>1 DEF Asks!Active
<1>11. LeasesTrue'
  <2>1. \A k \in Jobs, n \in Names : items'[k][n].state = "leased" <=> items'[k][n].token # 0
    BY <1>2, <1>4, <1>5 DEF LeasesTrue
  <2>2. \A k \in Jobs, n \in Names : items'[k][n].state = "leased" => jobs'[k].state = "cancelled"
    BY <1>1, <1>4, <1>5, <1>6
  <2> QED
    BY <1>1, <1>10, <2>1, <2>2 DEF LeasesTrue
<1>12. JobsKept'
  <2>1. \A k \in Jobs : jobs[k].state # "cancelled" => \A n \in Names : items'[k][n] = items[k][n]
    BY <1>4, <1>5, <1>6
  <2>2. \A k \in Jobs : jobs[k].state # "cancelled" => \A states : Asks!ItemsIn(k, states)' = Asks!ItemsIn(k, states)
    BY <2>1 DEF Asks!ItemsIn
  <2> QED
    BY <1>1, <1>2, <1>10, <2>2 DEF JobsKept
<1> QED
  BY <1>1, <1>2, <1>8, <1>9, <1>11, <1>12, CallsStay, LatestStays DEF AsksKept

AgedControl(c) == [c EXCEPT !.retry = Asks!Down(@), !.until = Asks!Down(@)]
AgedRetry(x) == [x EXCEPT !.retry = Asks!Down(@)]
AgedItem(x) == [x EXCEPT !.until = Asks!Down(@)]
AgedReceipt(r) == [r EXCEPT !.age = Asks!Min({@ + 1, Fresh + 1})]
AgedCall(c) == [c EXCEPT !.result.retry = Asks!Down(@)]
AgedCache(k) == IF k.until > 1 THEN [k EXCEPT !.until = Asks!Down(@)]
                ELSE [until |-> 0, result |-> Asks!NoResult]

LEMMA AgedIs ==
    /\ \A c \in ControlRecords : /\ AgedControl(c) \in ControlRecords /\ AgedControl(c).token = c.token
                                 /\ AgedControl(c).orphan = c.orphan /\ AgedControl(c).retry = Asks!Down(c.retry)
    /\ \A x \in JobRecords : AgedRetry(x) \in JobRecords /\ AgedRetry(x).state = x.state
    /\ \A x \in CurrentRecords : AgedRetry(x) \in CurrentRecords /\ AgedRetry(x).receipt = x.receipt
    /\ \A x \in ItemRecords : /\ AgedItem(x) \in ItemRecords /\ AgedItem(x).state = x.state
                              /\ AgedItem(x).token = x.token
<1>1. /\ \A x \in Asks!Left : Asks!Down(x) \in Asks!Left
      /\ \A x \in 0 .. AskLease : Asks!Down(x) \in 0 .. AskLease
  BY DownLeft, DownNat, AsksConstants
<1>2. \A c \in ControlRecords : /\ AgedControl(c) \in ControlRecords /\ AgedControl(c).token = c.token
                                /\ AgedControl(c).orphan = c.orphan /\ AgedControl(c).retry = Asks!Down(c.retry)
  BY <1>1 DEF ControlRecords, AgedControl
<1>3. \A x \in JobRecords : AgedRetry(x) \in JobRecords /\ AgedRetry(x).state = x.state
  BY <1>1 DEF JobRecords, AgedRetry
<1>4. \A x \in CurrentRecords : AgedRetry(x) \in CurrentRecords /\ AgedRetry(x).receipt = x.receipt
  BY <1>1 DEF CurrentRecords, AgedRetry
<1>5. \A x \in ItemRecords : /\ AgedItem(x) \in ItemRecords /\ AgedItem(x).state = x.state
                             /\ AgedItem(x).token = x.token
  BY <1>1 DEF ItemRecords, AgedItem
<1> QED
  BY <1>2, <1>3, <1>4, <1>5

LEMMA AgedReceiptIs ==
    ASSUME NEW r \in Receipts
    PROVE  AgedReceipt(r) \in Receipts /\ AgedReceipt(r).name = r.name /\ AgedReceipt(r).saved = r.saved
<1>1. r.age \in 0 .. Fresh + 1 /\ Fresh \in Nat
  BY AsksConstants DEF Receipts
<1>2. Asks!Min({r.age + 1, Fresh + 1}) \in {r.age + 1, Fresh + 1} /\ Asks!Min({r.age + 1, Fresh + 1}) <= Fresh + 1
  <2>1. r.age + 1 \in Int /\ Fresh + 1 \in Int
    BY <1>1
  <2> QED
    BY <2>1, Smaller2
<1>3. Asks!Min({r.age + 1, Fresh + 1}) \in 0 .. Fresh + 1
  BY <1>1, <1>2
<1> QED
  BY <1>3 DEF Receipts, AgedReceipt

LEMMA AgedCallIs ==
    ASSUME NEW c \in CallRecords
    PROVE  /\ AgedCall(c) \in CallRecords /\ AgedCall(c).pc = c.pc /\ AgedCall(c).name = c.name
           /\ AgedCall(c).job = c.job /\ AgedCall(c).token = c.token
           /\ AgedCall(c).result.kind = c.result.kind /\ AgedCall(c).result.receipt = c.result.receipt
<1> DEFINE older == [c.result EXCEPT !.retry = Asks!Down(@)]
<1>1. c.result \in Results
  BY DEF CallRecords
<1>2. older \in Results /\ older.kind = c.result.kind /\ older.receipt = c.result.receipt
  BY <1>1, DownLeft DEF Results
<1>3. AgedCall(c) = [c EXCEPT !.result = older]
  BY DEF AgedCall, CallRecords
<1> HIDE DEF older
<1> QED
  BY <1>2, <1>3 DEF CallRecords

LEMMA AgedCacheIs ==
    ASSUME NEW k \in [until : 0 .. CacheTop, result : Results]
    PROVE  /\ AgedCache(k) \in [until : 0 .. CacheTop, result : Results]
           /\ AgedCache(k).until > 0 => k.until > 0 /\ AgedCache(k).result = k.result
<1>1. Asks!Down(k.until) \in 0 .. CacheTop /\ 0 \in 0 .. CacheTop /\ k.until \in Nat
  BY DownNat, TopIs
<1> QED
  BY <1>1, NoResultIs DEF AgedCache

LEMMA TickStep == AsksKept /\ Asks!Tick => AsksKept'
<1> SUFFICES ASSUME AsksKept, Asks!Tick PROVE AsksKept'
  OBVIOUS
<1>1. /\ UNCHANGED <<ready, owed>> /\ (Asks!Costs \/ UNCHANGED moves)
      /\ saved' = AgedControl(saved)
      /\ jobs' = [j \in Jobs |-> AgedRetry(jobs[j])]
      /\ items' = [j \in Jobs |-> [n \in Names |-> AgedItem(items[j][n])]]
      /\ current' = [n \in Names |-> AgedRetry(current[n])]
      /\ receipts' = [r \in DOMAIN receipts |-> AgedReceipt(receipts[r])]
      /\ call' = [c \in Asks!Callers |-> AgedCall(call[c])]
      /\ cache' = [n \in Names |-> AgedCache(cache[n])]
      /\ gate' = Asks!Down(gate) /\ quiet' = Asks!Down(quiet)
  BY DEF Asks!Tick, AgedControl, AgedRetry, AgedItem, AgedReceipt, AgedCall, AgedCache
<1>2. AsksTyped /\ CallsTrue /\ TokensApart /\ LeasesTrue /\ JobsKept /\ LatestIs
  BY DEF AsksKept
<1>3. /\ saved' \in ControlRecords /\ saved'.token = saved.token
      /\ jobs' \in [Jobs -> JobRecords] /\ \A j \in Jobs : jobs'[j].state = jobs[j].state
  BY <1>1, <1>2, AgedIs DEF AsksTyped
<1>4. /\ items' \in [Jobs -> [Names -> ItemRecords]]
      /\ \A j \in Jobs, n \in Names :
           items'[j][n].state = items[j][n].state /\ items'[j][n].token = items[j][n].token
  BY <1>1, <1>2, AgedIs DEF AsksTyped
<1>5. /\ current' \in [Names -> CurrentRecords] /\ \A n \in Names : current'[n].receipt = current[n].receipt
  BY <1>1, <1>2, AgedIs DEF AsksTyped, CurrentRecords
<1>6. /\ receipts' \in Seq(Receipts) /\ Len(receipts') = Len(receipts) /\ DOMAIN receipts' = DOMAIN receipts
      /\ \A r \in DOMAIN receipts :
           receipts'[r].name = receipts[r].name /\ receipts'[r].saved = receipts[r].saved
  <2>1. receipts \in Seq(Receipts) /\ DOMAIN receipts = 1 .. Len(receipts) /\ Len(receipts) \in Nat
    BY <1>2 DEF AsksTyped
  <2>2. \A r \in DOMAIN receipts : /\ AgedReceipt(receipts[r]) \in Receipts
                                   /\ AgedReceipt(receipts[r]).name = receipts[r].name
                                   /\ AgedReceipt(receipts[r]).saved = receipts[r].saved
    BY <2>1, AgedReceiptIs
  <2>3. receipts' \in [1 .. Len(receipts) -> Receipts]
    BY <1>1, <2>1, <2>2
  <2>4. receipts' \in Seq(Receipts) /\ Len(receipts') = Len(receipts)
    BY <2>1, <2>3
  <2> QED
    BY <1>1, <2>2, <2>4
<1>7. /\ call' \in [Asks!Callers -> CallRecords]
      /\ \A c \in Asks!Callers :
           /\ call'[c].pc = call[c].pc /\ call'[c].name = call[c].name
           /\ call'[c].job = call[c].job /\ call'[c].token = call[c].token
           /\ call'[c].result.kind = call[c].result.kind /\ call'[c].result.receipt = call[c].result.receipt
  BY <1>1, <1>2, AgedCallIs DEF AsksTyped
<1>8. /\ cache' \in [Names -> [until : 0 .. CacheTop, result : Results]]
      /\ \A n \in Names : cache'[n].until > 0 => cache[n].until > 0 /\ cache'[n].result = cache[n].result
  BY <1>1, <1>2, AgedCacheIs DEF AsksTyped
<1>9. gate' \in Asks!Left /\ gate' >= 0 /\ quiet' \in Asks!Left /\ quiet' >= 0
  BY <1>1, <1>2, DownLeft DEF AsksTyped
<1>10. AsksTyped'
  BY <1>1, <1>2, <1>3, <1>4, <1>5, <1>6, <1>7, <1>8, <1>9, MovesIs DEF AsksTyped, CurrentRecords
<1>11. CallsTrue'
  <2>1. CacheTrue'
    BY <1>2, <1>6, <1>8 DEF CallsTrue, CacheTrue, Proper
  <2>2. \A c \in Asks!Callers : CallTrue(c)'
    BY <1>2, <1>6, <1>7 DEF CallsTrue, CallTrue, Proper
  <2> QED
    BY <2>1, <2>2 DEF CallsTrue
<1>12. TokensApart'
  BY <1>2, <1>4, <1>7, TokensStay, AsksConstants
<1>13. /\ \A j \in Jobs : \A states : Asks!ItemsIn(j, states)' = Asks!ItemsIn(j, states)
       /\ Asks!Active' = Asks!Active /\ Asks!Active \subseteq Jobs
  BY <1>3, <1>4 DEF Asks!ItemsIn, Asks!Active
<1>14. JobsKept'
  BY <1>2, <1>3, <1>13 DEF JobsKept
<1>15. LeasesTrue'
  BY <1>2, <1>3, <1>4, <1>13 DEF LeasesTrue
<1>16. LatestIs'
  BY <1>2, <1>5, <1>6 DEF LatestIs
<1> QED
  BY <1>10, <1>11, <1>12, <1>14, <1>15, <1>16 DEF AsksKept

LEMMA CrashStep == AsksKept /\ Asks!Crash => AsksKept'
<1> SUFFICES ASSUME AsksKept, Asks!Crash PROVE AsksKept'
  OBVIOUS
<1> DEFINE place(c) == IF c = Worker /\ call[c].pc \notin {"off", "barred"} THEN "lost"
                       ELSE IF c = Worker THEN call[c].pc ELSE "off"
           floor == IF owed # {} THEN Backoff ELSE 0
           known == Asks!Min({quiet, saved.retry})
<1>1. /\ UNCHANGED <<saved, jobs, items, current, receipts>> /\ Asks!Costs
      /\ call' = [c \in Asks!Callers |-> Asks!At(place(c))]
      /\ cache' = [n \in Names |-> [until |-> 0, result |-> Asks!NoResult]]
      /\ gate' = 0 /\ ready' \in BOOLEAN /\ owed' = {} /\ quiet' = Asks!Max({known, floor})
  BY DEF Asks!Crash, Asks!durable
<1>2. AsksTyped /\ CallsTrue /\ TokensApart /\ LeasesTrue /\ JobsKept /\ LatestIs
  BY DEF AsksKept
<1>3. quiet' \in Asks!Left /\ quiet' >= 0
  <2>1. /\ quiet \in Asks!Left /\ quiet \in Int /\ saved.retry \in Asks!Left /\ saved.retry \in Int
        /\ floor \in Asks!Left /\ floor \in Int /\ floor >= 0
    <3>1. quiet \in Asks!Left /\ saved.retry \in Asks!Left
      BY <1>2 DEF AsksTyped, ControlRecords
    <3>2. Backoff \in Asks!Left /\ 0 \in Asks!Left /\ Backoff >= 0
      BY TopIs, UnsetLeft
    <3>3. \A x \in Asks!Left : x \in Int
      BY TopIs
    <3> QED
      BY <3>1, <3>2, <3>3
  <2> HIDE DEF floor
  <2>2. known \in Asks!Left /\ known \in Int
    BY <2>1, Smaller2
  <2> HIDE DEF known
  <2>3. quiet' \in {known, floor} /\ quiet' >= floor
    BY <1>1, <2>1, <2>2, Larger2
  <2>4. quiet' \in Int
    BY <2>1, <2>2, <2>3
  <2> QED
    BY <2>1, <2>2, <2>3, <2>4
<1>4. /\ call' \in [Asks!Callers -> CallRecords]
      /\ \A c \in Asks!Callers : call'[c].pc \in Away /\ call'[c].token = 0
      /\ \A c \in Asks!Callers \ {Worker} : call'[c].pc = "off"
  <2>1. /\ Away \subseteq Asks!Pcs /\ \A c \in Asks!Callers : place(c) \in Away
        /\ \A c \in Asks!Callers \ {Worker} : place(c) = "off"
    BY DEF Away, Asks!Pcs
  <2> HIDE DEF place
  <2> QED
    BY <1>1, <2>1, AtIs
<1>5. cache' \in [Names -> [until : 0 .. CacheTop, result : Results]]
  BY <1>1, NoResultIs, TopIs
<1>6. gate' \in Asks!Left /\ gate' >= 0
  BY <1>1, UnsetLeft
<1>7. AsksTyped'
  BY <1>1, <1>2, <1>3, <1>4, <1>5, <1>6, MovesIs DEF AsksTyped
<1>8. CallsTrue'
  <2>1. CacheTrue'
    BY <1>1 DEF CacheTrue
  <2>2. \A c \in Asks!Callers : CallTrue(c)'
    BY <1>4, AsksConstants DEF CallTrue, Away, Worked
  <2> QED
    BY <2>1, <2>2 DEF CallsTrue
<1>9. TokensApart' /\ LeasesTrue' /\ JobsKept' /\ LatestIs'
  BY <1>1, <1>2, <1>4, TokensStay, JobsStay, LatestStays, AsksConstants
<1> QED
  BY <1>7, <1>8, <1>9 DEF AsksKept

LEMMA AskStepKeeps == ASSUME AsksKept, NEW c \in Asks!Askers, Asks!AskStep(c) PROVE AsksKept'
<1>1. c \in Asks!Callers
  BY AsksConstants
<1> QED
  BY <1>1, EnterStep, AdmitStep, SendStep, AnswerGoodStep, AnswerBadStep, LimitedStep DEF Asks!AskStep

LEMMA AsksNext == AsksKept /\ [Asks!Next]_Asks!vars => AsksKept'
<1> SUFFICES ASSUME AsksKept, [Asks!Next]_Asks!vars PROVE AsksKept'
  OBVIOUS
<1>1. Worker \in Asks!Askers /\ Singles \subseteq Asks!Askers /\ History \in Asks!Callers
  BY AsksConstants
<1>2. CASE Asks!WorkerStep
  BY <1>1, <1>2, ClaimStops, ClaimReusedStep, ClaimLeaseStep, LookStep, AskStepKeeps, FinishStep, FinishStaleStep
     DEF Asks!WorkerStep, Asks!WorkerClaims
<1>3. CASE \E s \in Singles : Asks!SingleStep(s) \/ \E n \in Names : Asks!SingleClaim(s, n)
  BY <1>1, <1>3, AskStepKeeps, FinishSingleStep, SingleClaimStep DEF Asks!SingleStep
<1>4. CASE Asks!HistoryOpens \/ Asks!HistoryStep
  BY <1>1, <1>4, HistoryOpensStep, SendStep, HistoryAnsweredStep, LimitedStep DEF Asks!HistoryStep
<1>5. CASE Asks!OperatorStep
  BY <1>5, StartStep, StartAgainStep, ClearLeaseStep, ResumeStep, CancelStep DEF Asks!OperatorStep
<1>6. CASE UNCHANGED Asks!vars
  <2>1. UNCHANGED <<saved, jobs, items, current, receipts, call, cache, gate, ready, owed, quiet, moves>>
    BY <1>6 DEF Asks!vars, Asks!durable, Asks!process, Asks!history
  <2>2. AsksTyped' /\ CallsTrue'
    BY <2>1, CallsStay DEF AsksKept, AsksTyped
  <2>3. /\ \A c \in Asks!Askers : call'[c].token \in {call[c].token, 0}
        /\ \A j \in Jobs : jobs'[j].state = jobs[j].state
    BY <2>1
  <2> QED
    BY <2>1, <2>2, <2>3, Moved
<1> QED
  BY <1>2, <1>3, <1>4, <1>5, <1>6, TickStep, CrashStep, ReconcileStep, FinishFailsStep DEF Asks!Next

LEMMA AsksKeptHolds == Asks!Spec => []AsksKept
  BY AsksInit, AsksNext, PTL DEF Asks!Spec

\* The strengthened invariant says what the run checks.
LEMMA AsksKeptSays == AsksKept => Asks!AsksInv
<1> SUFFICES ASSUME AsksKept PROVE Asks!AsksInv
  OBVIOUS
<1>1. AsksTyped /\ CallsTrue /\ TokensApart /\ LeasesTrue /\ JobsKept /\ LatestIs
  BY DEF AsksKept
<1>2. Asks!TypeOK
  <2>1. \A r \in DOMAIN receipts : receipts[r] \in [name : Names, age : 0 .. Fresh + 1, saved : BOOLEAN]
    <3>1. receipts \in Seq(Receipts)
      BY <1>1 DEF AsksTyped
    <3>2. \A r \in DOMAIN receipts : receipts[r] \in Receipts
      BY <3>1
    <3> QED
      BY <3>2 DEF Receipts
  <2>2. \A c \in Asks!Callers : call[c].pc \in Asks!Pcs /\ call[c].result.kind \in Asks!Kinds
    BY <1>1 DEF AsksTyped, CallRecords, Results
  <2>3. \A n \in Names : cache[n].until \in 0 .. Asks!Max({Remember, Negative}) /\ cache[n].result.kind \in Asks!Kinds
    BY <1>1 DEF AsksTyped, Results, CacheTop
  <2> QED
    BY <1>1, <2>1, <2>2, <2>3 DEF Asks!TypeOK, AsksTyped, ControlRecords, JobRecords, ItemRecords
<1>3. Asks!JobsTrue
  <2>1. Cardinality(Asks!Active) <= 1
    <3>1. CASE Asks!Active = {}
      BY <3>1, FS_EmptySet
    <3>2. ASSUME NEW j \in Asks!Active PROVE Cardinality(Asks!Active) = 1
      <4>1. Asks!Active = {j}
        BY <1>1 DEF JobsKept
      <4> QED
        BY <4>1, FS_Singleton
    <3> QED
      BY <3>1, <3>2
  <2>2. Asks!Cardinality(Asks!Active) = Cardinality(Asks!Active)
    BY DEF Asks!Cardinality, Cardinality
  <2> QED
    BY <1>1, <2>1, <2>2 DEF Asks!JobsTrue, JobsKept
<1>4. Asks!LeaseHeld
  <2> SUFFICES ASSUME NEW j \in Asks!Active
               PROVE  /\ Cardinality(Asks!ItemsIn(j, {"leased"})) <= 1
                      /\ \A n \in Asks!ItemsIn(j, {"leased"}) : saved.token = items[j][n].token
    BY DEF Asks!LeaseHeld, Asks!Cardinality, Cardinality
  <2>1. /\ j \in Jobs
        /\ \A n \in Asks!ItemsIn(j, {"leased"}) :
             n \in Names /\ saved.token = items[j][n].token /\ items[j][n].token # 0
    BY <1>1 DEF LeasesTrue, Asks!Active, Asks!ItemsIn
  <2>2. \A n, m \in Asks!ItemsIn(j, {"leased"}) : n = m
    BY <1>1, <2>1 DEF TokensApart
  <2>3. CASE Asks!ItemsIn(j, {"leased"}) = {}
    BY <2>3, FS_EmptySet
  <2>4. ASSUME NEW n \in Asks!ItemsIn(j, {"leased"}) PROVE Cardinality(Asks!ItemsIn(j, {"leased"})) = 1
    <3>1. Asks!ItemsIn(j, {"leased"}) = {n}
      BY <2>2
    <3> QED
      BY <3>1, FS_Singleton
  <2> QED
    BY <2>1, <2>3, <2>4
<1>5. Asks!LatestKept
  <2> SUFFICES ASSUME NEW n \in Names
               PROVE  current[n].receipt =
                        Asks!Max({r \in DOMAIN receipts : receipts[r].name = n /\ receipts[r].saved} \cup {0})
    BY DEF Asks!LatestKept
  <2> DEFINE S == {r \in DOMAIN receipts : receipts[r].name = n /\ receipts[r].saved} \cup {0}
             latest == current[n].receipt
  <2>1. S \subseteq Nat /\ latest \in Nat
    BY <1>1, AsksConstants DEF AsksTyped
  <2>2. latest \in S /\ \A r \in S : latest >= r
    BY <1>1, <2>1 DEF LatestIs
  <2> HIDE DEF S, latest
  <2>3. \A x \in S : (\A r \in S : x >= r) => x = latest
    <3> SUFFICES ASSUME NEW x \in S, \A r \in S : x >= r PROVE x = latest
      OBVIOUS
    <3>1. x >= latest /\ latest >= x /\ x \in Nat
      BY <2>1, <2>2
    <3> QED
      BY <2>1, <3>1
  <2>4. Asks!Max(S) = latest
    BY <2>2, <2>3 DEF Asks!Max
  <2> QED
    BY <2>4 DEF S, latest
<1> QED
  BY <1>2, <1>3, <1>4, <1>5 DEF Asks!AsksInv

\* AsksInv, for any held items, askers and job slots: the saved state of the asks is whole
\* between any two transactions, crashes and stale answers included (steam_held_asks.py).
THEOREM AsksHold == Asks!Spec => []AsksInv
  BY AsksKeptHolds, AsksKeptSays, PTL DEF AsksInv

-----------------------------------------------------------------------------
(* Silence.  What is demanded is in the gate or on record, and nobody has  *)
(* the slot while it is not in the gate, or while a request is out.        *)

StaysQuiet ==
    /\ OwedTrue' /\ SilenceHeld' /\ SlotQuiet'
    /\ \A c \in Asks!Callers : call[c].pc = "slot" /\ call'[c].pc = "wire" => quiet = 0

LEMMA DeadlinesAre ==
    /\ AsksKept => /\ quiet \in Int /\ gate \in Int /\ saved.retry \in Int /\ quiet >= 0 /\ gate >= 0
    /\ AsksKept' => /\ quiet' \in Int /\ gate' \in Int /\ saved'.retry \in Int /\ quiet' >= 0 /\ gate' >= 0
<1>1. \A x \in Asks!Left : x \in Int
  BY TopIs
<1>2. AsksKept => quiet \in Asks!Left /\ gate \in Asks!Left /\ saved.retry \in Asks!Left /\ quiet >= 0 /\ gate >= 0
  BY DEF AsksKept, AsksTyped, ControlRecords
<1>3. AsksKept' =>
        quiet' \in Asks!Left /\ gate' \in Asks!Left /\ saved'.retry \in Asks!Left /\ quiet' >= 0 /\ gate' >= 0
  BY DEF AsksKept, AsksTyped, ControlRecords
<1> QED
  BY <1>1, <1>2, <1>3

\* Where a caller goes.
LEMMA Placed ==
    ASSUME AsksKept, NEW c \in Asks!Callers
    PROVE  /\ \A pc : Asks!Goes(c, pc) =>
                /\ \A d \in Asks!Callers \ {c} : call'[d] = call[d]
                /\ call'[c].pc = pc /\ call'[c].token = 0
           /\ \A pc : Asks!GoesOn(c, pc) =>
                /\ \A d \in Asks!Callers \ {c} : call'[d] = call[d]
                /\ call'[c].pc = pc /\ call'[c].token = call[c].token
           /\ \A result : Asks!Answers(c, result) =>
                /\ \A d \in Asks!Callers \ {c} : call'[d] = call[d]
                /\ call'[c].pc = "done" /\ call'[c].token = call[c].token
<1>1. call \in [Asks!Callers -> CallRecords]
  BY DEF AsksKept, AsksTyped
<1>2. ASSUME NEW pc, Asks!Goes(c, pc)
      PROVE  /\ \A d \in Asks!Callers \ {c} : call'[d] = call[d]
             /\ call'[c].pc = pc /\ call'[c].token = 0
  BY <1>1, <1>2 DEF Asks!Goes, Asks!At, Asks!Call
<1>3. ASSUME NEW pc, Asks!GoesOn(c, pc)
      PROVE  /\ \A d \in Asks!Callers \ {c} : call'[d] = call[d]
             /\ call'[c].pc = pc /\ call'[c].token = call[c].token
  BY <1>1, <1>3 DEF Asks!GoesOn, CallRecords
<1>4. ASSUME NEW result, Asks!Answers(c, result)
      PROVE  /\ \A d \in Asks!Callers \ {c} : call'[d] = call[d]
             /\ call'[c].pc = "done" /\ call'[c].token = call[c].token
  BY <1>1, <1>4 DEF Asks!Answers, CallRecords
<1> QED
  BY <1>2, <1>3, <1>4

\* At most one caller moves, nobody gets the slot, and no deadline comes nearer.
LEMMA QuietStays ==
    ASSUME SilenceKept, AsksKept', UNCHANGED <<owed, quiet, ready>>, gate' >= gate,
           saved'.token = saved.token, saved'.orphan = saved.orphan, saved'.retry >= saved.retry,
           NEW c \in Asks!Callers, \A d \in Asks!Callers \ {c} : call'[d] = call[d],
           \/ call'[c] = call[c]
           \/ /\ call'[c].pc \notin {"slot", "wire"}
              /\ c \in Asks!Askers => call'[c].token \in {call[c].token, 0}
              /\ c \in owed => call'[c].token = 0 \/ call'[c].pc = "done"
              /\ ready \/ call'[c].pc \in Away
    PROVE  StaysQuiet
<1>1. AsksKept /\ OwedTrue /\ SilenceHeld /\ SlotQuiet /\ owed \subseteq Asks!Askers /\ Asks!Askers \subseteq Asks!Callers
  BY AsksConstants DEF SilenceKept, AsksKept, AsksTyped
<1>2. /\ quiet \in Int /\ gate \in Int /\ saved.retry \in Int /\ gate' \in Int /\ saved'.retry \in Int
  BY <1>1, DeadlinesAre
<1>3. /\ \A d \in Asks!Callers : call'[d].pc \in {"slot", "wire"} => call'[d].pc = call[d].pc
      /\ \A d \in Asks!Askers : call'[d].token \in {call[d].token, 0}
      /\ \A d \in owed : \/ call'[d].token = 0 \/ call'[d].pc = "done"
                         \/ call'[d] = call[d]
      /\ ready \/ \A d \in Asks!Callers : call'[d].pc \in Away \/ call'[d] = call[d]
  BY <1>1
<1>4. OwedTrue'
  BY <1>1, <1>3 DEF OwedTrue
<1>5. SilenceHeld'
  <2>1. ready => quiet' <= gate' \/ quiet' <= saved'.retry
    BY <1>1, <1>2 DEF SilenceHeld
  <2>2. ~ready => \A d \in Asks!Callers : call'[d].pc \in Away
    BY <1>1, <1>3 DEF SilenceHeld
  <2>3. ~ready => \/ quiet' = 0 \/ quiet' <= saved'.retry
                  \/ quiet' <= Backoff /\ saved'.token # 0 /\ ~saved'.orphan
    BY <1>1, <1>2 DEF SilenceHeld
  <2> QED
    BY <2>1, <2>2, <2>3 DEF SilenceHeld
<1>6. SlotQuiet'
  <2>1. \A d \in Asks!Callers : call'[d].pc = "slot" => owed' = {} /\ quiet' <= gate'
    BY <1>1, <1>2, <1>3 DEF SlotQuiet
  <2>2. \A d, e \in Asks!Callers : {call'[d].pc, call'[e].pc} \subseteq {"slot", "wire"} => d = e
    BY <1>1, <1>3 DEF SlotQuiet
  <2> QED
    BY <2>1, <2>2 DEF SlotQuiet
<1>7. \A d \in Asks!Callers : ~(call[d].pc = "slot" /\ call'[d].pc = "wire")
  BY <1>3
<1> QED
  BY <1>4, <1>5, <1>6, <1>7 DEF StaysQuiet

\* An asker that has not sent is not owed an outcome; whoever is in a call is of a process at work.
LEMMA Unsent ==
    ASSUME SilenceKept, NEW c \in Asks!Callers, call[c].pc \in Worked \cup {"loop"}
    PROVE  /\ ready
           /\ c \in owed => c \in Asks!Askers /\ call[c].pc \in {"wire", "done", "loop"}
<1>1. AsksKept /\ OwedTrue /\ SilenceHeld /\ owed \subseteq Asks!Askers
  BY DEF SilenceKept, AsksKept, AsksTyped
<1>2. call[c].pc \notin Away
  BY DEF Away, Worked
<1>3. ready
  BY <1>1, <1>2 DEF SilenceHeld
<1>4. ASSUME c \in owed, call[c].pc \in Worked PROVE call[c].pc \in {"wire", "done"}
  BY <1>1, <1>4 DEF OwedTrue, AsksKept, CallsTrue, CallTrue
<1> QED
  BY <1>1, <1>3, <1>4

LEMMA ClaimsQuiet ==
    ASSUME SilenceKept, AsksKept',
           \/ Asks!ClaimIdle \/ \E j \in Jobs : \/ Asks!ClaimLeased(j) \/ Asks!ClaimPaused(j) \/ Asks!ClaimCooling(j)
                                                \/ Asks!ClaimBarred(j) \/ \E n \in Names : Asks!ClaimReused(j, n)
    PROVE  StaysQuiet
<1>1. /\ UNCHANGED <<saved, gate, ready, owed, quiet>> /\ call[Worker].pc = "loop" /\ ready
      /\ call' = call \/ \E pc \in Away : Asks!Goes(Worker, pc)
  BY DEF Asks!ClaimIdle, Asks!ClaimLeased, Asks!ClaimPaused, Asks!ClaimCooling, Asks!ClaimBarred, Asks!ClaimReused,
         Asks!Going, Asks!Claims, Asks!process, Asks!history, Away
<1>2. AsksKept /\ Worker \in Asks!Callers /\ gate \in Int /\ saved.retry \in Int
  BY AsksConstants, DeadlinesAre DEF SilenceKept
<1>3. /\ \A d \in Asks!Callers \ {Worker} : call'[d] = call[d]
      /\ call'[Worker] = call[Worker] \/ (call'[Worker].pc \in Away /\ call'[Worker].token = 0)
  BY <1>1, <1>2, Placed
<1>4. Away \cap {"slot", "wire"} = {} /\ gate' >= gate /\ saved'.retry >= saved.retry
  BY <1>1, <1>2 DEF Away
<1> QED
  BY <1>1, <1>2, <1>3, <1>4, QuietStays

\* The lease is free: nobody is owed an outcome.
LEMMA LeaseQuiet ==
    ASSUME SilenceKept, AsksKept', ready, saved.token = 0, NEW t \in Asks!Tokens, saved' = Asks!Granted(t),
           UNCHANGED <<gate, ready, owed, quiet>>, NEW c \in Asks!Askers,
           \A d \in Asks!Callers \ {c} : call'[d] = call[d], call'[c].pc \notin {"slot", "wire"}
    PROVE  StaysQuiet
<1>1. AsksKept /\ OwedTrue /\ SilenceHeld /\ SlotQuiet /\ saved \in ControlRecords /\ owed = {}
  BY DEF SilenceKept, AsksKept, AsksTyped, OwedTrue
<1>2. saved'.retry = saved.retry
  BY <1>1, GrantedIs
<1>3. \A d \in Asks!Callers : call'[d].pc \in {"slot", "wire"} => call'[d].pc = call[d].pc
  OBVIOUS
<1>4. OwedTrue'
  BY <1>1 DEF OwedTrue
<1>5. SilenceHeld'
  BY <1>1, <1>2 DEF SilenceHeld
<1>6. SlotQuiet'
  BY <1>1, <1>3 DEF SlotQuiet
<1> QED
  BY <1>3, <1>4, <1>5, <1>6 DEF StaysQuiet

LEMMA ClaimLeaseQuiet ==
    ASSUME SilenceKept, AsksKept', NEW j \in Jobs, NEW n \in Names, Asks!ClaimLease(j, n)
    PROVE  StaysQuiet
<1>1. /\ UNCHANGED <<gate, ready, owed, quiet>> /\ ready /\ saved.token = 0
      /\ saved' = Asks!Granted(Asks!NextToken) /\ Asks!Tokens \ Asks!InUse # {}
      /\ call' = [call EXCEPT ![Worker] = Asks!Call("look", n, j, Asks!NextToken)]
  BY DEF Asks!ClaimLease, Asks!Going, Asks!Claims, Asks!process, Asks!history
<1>2. Worker \in Asks!Askers /\ Worker \in Asks!Callers /\ call \in [Asks!Callers -> CallRecords]
  BY AsksConstants DEF SilenceKept, AsksKept, AsksTyped
<1>3. PICK t \in Asks!Tokens : t = Asks!NextToken
  BY <1>1, TokenIsNew
<1>4. /\ \A d \in Asks!Callers \ {Worker} : call'[d] = call[d]
      /\ call'[Worker].pc \notin {"slot", "wire"}
  BY <1>1, <1>2 DEF Asks!Call
<1> QED
  BY <1>1, <1>2, <1>3, <1>4, LeaseQuiet

LEMMA SingleClaimQuiet ==
    ASSUME SilenceKept, AsksKept', NEW s \in Singles, NEW n \in Names, Asks!SingleClaim(s, n)
    PROVE  StaysQuiet
<1>1. /\ UNCHANGED <<gate, ready, owed, quiet>> /\ ready /\ saved.token = 0
      /\ saved' = Asks!Granted(Asks!NextToken) /\ Asks!Tokens \ Asks!InUse # {}
      /\ call' = [call EXCEPT ![s] = Asks!Call("service", n, None, Asks!NextToken)]
  BY DEF Asks!SingleClaim, Asks!process, Asks!history
<1>2. s \in Asks!Askers /\ s \in Asks!Callers /\ call \in [Asks!Callers -> CallRecords]
  BY AsksConstants DEF SilenceKept, AsksKept, AsksTyped
<1>3. PICK t \in Asks!Tokens : t = Asks!NextToken
  BY <1>1, TokenIsNew
<1>4. /\ \A d \in Asks!Callers \ {s} : call'[d] = call[d]
      /\ call'[s].pc \notin {"slot", "wire"}
  BY <1>1, <1>2 DEF Asks!Call
<1> QED
  BY <1>1, <1>2, <1>3, <1>4, LeaseQuiet

LEMMA LookQuiet == SilenceKept /\ AsksKept' /\ Asks!Look => StaysQuiet
<1> SUFFICES ASSUME SilenceKept, AsksKept', Asks!Look PROVE StaysQuiet
  OBVIOUS
<1>1. /\ UNCHANGED <<saved, gate, ready, owed, quiet>> /\ call[Worker].pc = "look"
      /\ Asks!GoesOn(Worker, "service") \/ \E result : Asks!Answers(Worker, result)
  BY DEF Asks!Look, Asks!Still, Asks!durable, Asks!process, Asks!history
<1>2. AsksKept /\ Worker \in Asks!Callers /\ gate \in Int /\ saved.retry \in Int
  BY AsksConstants, DeadlinesAre DEF SilenceKept
<1>3. /\ \A d \in Asks!Callers \ {Worker} : call'[d] = call[d]
      /\ call'[Worker].pc \in {"service", "done"} /\ call'[Worker].token = call[Worker].token
  BY <1>1, <1>2, Placed
<1>4. ready /\ Worker \notin owed
  BY <1>1, <1>2, Unsent DEF Worked
<1>5. gate' >= gate /\ saved'.retry >= saved.retry
  BY <1>1, <1>2
<1> QED
  BY <1>1, <1>2, <1>3, <1>4, <1>5, QuietStays

LEMMA EnterQuiet ==
    ASSUME SilenceKept, AsksKept', NEW c \in Asks!Askers, Asks!Enter(c)
    PROVE  StaysQuiet
<1>1. /\ UNCHANGED <<saved, gate, ready, owed, quiet>> /\ call[c].pc = "service"
      /\ Asks!GoesOn(c, "asking") \/ \E result : Asks!Answers(c, result)
  BY DEF Asks!Enter, Asks!Still, Asks!durable, Asks!process, Asks!history
<1>2. AsksKept /\ c \in Asks!Callers /\ gate \in Int /\ saved.retry \in Int
  BY AsksConstants, DeadlinesAre DEF SilenceKept
<1>3. /\ \A d \in Asks!Callers \ {c} : call'[d] = call[d]
      /\ call'[c].pc \in {"asking", "done"} /\ call'[c].token = call[c].token
  BY <1>1, <1>2, Placed
<1>4. ready /\ c \notin owed
  BY <1>1, <1>2, Unsent DEF Worked
<1>5. gate' >= gate /\ saved'.retry >= saved.retry
  BY <1>1, <1>2
<1> QED
  BY <1>1, <1>2, <1>3, <1>4, <1>5, QuietStays

\* The slot is taken when the control record demands no silence and no request is out.
LEMMA SlotTaken ==
    ASSUME SilenceKept, AsksKept', UNCHANGED <<saved, gate, ready, owed, quiet>>, NEW c \in Asks!Callers,
           ready, Asks!SlotFree, Asks!GoesOn(c, "slot"), owed = {}, saved.retry <= 0
    PROVE  StaysQuiet
<1>1. AsksKept /\ OwedTrue /\ SilenceHeld /\ SlotQuiet
  BY DEF SilenceKept
<1>2. quiet \in Int /\ gate \in Int /\ saved.retry \in Int /\ quiet >= 0 /\ gate >= 0
  BY <1>1, DeadlinesAre
<1>3. /\ \A d \in Asks!Callers \ {c} : call'[d] = call[d] /\ call'[d].pc \notin {"slot", "wire"}
      /\ call'[c].pc = "slot"
  BY <1>1, Placed DEF Asks!SlotFree
<1>4. quiet <= gate
  BY <1>1, <1>2 DEF SilenceHeld
<1>5. OwedTrue' /\ SilenceHeld'
  BY <1>1, <1>4 DEF OwedTrue, SilenceHeld
<1>6. SlotQuiet'
  BY <1>3, <1>4 DEF SlotQuiet
<1> QED
  BY <1>3, <1>5, <1>6 DEF StaysQuiet

LEMMA AdmitQuiet ==
    ASSUME SilenceKept, AsksKept', NEW c \in Asks!Askers, Asks!Admit(c)
    PROVE  StaysQuiet
<1>1. /\ UNCHANGED <<saved, ready, owed, quiet>> /\ call[c].pc = "asking" /\ Asks!SlotFree
      /\ gate' \in {gate, Asks!GateAfter(Asks!BlockedUntil)}
      /\ \/ ~Asks!Blocks(call[c].token) /\ UNCHANGED gate /\ Asks!GoesOn(c, "slot")
         \/ \E result : Asks!Answers(c, result)
  BY DEF Asks!Admit, Asks!durable, Asks!history
<1>2. /\ AsksKept /\ AsksTyped /\ OwedTrue /\ c \in Asks!Callers /\ gate \in Int /\ saved.retry \in Int
      /\ owed \subseteq Asks!Askers
  BY AsksConstants, DeadlinesAre DEF SilenceKept, AsksKept, AsksTyped
<1>3. ready /\ c \notin owed
  BY <1>1, <1>2, Unsent DEF Worked
<1>4. CASE ~Asks!Blocks(call[c].token) /\ UNCHANGED gate /\ Asks!GoesOn(c, "slot")
  <2>1. saved.retry <= 0 /\ (saved.token = 0 \/ call[c].token = saved.token)
    BY <1>2, <1>4 DEF Asks!Blocks
  <2>2. owed = {}
    BY <1>2, <1>3, <2>1 DEF OwedTrue
  <2> QED
    BY <1>1, <1>2, <1>3, <1>4, <2>1, <2>2, SlotTaken
<1>5. ASSUME NEW result, Asks!Answers(c, result) PROVE StaysQuiet
  <2>1. Asks!BlockedUntil \in Asks!Left
    BY <1>2, BlockedUntilIs
  <2>2. gate' >= gate /\ saved'.retry >= saved.retry
    BY <1>1, <1>2, <2>1, GateAfterIs
  <2>3. /\ \A d \in Asks!Callers \ {c} : call'[d] = call[d]
        /\ call'[c].pc = "done" /\ call'[c].token = call[c].token
    BY <1>2, <1>5, Placed
  <2> QED
    BY <1>1, <1>2, <1>3, <2>2, <2>3, QuietStays
<1> QED
  BY <1>1, <1>4, <1>5

LEMMA HistoryOpensQuiet == SilenceKept /\ AsksKept' /\ Asks!HistoryOpens => StaysQuiet
<1> SUFFICES ASSUME SilenceKept, AsksKept', Asks!HistoryOpens PROVE StaysQuiet
  OBVIOUS
<1>1. /\ UNCHANGED <<saved, ready, owed, quiet>> /\ ready /\ Asks!SlotFree
      /\ gate' \in {gate, Asks!GateAfter(Asks!BlockedUntil)}
      /\ \/ ~Asks!Blocks(0) /\ UNCHANGED gate /\ Asks!GoesOn(History, "slot")
         \/ call' = call
  BY DEF Asks!HistoryOpens, Asks!durable, Asks!history
<1>2. AsksKept /\ AsksTyped /\ OwedTrue /\ History \in Asks!Callers /\ gate \in Int /\ saved.retry \in Int
  BY AsksConstants, DeadlinesAre DEF SilenceKept, AsksKept
<1>3. CASE ~Asks!Blocks(0) /\ UNCHANGED gate /\ Asks!GoesOn(History, "slot")
  <2>1. saved.retry <= 0 /\ saved.token = 0
    BY <1>2, <1>3 DEF Asks!Blocks
  <2>2. owed = {}
    BY <1>2, <2>1 DEF OwedTrue
  <2> QED
    BY <1>1, <1>2, <1>3, <2>1, <2>2, SlotTaken
<1>4. CASE call' = call
  <2>1. Asks!BlockedUntil \in Asks!Left
    BY <1>2, BlockedUntilIs
  <2>2. gate' >= gate /\ saved'.retry >= saved.retry
    BY <1>1, <1>2, <2>1, GateAfterIs
  <2> QED
    BY <1>1, <1>2, <1>4, <2>2, QuietStays
<1> QED
  BY <1>1, <1>3, <1>4

LEMMA SendQuiet ==
    ASSUME SilenceKept, AsksKept', NEW c \in Asks!Callers, Asks!Send(c)
    PROVE  StaysQuiet
<1>1. /\ UNCHANGED <<saved, gate, ready, quiet>> /\ call[c].pc = "slot"
      /\ \/ /\ Asks!Goes(c, "off") \/ \E result : Asks!Answers(c, result)
            /\ UNCHANGED owed
         \/ /\ Asks!GoesOn(c, "wire") /\ ~(gate > 0)
            /\ owed' = IF c \in Asks!Askers /\ Asks!Holds(call[c].token) THEN owed \cup {c} ELSE owed
  BY DEF Asks!Send, Asks!durable, Asks!process
<1>2. /\ AsksKept /\ OwedTrue /\ SilenceHeld /\ SlotQuiet /\ TokensApart /\ CallsTrue
      /\ quiet \in Int /\ gate \in Int /\ saved.retry \in Int /\ quiet >= 0
  BY DeadlinesAre DEF SilenceKept, AsksKept
<1>3. ready /\ owed = {} /\ quiet <= gate
  BY <1>1, <1>2, Unsent DEF SlotQuiet, Worked
<1>4. CASE UNCHANGED owed /\ (Asks!Goes(c, "off") \/ \E result : Asks!Answers(c, result))
  <2>1. /\ \A d \in Asks!Callers \ {c} : call'[d] = call[d]
        /\ call'[c].pc \in {"off", "done"} /\ call'[c].token \in {call[c].token, 0}
    BY <1>2, <1>4, Placed
  <2>2. gate' >= gate /\ saved'.retry >= saved.retry
    BY <1>1, <1>2
  <2> QED
    BY <1>1, <1>3, <1>4, <2>1, <2>2, QuietStays
<1>5. CASE /\ Asks!GoesOn(c, "wire") /\ ~(gate > 0)
           /\ owed' = IF c \in Asks!Askers /\ Asks!Holds(call[c].token) THEN owed \cup {c} ELSE owed
  <2>1. /\ \A d \in Asks!Callers \ {c} : call'[d] = call[d]
        /\ call'[c].pc = "wire" /\ call'[c].token = call[c].token
    BY <1>2, <1>5, Placed
  <2>2. quiet = 0
    BY <1>2, <1>3, <1>5
  <2>3. \A d \in Asks!Callers \ {c} : call[d].pc \notin {"slot", "wire"}
    BY <1>1, <1>2 DEF SlotQuiet
  <2>4. SlotQuiet'
    BY <2>1, <2>3 DEF SlotQuiet
  <2>5. SilenceHeld'
    BY <1>1, <1>2, <1>3 DEF SilenceHeld
  <2>6. OwedTrue'
    <3>1. CASE owed' = {}
      BY <3>1 DEF OwedTrue
    <3>2. CASE owed' # {}
      <4>1. owed' = {c} /\ c \in Asks!Askers /\ saved.token = call[c].token /\ ~saved.orphan
        BY <1>3, <1>5, <3>2 DEF Asks!Holds
      <4>2. call[c].token # 0
        BY <1>1, <1>2, <4>1 DEF CallsTrue, CallTrue, Worked
      <4>3. \A d \in Asks!Askers : call'[d].token = saved'.token => d = c
        BY <1>1, <1>2, <2>1, <4>1, <4>2, AsksConstants DEF TokensApart
      <4> QED
        BY <1>1, <1>3, <2>1, <4>1, <4>2, <4>3 DEF OwedTrue
    <3> QED
      BY <3>1, <3>2
  <2> QED
    BY <2>2, <2>4, <2>5, <2>6 DEF StaysQuiet
<1> QED
  BY <1>1, <1>4, <1>5

LEMMA AnsweredQuiet ==
    ASSUME SilenceKept, AsksKept', NEW c \in Asks!Askers, Asks!AnswerGood(c) \/ Asks!AnswerBad(c)
    PROVE  StaysQuiet
<1>1. /\ UNCHANGED <<saved, gate, ready, owed, quiet>> /\ call[c].pc = "wire"
      /\ \E result : Asks!Answers(c, result)
  BY DEF Asks!AnswerGood, Asks!AnswerBad, Asks!durable, Asks!history
<1>2. AsksKept /\ c \in Asks!Callers /\ gate \in Int /\ saved.retry \in Int
  BY AsksConstants, DeadlinesAre DEF SilenceKept
<1>3. /\ \A d \in Asks!Callers \ {c} : call'[d] = call[d]
      /\ call'[c].pc = "done" /\ call'[c].token = call[c].token
  BY <1>1, <1>2, Placed
<1>4. ready
  BY <1>1, <1>2, Unsent DEF Worked
<1>5. gate' >= gate /\ saved'.retry >= saved.retry
  BY <1>1, <1>2
<1> QED
  BY <1>1, <1>2, <1>3, <1>4, <1>5, QuietStays

LEMMA HistoryAnsweredQuiet == SilenceKept /\ AsksKept' /\ Asks!HistoryAnswered => StaysQuiet
<1> SUFFICES ASSUME SilenceKept, AsksKept', Asks!HistoryAnswered PROVE StaysQuiet
  OBVIOUS
<1>1. UNCHANGED <<saved, gate, ready, owed, quiet>> /\ Asks!Goes(History, "off")
  BY DEF Asks!HistoryAnswered, Asks!Still, Asks!durable, Asks!process, Asks!history
<1>2. /\ AsksKept /\ History \in Asks!Callers /\ History \notin Asks!Askers /\ owed \subseteq Asks!Askers
      /\ gate \in Int /\ saved.retry \in Int
  BY AsksConstants, DeadlinesAre DEF SilenceKept, AsksKept, AsksTyped
<1>3. /\ \A d \in Asks!Callers \ {History} : call'[d] = call[d]
      /\ call'[History].pc = "off"
  BY <1>1, <1>2, Placed
<1>4. gate' >= gate /\ saved'.retry >= saved.retry
  BY <1>1, <1>2
<1> QED
  BY <1>1, <1>2, <1>3, <1>4, QuietStays DEF Away

\* A 429 demands silence that the gate knows at once.
LEMMA LimitedQuiet ==
    ASSUME SilenceKept, AsksKept', NEW c \in Asks!Callers, Asks!Limited(c)
    PROVE  StaysQuiet
<1>1. /\ AsksKept /\ AsksTyped /\ OwedTrue /\ SilenceHeld /\ SlotQuiet /\ saved \in ControlRecords
      /\ quiet \in Int /\ gate \in Int /\ saved.retry \in Int /\ quiet >= 0
      /\ quiet' \in Int /\ gate' \in Int /\ saved'.retry \in Int
      /\ owed \subseteq Asks!Askers /\ Asks!Askers \subseteq Asks!Callers /\ saved.retry \in Asks!Left
      /\ gate' \in Asks!Left
  BY DeadlinesAre, AsksConstants DEF SilenceKept, AsksKept, AsksTyped, ControlRecords
<1>2. /\ UNCHANGED <<ready, owed>> /\ call[c].pc = "wire"
      /\ saved' \in {[saved EXCEPT !.retry = Asks!Raised(gate')], saved}
      /\ Asks!Goes(c, "off") \/ \E result : Asks!Answers(c, result)
  BY DEF Asks!Limited
<1>3. PICK demand \in RetryAfter \cup {Backoff} :
        gate' = Asks!GateAfter(demand) /\ quiet' = Asks!Max({quiet, demand})
  BY DEF Asks!Limited
<1>4. demand \in Asks!Left /\ demand \in Int
  BY TopIs
<1>5. gate' >= gate /\ gate' >= demand /\ quiet' \in {quiet, demand}
  BY <1>1, <1>3, <1>4, GateAfterIs, Larger2
<1>6. saved'.token = saved.token /\ saved'.orphan = saved.orphan /\ saved'.retry >= saved.retry
  <2>1. Asks!Raised(gate') \in Asks!Left /\ Asks!Raised(gate') >= saved.retry
    BY <1>1, RaisedTo
  <2>2. CASE saved' = saved
    BY <1>1, <2>2
  <2>3. CASE saved' = [saved EXCEPT !.retry = Asks!Raised(gate')]
    BY <1>1, <2>1, <2>3, RetryIs
  <2> QED
    BY <1>2, <2>2, <2>3
<1>7. ready
  BY <1>1, <1>2, Unsent DEF Worked
<1>8. /\ \A d \in Asks!Callers \ {c} : call'[d] = call[d]
      /\ call'[c].pc \in {"off", "done"} /\ call'[c].token \in {call[c].token, 0}
      /\ call'[c].pc = "done" \/ call'[c].token = 0
  BY <1>1, <1>2, Placed
<1>9. \A d \in Asks!Callers : call'[d].pc \notin {"slot", "wire"}
  <2>1. \A d \in Asks!Callers \ {c} : call[d].pc \notin {"slot", "wire"}
    BY <1>1, <1>2 DEF SlotQuiet
  <2> QED
    BY <1>8, <2>1
<1>10. SlotQuiet'
  BY <1>9 DEF SlotQuiet
<1>11. SilenceHeld'
  BY <1>1, <1>2, <1>5, <1>6, <1>7 DEF SilenceHeld
<1>12. OwedTrue'
  BY <1>1, <1>2, <1>6, <1>7, <1>8 DEF OwedTrue
<1> QED
  BY <1>9, <1>10, <1>11, <1>12 DEF StaysQuiet

\* An outcome is saved: its request is out no longer, and only its own lease is given up.
LEMMA SettledQuiet ==
    ASSUME SilenceKept, AsksKept', NEW c \in Asks!Askers, call[c].pc = "done", NEW pc \in {"off", "loop"},
           Asks!Goes(c, pc), owed' = owed \ {c}, UNCHANGED <<quiet, gate, ready>>, saved'.retry >= saved.retry,
           saved.token # call[c].token => saved'.token = saved.token /\ saved'.orphan = saved.orphan
    PROVE  StaysQuiet
<1>1. /\ AsksKept /\ OwedTrue /\ SilenceHeld /\ SlotQuiet /\ c \in Asks!Callers /\ Asks!Askers \subseteq Asks!Callers
      /\ owed \subseteq Asks!Askers
      /\ quiet \in Int /\ gate \in Int /\ saved.retry \in Int /\ saved'.retry \in Int
  BY DeadlinesAre, AsksConstants DEF SilenceKept, AsksKept, AsksTyped
<1>2. /\ \A d \in Asks!Callers \ {c} : call'[d] = call[d]
      /\ call'[c].pc = pc /\ call'[c].token = 0
  BY <1>1, Placed
<1>3. ready
  BY <1>1, Unsent DEF Worked
<1>4. \A d \in Asks!Callers : call'[d].pc \in {"slot", "wire"} => call'[d].pc = call[d].pc
  BY <1>2
<1>5. SlotQuiet'
  BY <1>1, <1>4 DEF SlotQuiet
<1>6. SilenceHeld'
  BY <1>1, <1>3 DEF SilenceHeld
<1>7. OwedTrue'
  <2>1. CASE owed' = {}
    BY <2>1 DEF OwedTrue
  <2>2. CASE owed' # {}
    <3>1. PICK d \in owed : d # c
      BY <2>2
    <3>2. c \notin owed /\ owed' = owed
      BY <1>1, <3>1 DEF OwedTrue
    <3>3. saved.token # call[c].token
      BY <1>1, <3>1, <3>2 DEF OwedTrue
    <3> QED
      BY <1>1, <1>2, <3>1, <3>2, <3>3 DEF OwedTrue
  <2> QED
    BY <2>1, <2>2
<1> QED
  BY <1>4, <1>5, <1>6, <1>7 DEF StaysQuiet

\* What saving an outcome makes of the control record.
LEMMA SettledControl ==
    ASSUME saved \in ControlRecords, NEW result \in Results, NEW t, saved' = Asks!Released(Asks!ControlAfter(result), t)
    PROVE  /\ saved'.retry >= saved.retry
           /\ saved.token # t => saved'.token = saved.token /\ saved'.orphan = saved.orphan
  BY ControlAfterIs, ReleasedIs

LEMMA FinishSingleQuiet ==
    ASSUME SilenceKept, AsksKept', NEW s \in Singles, Asks!FinishSingle(s)
    PROVE  StaysQuiet
<1>1. /\ UNCHANGED <<gate, ready, quiet>> /\ owed' = owed \ {s} /\ call[s].pc = "done" /\ Asks!Goes(s, "off")
      /\ saved' = Asks!Released(Asks!ControlAfter(call[s].result), call[s].token)
  BY DEF Asks!FinishSingle, Asks!process
<1>2. /\ s \in Asks!Askers /\ call[s] \in CallRecords /\ saved \in ControlRecords
  BY AsksConstants DEF SilenceKept, AsksKept, AsksTyped
<1>3. call[s].result \in Results
  BY <1>2 DEF CallRecords
<1> QED
  BY <1>1, <1>2, <1>3, SettledControl, SettledQuiet

LEMMA FinishQuiet ==
    ASSUME SilenceKept, AsksKept', Asks!Finish \/ Asks!FinishStale
    PROVE  StaysQuiet
<1>1. /\ UNCHANGED <<gate, ready, quiet>> /\ owed' = owed \ {Worker}
      /\ call[Worker].pc = "done" /\ Asks!Goes(Worker, "loop")
      /\ \/ saved' = Asks!Released(Asks!ControlAfter(call[Worker].result), call[Worker].token)
         \/ saved' = saved
  BY DEF Asks!Finish, Asks!FinishStale, Asks!process
<1>2. /\ Worker \in Asks!Askers /\ call[Worker] \in CallRecords /\ saved \in ControlRecords /\ saved.retry \in Int
  BY AsksConstants, DeadlinesAre DEF SilenceKept, AsksKept, AsksTyped
<1>3. call[Worker].result \in Results
  BY <1>2 DEF CallRecords
<1>4. /\ saved'.retry >= saved.retry
      /\ saved.token # call[Worker].token => saved'.token = saved.token /\ saved'.orphan = saved.orphan
  BY <1>1, <1>2, <1>3, SettledControl
<1> QED
  BY <1>1, <1>2, <1>4, SettledQuiet

LEMMA FinishFailsQuiet ==
    ASSUME SilenceKept, AsksKept', NEW c \in Asks!Askers, Asks!FinishFails(c)
    PROVE  StaysQuiet
<1>1. UNCHANGED <<saved, gate, ready, owed, quiet>> /\ \E pc \in Away : Asks!Goes(c, pc)
  BY DEF Asks!FinishFails, Asks!process, Asks!history, Away
<1>2. AsksKept /\ c \in Asks!Callers /\ gate \in Int /\ saved.retry \in Int
  BY AsksConstants, DeadlinesAre DEF SilenceKept
<1>3. /\ \A d \in Asks!Callers \ {c} : call'[d] = call[d]
      /\ call'[c].pc \in Away /\ call'[c].token = 0
  BY <1>1, <1>2, Placed
<1>4. gate' >= gate /\ saved'.retry >= saved.retry
  BY <1>1, <1>2
<1> QED
  BY <1>1, <1>2, <1>3, <1>4, QuietStays DEF Away

\* The restart writes down what nobody saved.
LEMMA ReconcileQuiet == SilenceKept /\ AsksKept' /\ Asks!Reconcile => StaysQuiet
<1> SUFFICES ASSUME SilenceKept, AsksKept', Asks!Reconcile PROVE StaysQuiet
  OBVIOUS
<1>1. /\ UNCHANGED <<call, gate, owed, quiet>> /\ ~ready /\ ready'
      /\ \/ saved' = saved /\ (saved.token = 0 \/ saved.orphan)
         \/ saved'.retry = Asks!Raised(Backoff)
  <2>1. saved \in ControlRecords
    BY DEF SilenceKept, AsksKept, AsksTyped
  <2> QED
    BY <2>1 DEF Asks!Reconcile, Asks!history, ControlRecords
<1>2. /\ AsksKept /\ OwedTrue /\ SilenceHeld /\ SlotQuiet /\ saved.retry \in Asks!Left
      /\ quiet \in Int /\ gate \in Int /\ gate >= 0 /\ saved.retry \in Int /\ saved'.retry \in Int
  BY DeadlinesAre DEF SilenceKept, AsksKept, AsksTyped, ControlRecords
<1>3. Asks!Raised(Backoff) >= saved.retry /\ Asks!Raised(Backoff) >= Backoff /\ Backoff \in Int
  BY <1>2, RaisedTo, TopIs
<1>4. quiet <= gate \/ quiet <= saved'.retry
  <2>1. \/ quiet = 0 \/ quiet <= saved.retry
        \/ quiet <= Backoff /\ saved.token # 0 /\ ~saved.orphan
    BY <1>1, <1>2 DEF SilenceHeld
  <2>2. CASE saved' = saved /\ (saved.token = 0 \/ saved.orphan)
    BY <1>2, <2>1, <2>2
  <2>3. CASE saved'.retry = Asks!Raised(Backoff)
    BY <1>2, <1>3, <2>1, <2>3
  <2> QED
    BY <1>1, <2>2, <2>3
<1>5. SilenceHeld'
  BY <1>1, <1>4 DEF SilenceHeld
<1>6. OwedTrue' /\ SlotQuiet'
  BY <1>1, <1>2 DEF OwedTrue, SlotQuiet
<1> QED
  BY <1>1, <1>5, <1>6 DEF StaysQuiet

LEMMA StartQuiet ==
    ASSUME SilenceKept, AsksKept', Asks!StartAgain \/ \E unresolved \in SUBSET Names : Asks!Start(unresolved)
    PROVE  StaysQuiet
<1>1. UNCHANGED <<saved, gate, ready, owed, quiet>> /\ ready /\ Asks!Kicked
  BY DEF Asks!StartAgain, Asks!Start, Asks!durable, Asks!process, Asks!history
<1>2. AsksKept /\ AsksTyped /\ Worker \in Asks!Callers /\ gate \in Int /\ saved.retry \in Int
  BY AsksConstants, DeadlinesAre DEF SilenceKept, AsksKept
<1>3. /\ \A d \in Asks!Callers \ {Worker} : call'[d] = call[d]
      /\ call'[Worker] = call[Worker] \/ (call'[Worker].pc = "loop" /\ call'[Worker].token = 0)
  BY <1>1, <1>2, KickedIs DEF AsksTyped
<1>4. gate' >= gate /\ saved'.retry >= saved.retry
  BY <1>1, <1>2
<1> QED
  BY <1>1, <1>2, <1>3, <1>4, QuietStays

LEMMA CancelQuiet ==
    ASSUME SilenceKept, AsksKept', NEW j \in Jobs, Asks!Cancel(j)
    PROVE  StaysQuiet
<1>1. UNCHANGED <<saved, call, gate, ready, owed, quiet>>
  BY DEF Asks!Cancel, Asks!process, Asks!history
<1>2. Worker \in Asks!Callers /\ gate \in Int /\ saved.retry \in Int
  BY AsksConstants, DeadlinesAre DEF SilenceKept
<1>3. gate' >= gate /\ saved'.retry >= saved.retry
  BY <1>1, <1>2
<1> QED
  BY <1>1, <1>2, <1>3, QuietStays

\* A lease is taken back, after Backoff if its request may have met a 429.
LEMMA TakenQuiet ==
    ASSUME SilenceKept, AsksKept', Asks!TakenForLost, NEW b \in BOOLEAN, saved' = Asks!Dropped(Asks!Floor(b)),
           saved.token # 0 => b, UNCHANGED <<gate, ready>>,
           \A d \in Asks!Callers : \/ call'[d] = call[d]
                                   \/ ready /\ call'[d].pc = "loop"
    PROVE  StaysQuiet
<1>1. /\ AsksKept /\ AsksTyped /\ OwedTrue /\ SilenceHeld /\ SlotQuiet /\ saved \in ControlRecords
      /\ quiet \in Int /\ gate \in Int /\ saved.retry \in Int /\ quiet' \in Int /\ saved'.retry \in Int
  BY DeadlinesAre DEF SilenceKept, AsksKept, AsksTyped
<1>0. Backoff \in Int
  BY TopIs
<1>2. /\ saved'.retry >= saved.retry
      /\ saved.token # 0 /\ ~saved.orphan => saved'.retry >= Backoff
  BY <1>1, FloorIs, DroppedIs
<1>3. owed' = {} /\ (quiet' = quiet \/ (owed # {} /\ quiet' \in {quiet, Backoff}))
  BY <1>1, TakenIs
<1>4. OwedTrue'
  BY <1>3 DEF OwedTrue
<1>5. SlotQuiet'
  <2>1. \A d \in Asks!Callers : call'[d].pc \in {"slot", "wire"} => call'[d].pc = call[d].pc
    OBVIOUS
  <2> QED
    BY <1>1, <1>3, <2>1 DEF SlotQuiet
<1>6. SilenceHeld'
  <2>1. ready => quiet' <= gate' \/ quiet' <= saved'.retry
    BY <1>0, <1>1, <1>2, <1>3 DEF SilenceHeld, OwedTrue
  <2>2. ~ready => quiet' = quiet /\ \A d \in Asks!Callers : call'[d].pc \in Away
    BY <1>1, <1>3 DEF SilenceHeld, OwedTrue
  <2>3. ~ready => quiet' = 0 \/ quiet' <= saved'.retry
    BY <1>0, <1>1, <1>2, <2>2 DEF SilenceHeld
  <2> QED
    BY <2>1, <2>2, <2>3 DEF SilenceHeld
<1>7. \A d \in Asks!Callers : ~(call[d].pc = "slot" /\ call'[d].pc = "wire")
  OBVIOUS
<1> QED
  BY <1>4, <1>5, <1>6, <1>7 DEF StaysQuiet

LEMMA ResumeQuiet ==
    ASSUME SilenceKept, AsksKept', NEW j \in Jobs, Asks!Resume(j)
    PROVE  StaysQuiet
<1> DEFINE suspect == saved.token # 0 \/ Asks!ItemsIn(j, {"leased"}) # {}
<1>1. /\ UNCHANGED <<gate, ready>> /\ ready /\ Asks!Kicked /\ Asks!TakenForLost
      /\ saved' = Asks!Dropped(Asks!Floor(suspect)) /\ suspect \in BOOLEAN /\ (saved.token # 0 => suspect)
  BY DEF Asks!Resume, Asks!process
<1> HIDE DEF suspect
<1>2. \A d \in Asks!Callers : call'[d] = call[d] \/ call'[d].pc = "loop"
  BY <1>1, KickedIs DEF SilenceKept, AsksKept, AsksTyped
<1>3. PICK b \in BOOLEAN : b = suspect
  BY <1>1
<1> QED
  BY <1>1, <1>2, <1>3, TakenQuiet

LEMMA ClearLeaseQuiet == SilenceKept /\ AsksKept' /\ Asks!ClearLease => StaysQuiet
<1> SUFFICES ASSUME SilenceKept, AsksKept', Asks!ClearLease PROVE StaysQuiet
  OBVIOUS
<1> DEFINE yes == TRUE
<1>1. /\ UNCHANGED <<gate, ready, call>> /\ Asks!TakenForLost
      /\ saved' = Asks!Dropped(Asks!Floor(yes)) /\ yes \in BOOLEAN /\ (saved.token # 0 => yes)
  BY DEF Asks!ClearLease, Asks!process
<1> HIDE DEF yes
<1> QED
  BY <1>1, TakenQuiet

LEMMA TickQuiet == SilenceKept /\ AsksKept' /\ Asks!Tick => StaysQuiet
<1> SUFFICES ASSUME SilenceKept, AsksKept', Asks!Tick PROVE StaysQuiet
  OBVIOUS
<1>1. /\ UNCHANGED <<ready, owed>> /\ saved' = AgedControl(saved)
      /\ call' = [c \in Asks!Callers |-> AgedCall(call[c])]
      /\ gate' = Asks!Down(gate) /\ quiet' = Asks!Down(quiet)
      /\ \A c \in Asks!Callers : call[c].pc # "wire"
  BY DEF Asks!Tick, AgedControl, AgedCall
<1>2. /\ AsksKept /\ AsksTyped /\ OwedTrue /\ SilenceHeld /\ SlotQuiet /\ saved \in ControlRecords
      /\ quiet \in Asks!Left /\ gate \in Asks!Left /\ saved.retry \in Asks!Left
      /\ quiet \in Int /\ gate \in Int /\ saved.retry \in Int /\ Backoff \in Nat
      /\ owed \subseteq Asks!Askers /\ Asks!Askers \subseteq Asks!Callers
  BY DeadlinesAre, AsksConstants DEF SilenceKept, AsksKept, AsksTyped, ControlRecords
<1>3. /\ saved'.token = saved.token /\ saved'.orphan = saved.orphan /\ saved'.retry = Asks!Down(saved.retry)
  BY <1>1, <1>2, AgedIs
<1>4. \A c \in Asks!Callers : call'[c].pc = call[c].pc /\ call'[c].token = call[c].token
  BY <1>1, <1>2, AgedCallIs DEF AsksTyped
<1>5. /\ quiet <= gate => quiet' <= gate'
      /\ quiet <= saved.retry => quiet' <= saved'.retry
      /\ quiet <= Backoff => quiet' <= Backoff
      /\ quiet = 0 => quiet' = 0
  BY <1>1, <1>2, <1>3, DownLeft
<1>6. OwedTrue'
  BY <1>1, <1>2, <1>3, <1>4 DEF OwedTrue
<1>7. SilenceHeld'
  BY <1>1, <1>2, <1>3, <1>4, <1>5 DEF SilenceHeld
<1>8. SlotQuiet'
  BY <1>1, <1>2, <1>4, <1>5 DEF SlotQuiet
<1> QED
  BY <1>1, <1>4, <1>6, <1>7, <1>8 DEF StaysQuiet

LEMMA CrashQuiet == SilenceKept /\ AsksKept' /\ Asks!Crash => StaysQuiet
<1> SUFFICES ASSUME SilenceKept, AsksKept', Asks!Crash PROVE StaysQuiet
  OBVIOUS
<1> DEFINE place(c) == IF c = Worker /\ call[c].pc \notin {"off", "barred"} THEN "lost"
                       ELSE IF c = Worker THEN call[c].pc ELSE "off"
           floor == IF owed # {} THEN Backoff ELSE 0
           known == Asks!Min({quiet, saved.retry})
<1>1. /\ UNCHANGED saved /\ ~ready' /\ owed' = {} /\ quiet' = Asks!Max({known, floor})
      /\ call' = [c \in Asks!Callers |-> Asks!At(place(c))]
  BY DEF Asks!Crash, Asks!durable
<1>2. /\ AsksKept /\ OwedTrue /\ quiet \in Int /\ saved.retry \in Int /\ Backoff \in Int
  BY DeadlinesAre, TopIs DEF SilenceKept
<1>3. \A c \in Asks!Callers : call'[c].pc \in Away
  <2>1. \A c \in Asks!Callers : place(c) \in Away
    BY DEF Away
  <2> HIDE DEF place
  <2> QED
    BY <1>1, <2>1 DEF Asks!At, Asks!Call
<1>4. quiet' \in {known, floor}
  <2>1. floor \in Int
    BY <1>2
  <2>2. known \in Int
    BY <1>2, Smaller2
  <2> HIDE DEF floor, known
  <2> QED
    BY <1>1, <2>1, <2>2, Larger2
<1>5. known <= saved.retry
  BY <1>2, Smaller2
<1>6. owed # {} => saved.token # 0 /\ ~saved.orphan
  BY <1>2 DEF OwedTrue
<1>7. quiet' = 0 \/ quiet' <= saved'.retry \/ (quiet' <= Backoff /\ saved'.token # 0 /\ ~saved'.orphan)
  <2> HIDE DEF known
  <2>1. CASE quiet' = known
    BY <1>1, <1>5, <2>1
  <2>2. CASE quiet' = floor
    <3>1. CASE owed = {}
      BY <2>2, <3>1
    <3>2. CASE owed # {}
      <4>1. quiet' = Backoff
        BY <2>2, <3>2
      <4> QED
        BY <1>1, <1>2, <1>6, <3>2, <4>1
    <3> QED
      BY <3>1, <3>2
  <2> QED
    BY <1>4, <2>1, <2>2
<1>8. SilenceHeld'
  BY <1>1, <1>3, <1>7 DEF SilenceHeld
<1>9. OwedTrue' /\ SlotQuiet'
  BY <1>1, <1>3 DEF OwedTrue, SlotQuiet, Away
<1>10. \A c \in Asks!Callers : call'[c].pc # "wire"
  BY <1>3 DEF Away
<1> QED
  BY <1>8, <1>9, <1>10 DEF StaysQuiet

LEMMA AskStepQuiet == ASSUME SilenceKept, AsksKept', NEW c \in Asks!Askers, Asks!AskStep(c) PROVE StaysQuiet
<1>1. c \in Asks!Callers
  BY AsksConstants
<1> QED
  BY <1>1, EnterQuiet, AdmitQuiet, SendQuiet, AnsweredQuiet, LimitedQuiet DEF Asks!AskStep

LEMMA SilenceNext == SilenceKept /\ [Asks!Next]_Asks!vars => SilenceKept' /\ StaysQuiet
<1> SUFFICES ASSUME SilenceKept, [Asks!Next]_Asks!vars PROVE SilenceKept' /\ StaysQuiet
  OBVIOUS
<1>1. AsksKept'
  BY AsksNext DEF SilenceKept
<1>2. Worker \in Asks!Askers /\ Singles \subseteq Asks!Askers /\ History \in Asks!Callers
  BY AsksConstants
<1>3. ASSUME Asks!WorkerStep PROVE StaysQuiet
  BY <1>1, <1>2, <1>3, ClaimsQuiet, ClaimLeaseQuiet, LookQuiet, AskStepQuiet, FinishQuiet
     DEF Asks!WorkerStep, Asks!WorkerClaims
<1>4. ASSUME \E s \in Singles : Asks!SingleStep(s) \/ \E n \in Names : Asks!SingleClaim(s, n) PROVE StaysQuiet
  BY <1>1, <1>2, <1>4, AskStepQuiet, FinishSingleQuiet, SingleClaimQuiet DEF Asks!SingleStep
<1>5. ASSUME Asks!HistoryOpens \/ Asks!HistoryStep PROVE StaysQuiet
  BY <1>1, <1>2, <1>5, HistoryOpensQuiet, SendQuiet, HistoryAnsweredQuiet, LimitedQuiet DEF Asks!HistoryStep
<1>6. ASSUME Asks!OperatorStep PROVE StaysQuiet
  BY <1>1, <1>6, StartQuiet, ClearLeaseQuiet, ResumeQuiet, CancelQuiet DEF Asks!OperatorStep
<1>7. ASSUME UNCHANGED Asks!vars PROVE StaysQuiet
  <2>1. UNCHANGED <<saved, call, gate, ready, owed, quiet>>
    BY <1>7 DEF Asks!vars, Asks!durable, Asks!process, Asks!history
  <2>2. OwedTrue' /\ SilenceHeld' /\ SlotQuiet'
    BY <2>1 DEF SilenceKept, OwedTrue, SilenceHeld, SlotQuiet
  <2> QED
    BY <2>1, <2>2 DEF StaysQuiet
<1>8. StaysQuiet
  BY <1>1, <1>3, <1>4, <1>5, <1>6, <1>7, TickQuiet, CrashQuiet, ReconcileQuiet, FinishFailsQuiet DEF Asks!Next
<1> QED
  BY <1>1, <1>8 DEF SilenceKept, StaysQuiet

LEMMA SilenceInit == Asks!Init => SilenceKept
<1> SUFFICES ASSUME Asks!Init PROVE SilenceKept
  OBVIOUS
<1>1. /\ saved.retry = 0 /\ owed = {} /\ quiet = 0 /\ gate = 0 /\ ~ready
      /\ \A c \in Asks!Callers : call[c].pc = "off"
  BY DEF Asks!Init, Asks!At, Asks!Call
<1>2. OwedTrue /\ SilenceHeld /\ SlotQuiet
  BY <1>1 DEF OwedTrue, SilenceHeld, SlotQuiet, Away
<1> QED
  BY <1>2, AsksInit DEF SilenceKept

\* QuietKept, for any items, askers, deadlines and bounds: nothing goes to Steam while a 429 or
\* an interrupted request demands silence, across failed writes, resumes and restarts
\* (reconcile_startup, resume, note_429, _persist_cooldown).
THEOREM SilenceHolds == Asks!Spec => QuietKept
<1>1. StaysQuiet => \A c \in Asks!Callers : call[c].pc = "slot" /\ call'[c].pc = "wire" => quiet = 0
  BY DEF StaysQuiet
<1>2. SilenceKept /\ [Asks!Next]_Asks!vars =>
        SilenceKept' /\ [\A c \in Asks!Callers : call[c].pc = "slot" /\ call'[c].pc = "wire" => quiet = 0]_Asks!vars
  BY <1>1, SilenceNext
<1> QED
  BY <1>2, SilenceInit, PTL DEF Asks!Spec, QuietKept, Asks!QuietKept
=============================================================================
