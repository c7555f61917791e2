---------------------------- MODULE ReadsProofs ----------------------------
(***************************************************************************)
(* Reads and their caches, for any number of readers, any bounds and any   *)
(* sizes: first the holdings cache, then the saved slices, then the        *)
(* current prices.                                                         *)
(***************************************************************************)
EXTENDS MCReads, SequenceTheorems, WellFoundedInduction, FiniteSetTheorems, TLAPS

-----------------------------------------------------------------------------
(* Dictionaries are sequences of entries with distinct keys, in the order  *)
(* of their age.                                                           *)
Distinct(q) == \A i, j \in 1 .. Len(q) : q[i].key = q[j].key => i = j
Among(p, q) == \A i \in 1 .. Len(p) : \E j \in 1 .. Len(q) : p[i] = q[j]

\* An element of a sequence over S is in S.
LEMMA ElementIn ==
    ASSUME NEW S, NEW q \in Seq(S), NEW i \in 1 .. Len(q) PROVE q[i] \in S
OBVIOUS

\* A key written last.
LEMMA AppendIs ==
    ASSUME NEW S, NEW q \in Seq(S), Distinct(q), NEW e \in S, \A i \in 1 .. Len(q) : q[i].key # e.key
    PROVE  /\ Append(q, e) \in Seq(S) /\ Distinct(Append(q, e)) /\ Len(Append(q, e)) = Len(q) + 1
           /\ \A i \in 1 .. Len(q) + 1 : Append(q, e)[i] = e \/ \E j \in 1 .. Len(q) : Append(q, e)[i] = q[j]
<1> DEFINE a == Append(q, e)
<1>1. /\ a \in Seq(S) /\ Len(a) = Len(q) + 1 /\ Len(q) \in Nat
      /\ \A i \in 1 .. Len(q) : a[i] = q[i]
      /\ a[Len(q) + 1] = e
  OBVIOUS
<1> HIDE DEF a
<1>2. \A i \in 1 .. Len(q) + 1 : i \in 1 .. Len(q) \/ i = Len(q) + 1
  BY <1>1
<1>3. Distinct(a)
  BY <1>1, <1>2 DEF Distinct
<1> QED
  BY <1>1, <1>2, <1>3 DEF a

\* A set of numbers has a least one: else its initial segments were not well founded.
LEMMA Least ==
    ASSUME NEW S \in SUBSET Nat, S # {}
    PROVE  \E m \in S : \A k \in S : m <= k
<1> DEFINE T == {0 .. m : m \in S}
<1>1. T \subseteq FiniteSubsetsOf(Nat) /\ T # {}
  <2>1. \A m \in S : IsFiniteSet(0 .. m) /\ 0 .. m \in SUBSET Nat
    BY FS_Interval
  <2> QED
    BY <2>1 DEF FiniteSubsetsOf
<1>2. PICK x \in T : \A y \in T : <<y, x>> \notin StrictSubsetOrdering(Nat)
  <2> HIDE DEF T
  <2> QED
    BY <1>1, FS_StrictSubsetOrderingWellFounded, WFMin
<1>3. PICK m \in S : x = 0 .. m
  OBVIOUS
<1>4. ASSUME NEW k \in S, k < m PROVE FALSE
  <2>1. m \in 0 .. m /\ m \notin 0 .. k
    BY <1>4
  <2>2. 0 .. k \subseteq 0 .. m /\ 0 .. k # 0 .. m /\ 0 .. k \in SUBSET Nat /\ 0 .. m \in SUBSET Nat
    BY <2>1, <1>4
  <2>3. <<0 .. k, 0 .. m>> \in StrictSubsetOrdering(Nat)
    BY <2>2 DEF StrictSubsetOrdering
  <2> QED
    BY <2>3, <1>2, <1>3
<1> QED
  BY <1>4

\* What holds of 0 and of the next number of each it holds of, holds of all.
LEMMA Numbers ==
    ASSUME NEW S, 0 \in S, \A n \in Nat : n \in S => n + 1 \in S
    PROVE  Nat \subseteq S
<1> SUFFICES ASSUME Nat \ S # {} PROVE FALSE
  OBVIOUS
<1>1. PICK m \in Nat \ S : \A k \in Nat \ S : m <= k
  BY Least
<1>2. m - 1 \in Nat /\ m - 1 \in S
  BY <1>1
<1> QED
  BY <1>1, <1>2

-----------------------------------------------------------------------------
(***************************************************************************)
(* Holdings (HoldingsCache), for any portfolios and bounds.  A version and *)
(* an epoch name one state of the database, because a connection's version *)
(* only grows and a new connection gets a new number: so nothing kept or   *)
(* frozen is ahead of the connection, and what is at its version reflects  *)
(* what it last saw.                                                       *)
(***************************************************************************)
\* Epochs of this or of earlier connections, none ahead of this one.
Past(e) == e.incarnation <= incarnation /\ (e.incarnation = incarnation => e.version <= conn.dv)
Now(e) == conn.state = "open" /\ e.incarnation = incarnation /\ e.version = conn.dv

ConnectionTrue ==
    /\ conn.seen <= db /\ conn.dv <= conn.seen + 1
    /\ conn.state # "open" => version = Holdings!None /\ holdings = << >>
    /\ version # Holdings!None => version <= conn.dv
    /\ \A i \in 1 .. Len(frozenCache) : Past(frozenCache[i].key[2])
    /\ Past(call.epoch)

ReadTrue ==
    /\ call.since <= db
    /\ call.step \in {"hit", "snapshot"} => conn.state = "open" /\ version = conn.dv /\ call.before = conn.dv
    /\ call.step = "verify" => conn.state = "open" /\ call.before <= conn.dv /\ call.holdings = conn.seen
    /\ call.step \in {"verify", "after", "done"} => call.holdings \in call.since .. db
    /\ call.step = "after" /\ Now(call.epoch) => call.holdings = conn.seen

HoldingsKept == Holdings!TypeOK /\ Holdings!KeptTrue /\ Holdings!KeptOnce /\ ConnectionTrue /\ ReadTrue

LEMMA HoldingsBounds ==
    MaxEntries \in Nat \ {0} /\ MaxCommits \in Nat /\ MaxLooks \in Nat /\ MaxFailures \in Nat
BY CachesAssumption DEF Holdings!HoldingsAssumption

\* What is left of a dictionary when a key goes.
LEMMA RemoveAtIs ==
    ASSUME NEW S, NEW q \in Seq(S), NEW i \in 1 .. Len(q)
    PROVE  /\ Holdings!RemoveAt(q, i) \in Seq(S) /\ Len(Holdings!RemoveAt(q, i)) = Len(q) - 1
           /\ \A j \in 1 .. Len(q) - 1 : Holdings!RemoveAt(q, i)[j] = IF j < i THEN q[j] ELSE q[j + 1]
<1> DEFINE a == SubSeq(q, 1, i - 1)
           b == SubSeq(q, i + 1, Len(q))
<1>1. Len(q) \in Nat /\ \A j \in 1 .. Len(q) : q[j] \in S
  OBVIOUS
<1>2. a \in Seq(S) /\ Len(a) = i - 1 /\ \A j \in 1 .. i - 1 : a[j] = q[j]
  <2>1. i - 1 \in Int /\ \A j \in 1 .. i - 1 : q[j] \in S
    BY <1>1
  <2>2. /\ SubSeq(q, 1, i - 1) \in Seq(S)
        /\ Len(SubSeq(q, 1, i - 1)) = IF 1 <= i - 1 THEN (i - 1) - 1 + 1 ELSE 0
        /\ \A j \in 1 .. (i - 1) - 1 + 1 : SubSeq(q, 1, i - 1)[j] = q[1 + j - 1]
    BY <2>1, SubSeqProperties
  <2> QED
    BY <2>2, <1>1
<1>3. b \in Seq(S) /\ Len(b) = Len(q) - i /\ \A j \in 1 .. Len(q) - i : b[j] = q[i + j]
  <2>1. i + 1 \in Int /\ Len(q) \in Int /\ \A j \in i + 1 .. Len(q) : q[j] \in S
    BY <1>1
  <2>2. /\ SubSeq(q, i + 1, Len(q)) \in Seq(S)
        /\ Len(SubSeq(q, i + 1, Len(q))) = IF i + 1 <= Len(q) THEN Len(q) - (i + 1) + 1 ELSE 0
        /\ \A j \in 1 .. Len(q) - (i + 1) + 1 : SubSeq(q, i + 1, Len(q))[j] = q[(i + 1) + j - 1]
    BY <2>1, SubSeqProperties
  <2> QED
    BY <2>2, <1>1
<1>4. Holdings!RemoveAt(q, i) = a \o b
  BY DEF Holdings!RemoveAt
<1> HIDE DEF a, b
<1>5. /\ a \o b \in Seq(S) /\ Len(a \o b) = Len(a) + Len(b)
      /\ \A j \in 1 .. Len(a) + Len(b) : (a \o b)[j] = IF j <= Len(a) THEN a[j] ELSE b[j - Len(a)]
  BY <1>2, <1>3, ConcatProperties
<1>6. Len(a) + Len(b) = Len(q) - 1
  BY <1>1, <1>2, <1>3
<1>7. ASSUME NEW j \in 1 .. Len(q) - 1 PROVE (a \o b)[j] = IF j < i THEN q[j] ELSE q[j + 1]
  <2>1. CASE j < i
    BY <2>1, <1>1, <1>2, <1>5, <1>6
  <2>2. CASE ~(j < i)
    <3>1. j - (i - 1) \in 1 .. Len(q) - i /\ i + (j - (i - 1)) = j + 1 /\ ~(j <= i - 1)
      BY <2>2, <1>1
    <3>2. (a \o b)[j] = b[j - (i - 1)]
      BY <3>1, <1>1, <1>2, <1>5, <1>6
    <3> QED
      BY <2>2, <3>1, <3>2, <1>3
  <2> QED
    BY <2>1, <2>2
<1> QED
  BY <1>4, <1>5, <1>6, <1>7

\* A dictionary a key is dropped from keeps its other entries, and only those.
LEMMA WithoutIs ==
    ASSUME NEW S, NEW q \in Seq(S), Distinct(q), NEW k
    PROVE  /\ Holdings!Without(k, q) \in Seq(S) /\ Distinct(Holdings!Without(k, q))
           /\ Among(Holdings!Without(k, q), q)
           /\ \A i \in 1 .. Len(Holdings!Without(k, q)) : Holdings!Without(k, q)[i].key # k
           /\ Len(Holdings!Without(k, q)) = IF Holdings!Find(k, q) = {} THEN Len(q) ELSE Len(q) - 1
<1>1. CASE Holdings!Find(k, q) = {}
  BY <1>1 DEF Holdings!Without, Holdings!Find, Among
<1>2. CASE Holdings!Find(k, q) # {}
  <2>1. PICK i \in Holdings!Find(k, q) : Holdings!Without(k, q) = Holdings!RemoveAt(q, i)
    BY <1>2 DEF Holdings!Without
  <2> DEFINE w == Holdings!RemoveAt(q, i)
  <2>2. i \in 1 .. Len(q) /\ q[i].key = k /\ Len(q) \in Nat
    BY DEF Holdings!Find
  <2>3. /\ w \in Seq(S) /\ Len(w) = Len(q) - 1
        /\ \A j \in 1 .. Len(q) - 1 : w[j] = IF j < i THEN q[j] ELSE q[j + 1]
    BY <2>2, RemoveAtIs
  <2> HIDE DEF w
  <2>4. ASSUME NEW j \in 1 .. Len(w)
        PROVE  LET m == IF j < i THEN j ELSE j + 1 IN m \in 1 .. Len(q) /\ m # i /\ w[j] = q[m]
    <3>1. j \in 1 .. Len(q) - 1 /\ j \in Int /\ i \in Int
      BY <2>2, <2>3
    <3>2. w[j] = IF j < i THEN q[j] ELSE q[j + 1]
      BY <3>1, <2>3
    <3> QED
      BY <3>1, <3>2, <2>2
  <2>5. Among(w, q) /\ \A j \in 1 .. Len(w) : w[j].key # k
    BY <2>2, <2>4 DEF Among, Distinct
  <2>6. ASSUME NEW j \in 1 .. Len(w), NEW l \in 1 .. Len(w), w[j].key = w[l].key PROVE j = l
    <3> DEFINE m == IF j < i THEN j ELSE j + 1
               n == IF l < i THEN l ELSE l + 1
    <3>1. m \in 1 .. Len(q) /\ n \in 1 .. Len(q) /\ q[m].key = q[n].key
      BY <2>4, <2>6
    <3>2. m = n
      BY <3>1 DEF Distinct
    <3> QED
      BY <3>2, <2>2, <2>3
  <2>7. Distinct(w)
    BY <2>6 DEF Distinct
  <2> QED
    BY <1>2, <2>1, <2>3, <2>5, <2>7 DEF w
<1> QED
  BY <1>1, <1>2

\* The newest of a dictionary that may have outgrown its limit.
LEMMA NewestIs ==
    ASSUME NEW S, NEW q \in Seq(S), Distinct(q)
    PROVE  /\ Holdings!Newest(q) \in Seq(S) /\ Distinct(Holdings!Newest(q)) /\ Among(Holdings!Newest(q), q)
           /\ Len(Holdings!Newest(q)) <= MaxEntries
<1>1. Len(q) \in Nat /\ MaxEntries \in Nat \ {0}
  BY HoldingsBounds
<1>2. CASE Len(q) <= MaxEntries
  BY <1>2 DEF Holdings!Newest, Among
<1>3. CASE ~(Len(q) <= MaxEntries)
  <2> DEFINE m == Len(q) - MaxEntries + 1
             n == SubSeq(q, m, Len(q))
  <2>1. m \in 1 .. Len(q) /\ Holdings!Newest(q) = n
    BY <1>1, <1>3 DEF Holdings!Newest
  <2>2. m \in Int /\ Len(q) \in Int /\ \A i \in m .. Len(q) : q[i] \in S
    BY <1>1, <2>1
  <2> HIDE DEF m
  <2>3. /\ n \in Seq(S) /\ Len(n) = Len(q) - m + 1
        /\ \A i \in 1 .. Len(q) - m + 1 : n[i] = q[m + i - 1]
    BY <2>1, <2>2, SubSeqProperties
  <2> HIDE DEF n
  <2>4. Len(n) = MaxEntries
    BY <1>1, <2>3 DEF m
  <2>5. \A i \in 1 .. Len(n) : m + i - 1 \in 1 .. Len(q) /\ n[i] = q[m + i - 1]
    BY <1>1, <2>1, <2>3
  <2>6. Among(n, q)
    BY <2>5 DEF Among
  <2>7. ASSUME NEW i \in 1 .. Len(n), NEW j \in 1 .. Len(n), n[i].key = n[j].key PROVE i = j
    <3>1. m + i - 1 = m + j - 1
      BY <2>5, <2>7 DEF Distinct
    <3> QED
      BY <3>1, <2>2
  <2> QED
    BY <1>1, <2>1, <2>3, <2>4, <2>6, <2>7 DEF Distinct
<1> QED
  BY <1>2, <1>3

\* A kept key is written last and the oldest key goes when there are too many.
LEMMA KeepIs ==
    ASSUME NEW S, NEW q \in Seq(S), Distinct(q), NEW k, NEW h, [key |-> k, holdings |-> h] \in S
    PROVE  /\ Holdings!Keep(k, h, q) \in Seq(S) /\ Distinct(Holdings!Keep(k, h, q))
           /\ Len(Holdings!Keep(k, h, q)) <= MaxEntries
           /\ \A i \in 1 .. Len(Holdings!Keep(k, h, q)) :
                \/ Holdings!Keep(k, h, q)[i] = [key |-> k, holdings |-> h]
                \/ \E j \in 1 .. Len(q) : Holdings!Keep(k, h, q)[i] = q[j]
<1> DEFINE e == [key |-> k, holdings |-> h]
           w == Holdings!Without(k, q)
           a == Append(w, e)
<1>1. /\ w \in Seq(S) /\ Distinct(w) /\ Among(w, q) /\ \A i \in 1 .. Len(w) : w[i].key # e.key
  BY WithoutIs
<1> HIDE DEF w
<1>2. /\ a \in Seq(S) /\ Distinct(a) /\ Len(a) = Len(w) + 1
      /\ \A i \in 1 .. Len(w) + 1 : a[i] = e \/ \E j \in 1 .. Len(w) : a[i] = w[j]
  BY <1>1, AppendIs
<1> HIDE DEF a
<1>3. \A i \in 1 .. Len(a) : a[i] = e \/ \E j \in 1 .. Len(q) : a[i] = q[j]
  BY <1>1, <1>2 DEF Among
<1>4. Holdings!Keep(k, h, q) = Holdings!Newest(a)
  BY DEF Holdings!Keep, a, w
<1>5. /\ Holdings!Newest(a) \in Seq(S) /\ Distinct(Holdings!Newest(a)) /\ Among(Holdings!Newest(a), a)
      /\ Len(Holdings!Newest(a)) <= MaxEntries
  BY <1>2, NewestIs
<1> QED
  BY <1>3, <1>4, <1>5 DEF Among

-----------------------------------------------------------------------------
LEMMA HoldingsInit == Holdings!Init => HoldingsKept
<1> SUFFICES ASSUME Holdings!Init PROVE HoldingsKept
  OBVIOUS
<1>1. PICK p \in Portfolios :
        call = [step |-> "idle", portfolio |-> p, epoch |-> Holdings!NoEpoch, before |-> 1,
                holdings |-> 0, since |-> 0]
  BY DEF Holdings!Init
<1>2. 0 \in Holdings!Commits /\ 1 \in Holdings!DataVersions /\ Holdings!NoEpoch \in Holdings!Epochs
  BY HoldingsBounds DEF Holdings!Commits, Holdings!DataVersions, Holdings!NoEpoch, Holdings!Epochs
<1>3. Holdings!TypeOK
  BY <1>1, <1>2, HoldingsBounds DEF Holdings!Init, Holdings!TypeOK, Holdings!Kept, Holdings!None
<1>4. Holdings!KeptTrue /\ Holdings!KeptOnce
  BY HoldingsBounds DEF Holdings!Init, Holdings!KeptTrue, Holdings!KeptOnce
<1>5. ConnectionTrue /\ ReadTrue
  BY <1>1 DEF Holdings!Init, ConnectionTrue, ReadTrue, Past, Holdings!NoEpoch
<1> QED
  BY <1>3, <1>4, <1>5 DEF HoldingsKept

\* What the types say of the fields the other parts compare.
LEMMA HoldingsFields ==
    ASSUME Holdings!TypeOK
    PROVE  /\ db \in Nat /\ conn.seen \in Nat /\ conn.dv \in Nat \ {0} /\ incarnation \in Nat
           /\ version = Holdings!None \/ version \in Nat \ {0}
           /\ call.holdings \in Nat /\ call.since \in Nat /\ call.before \in Nat
           /\ call.epoch.incarnation \in Nat /\ call.epoch.version \in Nat
           /\ \A i \in 1 .. Len(holdings) : holdings[i].holdings \in Nat
           /\ \A i \in 1 .. Len(frozenCache) :
                /\ frozenCache[i].key[2] \in Holdings!Epochs
                /\ frozenCache[i].key[2].incarnation \in Nat /\ frozenCache[i].key[2].version \in Nat
                /\ frozenCache[i].holdings \in Holdings!Commits /\ frozenCache[i].holdings \in Nat
<1>1. db \in Nat /\ conn.seen \in Nat /\ conn.dv \in Nat \ {0} /\ incarnation \in Nat
  BY HoldingsBounds DEF Holdings!TypeOK, Holdings!Commits, Holdings!DataVersions
<1>2. version = Holdings!None \/ version \in Nat \ {0}
  BY HoldingsBounds DEF Holdings!TypeOK, Holdings!DataVersions
<1>3. /\ call.holdings \in Nat /\ call.since \in Nat /\ call.before \in Nat
      /\ call.epoch.incarnation \in Nat /\ call.epoch.version \in Nat
  BY HoldingsBounds DEF Holdings!TypeOK, Holdings!Commits, Holdings!DataVersions, Holdings!Epochs
<1>4. \A c \in Holdings!Commits : c \in Nat
  BY HoldingsBounds DEF Holdings!Commits
<1>5. ASSUME NEW i \in 1 .. Len(holdings) PROVE holdings[i].holdings \in Nat
  <2>1. holdings \in Seq([key : Portfolios, holdings : Holdings!Commits])
    BY DEF Holdings!TypeOK, Holdings!Kept
  <2>2. holdings[i] \in [key : Portfolios, holdings : Holdings!Commits]
    BY <2>1, ElementIn
  <2> QED
    BY <2>2, <1>4
<1>6. ASSUME NEW i \in 1 .. Len(frozenCache)
      PROVE  /\ frozenCache[i].key[2] \in Holdings!Epochs
             /\ frozenCache[i].key[2].incarnation \in Nat /\ frozenCache[i].key[2].version \in Nat
             /\ frozenCache[i].holdings \in Holdings!Commits /\ frozenCache[i].holdings \in Nat
  <2>1. frozenCache \in Seq([key : Portfolios \X Holdings!Epochs, holdings : Holdings!Commits])
    BY DEF Holdings!TypeOK, Holdings!Kept
  <2>2. frozenCache[i] \in [key : Portfolios \X Holdings!Epochs, holdings : Holdings!Commits]
    BY <2>1, ElementIn
  <2>3. frozenCache[i].key \in Portfolios \X Holdings!Epochs /\ frozenCache[i].holdings \in Holdings!Commits
    BY <2>2
  <2>4. frozenCache[i].key[2] \in Holdings!Epochs
    BY <2>3
  <2>5. \A e \in Holdings!Epochs : e.incarnation \in Nat /\ e.version \in Nat
    BY HoldingsBounds DEF Holdings!Epochs, Holdings!DataVersions
  <2> QED
    BY <2>3, <2>4, <2>5, <1>4
<1> QED
  BY <1>1, <1>2, <1>3, <1>5, <1>6

\* A look at the connection: it has seen all commits then, and what it has kept is of now.
LEMMA ObserveIs ==
    ASSUME HoldingsKept, Holdings!Observe
    PROVE  /\ conn' \in [state : {"none", "open", "broken"}, seen : Holdings!Commits, dv : Holdings!DataVersions]
           /\ conn'.state = "open" /\ conn'.seen = db /\ conn'.dv <= db + 1
           /\ incarnation' \in Nat /\ incarnation' >= incarnation
           /\ version' = conn'.dv /\ version' \in Holdings!DataVersions
           /\ holdings' \in Holdings!Kept(Portfolios) /\ Distinct(holdings') /\ Len(holdings') <= MaxEntries
           /\ \A i \in 1 .. Len(holdings') : holdings'[i].holdings = db
           /\ \A e \in Holdings!Epochs : Past(e) =>
                /\ e.incarnation <= incarnation'
                /\ e.incarnation = incarnation' => e.version <= conn'.dv
                /\ e.incarnation = incarnation' /\ e.version = conn'.dv =>
                     conn' = conn /\ conn.seen = db /\ incarnation' = incarnation /\ conn.state = "open"
<1>1. /\ conn' = Holdings!Synced(Holdings!Opened) /\ incarnation' = Holdings!Incarnation
      /\ version' = conn'.dv /\ conn.state # "broken"
      /\ holdings' = IF version = conn'.dv THEN holdings ELSE << >>
  BY DEF Holdings!Observe, Holdings!Observed, Holdings!Current
<1>2. /\ conn \in [state : {"none", "open", "broken"}, seen : Holdings!Commits, dv : Holdings!DataVersions]
      /\ db \in 0 .. MaxCommits /\ incarnation \in Nat /\ conn.seen <= db /\ conn.dv <= conn.seen + 1
      /\ MaxCommits \in Nat /\ Holdings!Commits = 0 .. MaxCommits /\ Holdings!DataVersions = 1 .. MaxCommits + 1
  BY HoldingsBounds DEF HoldingsKept, Holdings!TypeOK, ConnectionTrue, Holdings!Commits, Holdings!DataVersions
<1>3. CASE conn.state = "open" /\ conn.seen = db
  <2>1. conn' = conn /\ incarnation' = incarnation
    BY <1>1, <1>3 DEF Holdings!Synced, Holdings!Opened, Holdings!Incarnation
  <2>2. /\ holdings' \in Holdings!Kept(Portfolios) /\ Distinct(holdings') /\ Len(holdings') <= MaxEntries
        /\ \A i \in 1 .. Len(holdings') : holdings'[i].holdings = db
    BY <1>1, <1>3, <2>1, HoldingsBounds
       DEF HoldingsKept, Holdings!TypeOK, Holdings!KeptTrue, Holdings!KeptOnce, Holdings!Kept, Distinct
  <2> QED
    BY <1>1, <1>2, <1>3, <2>1, <2>2 DEF Past
<1>4. CASE conn.state = "open" /\ conn.seen # db
  <2>1. conn' = [conn EXCEPT !.seen = db, !.dv = conn.dv + 1] /\ incarnation' = incarnation
    BY <1>1, <1>4 DEF Holdings!Synced, Holdings!Opened, Holdings!Incarnation
  <2>2. conn'.seen = db /\ conn'.dv = conn.dv + 1 /\ conn'.state = "open" /\ conn.dv <= db /\ conn.dv + 1 \in 1 .. MaxCommits + 1
    BY <1>2, <1>4, <2>1
  <2>3. version # conn'.dv
    <3>1. version = Holdings!None \/ version <= conn.dv
      BY DEF HoldingsKept, ConnectionTrue
    <3> QED
      BY <3>1, <1>2, <2>2, HoldingsFields DEF HoldingsKept, Holdings!None
  <2>4. holdings' = << >>
    BY <1>1, <2>3
  <2>5. conn' \in [state : {"none", "open", "broken"}, seen : Holdings!Commits, dv : Holdings!DataVersions]
    BY <1>2, <2>1, <2>2
  <2>6. \A e \in Holdings!Epochs : Past(e) =>
          e.incarnation <= incarnation' /\ (e.incarnation = incarnation' => e.version <= conn.dv /\ e.version # conn'.dv)
    BY <1>2, <2>1, <2>2 DEF Past, Holdings!Epochs
  <2>7. /\ holdings' \in Holdings!Kept(Portfolios) /\ Distinct(holdings') /\ Len(holdings') <= MaxEntries
        /\ \A i \in 1 .. Len(holdings') : holdings'[i].holdings = db
    BY <2>4, HoldingsBounds DEF Distinct, Holdings!Kept
  <2>8. conn'.dv \in Holdings!DataVersions /\ conn'.dv <= db + 1 /\ conn'.dv \in Int /\ conn.dv <= conn'.dv
    BY <1>2, <2>2
  <2>9. \A e \in Holdings!Epochs : e.version \in Int
    BY <1>2 DEF Holdings!Epochs
  <2> QED
    BY <1>1, <1>2, <2>1, <2>2, <2>5, <2>6, <2>7, <2>8, <2>9
<1>5. CASE conn.state = "none"
  <2>1. conn' = [state |-> "open", seen |-> db, dv |-> 1] /\ incarnation' = incarnation + 1
    BY <1>1, <1>5 DEF Holdings!Synced, Holdings!Opened, Holdings!Incarnation
  <2>2. holdings = << >>
    BY <1>5 DEF HoldingsKept, ConnectionTrue
  <2>3. holdings' = << >>
    BY <1>1, <2>2
  <2>4. conn' \in [state : {"none", "open", "broken"}, seen : Holdings!Commits, dv : Holdings!DataVersions]
        /\ conn'.dv = 1 /\ 1 \in Holdings!DataVersions
    BY <1>2, <2>1
  <2>5. \A e \in Holdings!Epochs : Past(e) => e.incarnation < incarnation'
    BY <1>2, <2>1 DEF Past, Holdings!Epochs
  <2>6. /\ holdings' \in Holdings!Kept(Portfolios) /\ Distinct(holdings') /\ Len(holdings') <= MaxEntries
        /\ \A i \in 1 .. Len(holdings') : holdings'[i].holdings = db
    BY <2>3, HoldingsBounds DEF Distinct, Holdings!Kept
  <2>7. conn'.seen = db /\ conn'.state = "open" /\ conn'.dv <= db + 1 /\ incarnation' \in Nat /\ incarnation' > incarnation
    BY <1>2, <2>1
  <2>8. \A e \in Holdings!Epochs : e.incarnation \in Nat
    BY DEF Holdings!Epochs
  <2> QED
    BY <1>1, <1>2, <2>4, <2>5, <2>6, <2>7, <2>8
<1> QED
  BY <1>1, <1>2, <1>3, <1>4, <1>5

-----------------------------------------------------------------------------
CallType == [step : {"idle", "miss", "hit", "snapshot", "verify", "after", "done"},
             portfolio : Portfolios, epoch : Holdings!Epochs, before : Holdings!DataVersions,
             holdings : Holdings!Commits, since : Holdings!Commits]
ConnType == [state : {"none", "open", "broken"}, seen : Holdings!Commits, dv : Holdings!DataVersions]
FrozenType == Holdings!Kept(Portfolios \X Holdings!Epochs)

\* The type invariant, with its record sets named.
LEMMA TypesAre ==
    Holdings!TypeOK <=>
      /\ db \in Holdings!Commits /\ conn \in ConnType /\ incarnation \in Nat
      /\ version \in Holdings!DataVersions \cup {Holdings!None}
      /\ holdings \in Holdings!Kept(Portfolios) /\ frozenCache \in FrozenType
      /\ call \in CallType /\ looks \in 0 .. MaxLooks /\ failures \in 0 .. MaxFailures
BY DEF Holdings!TypeOK, CallType, ConnType, FrozenType

\* The same of an epoch after a look: it is not ahead, and if it is the connection's, nothing has moved.
LEMMA ObserveEpoch ==
    ASSUME HoldingsKept, Holdings!Observe, NEW e \in Holdings!Epochs, Past(e)
    PROVE  Past(e)' /\ (Now(e)' => Now(e) /\ conn' = conn /\ conn.seen = db)
BY ObserveIs DEF Past, Now

\* What is frozen survives a look as it is: none ahead, and what is of now reflects what was seen.
FrozenTrueOf(q) ==
    \A i \in 1 .. Len(q) :
        Past(q[i].key[2]) /\ (Now(q[i].key[2]) => q[i].holdings = conn.seen)

\* The frozen holdings are of this or of earlier connections, and the current ones are the database's.
LEMMA FrozenIs == ASSUME HoldingsKept PROVE FrozenTrueOf(frozenCache)
BY DEF HoldingsKept, ConnectionTrue, FrozenTrueOf, Holdings!KeptTrue, Now

\* They stay so when the connection sees the commits: its version grows with what it sees.
LEMMA ObserveFrozen ==
    ASSUME HoldingsKept, Holdings!Observe, frozenCache' = frozenCache
    PROVE  FrozenTrueOf(frozenCache)'
<1> SUFFICES ASSUME NEW i \in 1 .. Len(frozenCache)
             PROVE  /\ Past(frozenCache[i].key[2])'
                    /\ Now(frozenCache[i].key[2])' => frozenCache[i].holdings = conn'.seen
  BY DEF FrozenTrueOf
<1> DEFINE e == frozenCache[i].key[2]
<1>1. e \in Holdings!Epochs /\ Past(e) /\ (Now(e) => frozenCache[i].holdings = conn.seen)
  BY HoldingsFields, FrozenIs DEF HoldingsKept, FrozenTrueOf
<1>2. e' = e
  OBVIOUS
<1> HIDE DEF e
<1>3. Past(e)' /\ (Now(e)' => Now(e) /\ conn' = conn)
  BY <1>1, <1>2, ObserveEpoch
<1> QED
  BY <1>1, <1>2, <1>3 DEF e

\* A step that looks keeps the invariant if what it freezes and its call are true.
LEMMA ObserveSteps ==
    ASSUME HoldingsKept, Holdings!Observe, db' = db, failures' = failures,
           looks' \in 0 .. MaxLooks, call' \in CallType,
           frozenCache' \in FrozenType, Distinct(frozenCache)', Len(frozenCache') <= MaxEntries,
           FrozenTrueOf(frozenCache)', Past(call.epoch)', ReadTrue'
    PROVE  HoldingsKept'
<1>1. Holdings!TypeOK'
  <2>1. db \in Holdings!Commits /\ failures \in 0 .. MaxFailures
    BY TypesAre DEF HoldingsKept
  <2>2. conn' \in ConnType /\ version' \in Holdings!DataVersions /\ holdings' \in Holdings!Kept(Portfolios) /\ incarnation' \in Nat
    BY ObserveIs DEF ConnType
  <2>3. Holdings!TypeOK' <=>
          (/\ db \in Holdings!Commits /\ conn \in ConnType /\ incarnation \in Nat
           /\ version \in Holdings!DataVersions \cup {Holdings!None}
           /\ holdings \in Holdings!Kept(Portfolios) /\ frozenCache \in FrozenType
           /\ call \in CallType /\ looks \in 0 .. MaxLooks /\ failures \in 0 .. MaxFailures)'
    BY TypesAre, PTL
  <2>4. (Holdings!DataVersions \cup {Holdings!None})' = Holdings!DataVersions \cup {Holdings!None} /\ (Holdings!Kept(Portfolios))' = Holdings!Kept(Portfolios) /\ FrozenType' = FrozenType /\ CallType' = CallType /\ ConnType' = ConnType
    OBVIOUS
  <2> QED
    BY <2>1, <2>2, <2>3, <2>4
<1>2. Holdings!KeptOnce'
  BY ObserveIs DEF Holdings!KeptOnce, Distinct
<1>3. Holdings!KeptTrue'
  <2>1. \A i \in 1 .. Len(holdings') : holdings'[i].holdings = conn'.seen
    BY ObserveIs
  <2> QED
    BY <2>1 DEF Holdings!KeptTrue, FrozenTrueOf, Now
<1>4. ConnectionTrue'
  <2>1. conn'.seen = db /\ conn'.dv <= db + 1 /\ conn'.state = "open" /\ version' = conn'.dv
        /\ db \in Nat /\ conn'.dv \in Int
    <3>1. conn'.dv \in Int
      BY ObserveIs, HoldingsBounds DEF Holdings!DataVersions
    <3> QED
      BY <3>1, ObserveIs, HoldingsFields DEF HoldingsKept
  <2>2. \A i \in 1 .. Len(frozenCache') : Past(frozenCache[i].key[2])'
    BY DEF FrozenTrueOf
  <2> QED
    BY <2>1, <2>2 DEF ConnectionTrue
<1> QED
  BY <1>1, <1>2, <1>3, <1>4 DEF HoldingsKept

LEMMA HoldingsIdentityRevision == HoldingsKept /\ Holdings!IdentityRevision => HoldingsKept'
<1> SUFFICES ASSUME HoldingsKept, Holdings!IdentityRevision PROVE HoldingsKept'
  OBVIOUS
<1>1. /\ Holdings!Observe /\ db' = db /\ failures' = failures /\ looks' = looks
      /\ call' = call /\ frozenCache' = frozenCache /\ call.step \in {"idle", "miss", "after", "done"}
  BY DEF Holdings!IdentityRevision, Holdings!Unlocked
<1>2. call.epoch \in Holdings!Epochs /\ Past(call.epoch)
  BY TypesAre DEF HoldingsKept, ConnectionTrue, CallType
<1>3. Past(call.epoch)' /\ (Now(call.epoch)' => Now(call.epoch) /\ conn' = conn)
  <2>1. Past(call.epoch)' <=> (call.epoch.incarnation <= incarnation' /\ (call.epoch.incarnation = incarnation' => call.epoch.version <= conn'.dv))
    BY <1>1 DEF Past
  <2>2. Now(call.epoch)' <=> (conn'.state = "open" /\ call.epoch.incarnation = incarnation' /\ call.epoch.version = conn'.dv)
    BY <1>1 DEF Now
  <2> QED
    BY <1>1, <1>2, <2>1, <2>2, ObserveEpoch DEF Past, Now
<1>4. ReadTrue'
  BY <1>1, <1>3 DEF ReadTrue, HoldingsKept
<1>5. FrozenTrueOf(frozenCache)'
  BY <1>1, ObserveFrozen
<1>6. /\ call' \in CallType /\ looks' \in 0 .. MaxLooks /\ frozenCache' \in FrozenType
      /\ Distinct(frozenCache)' /\ Len(frozenCache') <= MaxEntries
  BY <1>1, TypesAre DEF HoldingsKept, Holdings!KeptOnce, Distinct
<1> QED
  BY <1>1, <1>3, <1>4, <1>5, <1>6, ObserveSteps

LEMMA HoldingsFrozenBegin == HoldingsKept /\ Holdings!FrozenBegin => HoldingsKept'
<1> SUFFICES ASSUME HoldingsKept, Holdings!FrozenBegin PROVE HoldingsKept'
  OBVIOUS
<1> DEFINE held == Holdings!EpochNow
<1>1. /\ Holdings!Observe /\ db' = db /\ failures' = failures /\ looks' = looks + 1 /\ looks < MaxLooks
      /\ frozenCache' = frozenCache
  BY DEF Holdings!FrozenBegin
<1>2. PICK p \in Portfolios :
        \E h \in IF Holdings!Find(<<p, held>>, frozenCache) = {} THEN {0}
                 ELSE {frozenCache[i].holdings : i \in Holdings!Find(<<p, held>>, frozenCache)} :
          call' = [call EXCEPT !.step = IF Holdings!Find(<<p, held>>, frozenCache) = {} THEN "miss" ELSE "after",
                               !.portfolio = p, !.epoch = held, !.since = db, !.holdings = h]
  BY DEF Holdings!FrozenBegin
<1> DEFINE hits == Holdings!Find(<<p, held>>, frozenCache)
<1>2a. PICK h \in IF hits = {} THEN {0} ELSE {frozenCache[i].holdings : i \in hits} :
        call' = [call EXCEPT !.step = IF hits = {} THEN "miss" ELSE "after",
                             !.portfolio = p, !.epoch = held, !.since = db, !.holdings = h]
  BY <1>2
<1>3. held = [incarnation |-> incarnation', version |-> conn'.dv]
  BY DEF Holdings!EpochNow
<1>4. held \in Holdings!Epochs
  BY <1>3, ObserveIs, <1>1 DEF Holdings!Epochs
<1>5. FrozenTrueOf(frozenCache)'
  BY <1>1, ObserveFrozen
<1>6. /\ looks' \in 0 .. MaxLooks /\ frozenCache' \in FrozenType
      /\ Distinct(frozenCache)' /\ Len(frozenCache') <= MaxEntries
  BY <1>1, TypesAre, HoldingsBounds DEF HoldingsKept, Holdings!KeptOnce, Distinct
<1>7. db \in Nat /\ db \in Holdings!Commits /\ conn'.seen = db /\ conn'.state = "open" /\ call \in CallType
  BY <1>1, ObserveIs, HoldingsFields, TypesAre DEF HoldingsKept
<1>8. h \in Holdings!Commits /\ (hits # {} => h = db)
  <2>1. CASE hits = {}
    BY <2>1, <1>2a, HoldingsBounds DEF Holdings!Commits
  <2>2. CASE hits # {}
    <3>1. PICK i \in hits : h = frozenCache[i].holdings
      BY <2>2, <1>2a
    <3>2. i \in 1 .. Len(frozenCache) /\ frozenCache[i].key[2] = held
      BY DEF Holdings!Find
    <3>3. Now(frozenCache[i].key[2])'
      BY <1>1, <1>3, <1>7, <3>2 DEF Now
    <3>4. h = conn'.seen
      BY <1>1, <1>5, <3>1, <3>2, <3>3 DEF FrozenTrueOf
    <3> QED
      BY <1>7, <3>4
  <2> QED
    BY <2>1, <2>2
<1>9. call' \in CallType
  BY <1>2a, <1>4, <1>7, <1>8 DEF CallType
<1>10. /\ call'.epoch = held /\ call'.since = db /\ call'.holdings = h
       /\ call'.step = IF hits = {} THEN "miss" ELSE "after"
  BY <1>2a, <1>7 DEF CallType
<1>11. Past(call.epoch)'
  BY <1>1, <1>3, <1>10, ObserveIs, HoldingsBounds DEF Past, Holdings!DataVersions
<1>12. ReadTrue'
  BY <1>1, <1>7, <1>8, <1>10 DEF ReadTrue
<1> HIDE DEF held, hits
<1> QED
  BY <1>1, <1>5, <1>6, <1>9, <1>11, <1>12, ObserveSteps

LEMMA HoldingsReadBegin == HoldingsKept /\ Holdings!ReadBegin => HoldingsKept'
<1> SUFFICES ASSUME HoldingsKept, Holdings!ReadBegin PROVE HoldingsKept'
  OBVIOUS
<1> DEFINE step == IF Holdings!Find(call.portfolio, Holdings!Current) = {} THEN "snapshot" ELSE "hit"
<1>1. /\ Holdings!Observe /\ db' = db /\ failures' = failures /\ looks' = looks
      /\ frozenCache' = frozenCache /\ call.step = "miss"
      /\ call' = [call EXCEPT !.before = Holdings!Observed.dv, !.step = step]
  BY DEF Holdings!ReadBegin
<1>2. Holdings!Observed.dv = conn'.dv /\ step \in {"snapshot", "hit"}
  BY <1>1 DEF Holdings!Observe
<1> HIDE DEF step
<1>3. call \in CallType /\ conn'.dv \in Holdings!DataVersions /\ version' = conn'.dv /\ conn'.state = "open"
  BY <1>1, ObserveIs, TypesAre DEF HoldingsKept
<1>4. call' \in CallType
  BY <1>1, <1>2, <1>3 DEF CallType
<1>5. call'.epoch = call.epoch /\ call'.before = conn'.dv /\ call'.step = step /\ call'.since = call.since
  BY <1>1, <1>2, <1>3 DEF CallType
<1>6. Past(call.epoch)'
  <2>1. call.epoch \in Holdings!Epochs /\ Past(call.epoch)
    BY <1>3 DEF HoldingsKept, ConnectionTrue, CallType
  <2> QED
    BY <1>1, <1>5, <2>1, ObserveIs DEF Past
<1>7. ReadTrue'
  BY <1>1, <1>2, <1>3, <1>5 DEF ReadTrue, HoldingsKept
<1>8. FrozenTrueOf(frozenCache)'
  BY <1>1, ObserveFrozen
<1>9. /\ looks' \in 0 .. MaxLooks /\ frozenCache' \in FrozenType
      /\ Distinct(frozenCache)' /\ Len(frozenCache') <= MaxEntries
  BY <1>1, TypesAre DEF HoldingsKept, Holdings!KeptOnce, Distinct
<1> QED
  BY <1>1, <1>4, <1>6, <1>7, <1>8, <1>9, ObserveSteps

LEMMA HoldingsFrozenAfter == HoldingsKept /\ Holdings!FrozenAfter => HoldingsKept'
<1> SUFFICES ASSUME HoldingsKept, Holdings!FrozenAfter PROVE HoldingsKept'
  OBVIOUS
<1>1. Holdings!Observe /\ db' = db /\ failures' = failures /\ looks' = looks /\ call.step = "after"
  BY DEF Holdings!FrozenAfter
<1>2. /\ call \in CallType /\ frozenCache \in FrozenType /\ looks \in 0 .. MaxLooks
      /\ Distinct(frozenCache) /\ call.epoch \in Holdings!Epochs /\ Past(call.epoch)
  BY TypesAre DEF HoldingsKept, ConnectionTrue, CallType, Holdings!KeptOnce, Distinct
<1>3. /\ Past(call.epoch) /\ call.holdings \in call.since .. db /\ call.since <= db
      /\ Now(call.epoch) => call.holdings = conn.seen
  BY <1>1, <1>2 DEF HoldingsKept, ReadTrue
<1>4. ASSUME NEW s \in {"done", "idle"}, call' = [call EXCEPT !.step = s]
      PROVE  call' \in CallType /\ ReadTrue' /\ Past(call.epoch)'
  <2>1. call' \in CallType /\ call'.epoch = call.epoch /\ call'.since = call.since /\ call'.holdings = call.holdings /\ call'.step = s
    BY <1>2, <1>4 DEF CallType
  <2>2. Past(call.epoch)'
    BY <1>1, <1>2, <2>1, ObserveIs DEF Past
  <2> QED
    BY <1>1, <1>3, <2>1, <2>2 DEF ReadTrue
<1>5. CASE Holdings!SameEpoch(call.epoch)
  <2> DEFINE key == Holdings!Key(call)
  <2>1. /\ frozenCache' = Holdings!Keep(key, call.holdings, frozenCache)
        /\ call' = [call EXCEPT !.step = "done"]
    BY <1>5 DEF Holdings!FrozenAfter
  <2>2. call.epoch.incarnation = incarnation' /\ call.epoch.version = conn'.dv
    BY <1>5 DEF Holdings!SameEpoch, Holdings!EpochNow
  <2>3. conn' = conn /\ incarnation' = incarnation /\ conn.state = "open"
    BY <1>1, <1>2, <2>2, ObserveIs DEF Past
  <2>4. call.holdings = conn'.seen
    BY <1>3, <2>2, <2>3 DEF Now
  <2>5. key = <<call.portfolio, call.epoch>> /\ key \in Portfolios \X Holdings!Epochs /\ key[2] = call.epoch
    BY <1>2 DEF Holdings!Key, CallType
  <2> HIDE DEF key
  <2>6. [key |-> key, holdings |-> call.holdings] \in [key : Portfolios \X Holdings!Epochs, holdings : Holdings!Commits]
    BY <1>2, <2>5 DEF CallType
  <2>7. /\ frozenCache' \in FrozenType /\ Distinct(frozenCache') /\ Len(frozenCache') <= MaxEntries
        /\ \A i \in 1 .. Len(frozenCache') :
             \/ frozenCache'[i] = [key |-> key, holdings |-> call.holdings]
             \/ \E j \in 1 .. Len(frozenCache) : frozenCache'[i] = frozenCache[j]
    <3> DEFINE kept == Holdings!Keep(key, call.holdings, frozenCache)
               S == [key : Portfolios \X Holdings!Epochs, holdings : Holdings!Commits]
    <3>1. frozenCache \in Seq(S) /\ FrozenType = Seq(S)
      BY <1>2 DEF FrozenType, Holdings!Kept
    <3> HIDE DEF S
    <3>2. [key |-> key, holdings |-> call.holdings] \in S
      BY <2>6 DEF S
    <3>3. /\ kept \in Seq(S) /\ Distinct(kept) /\ Len(kept) <= MaxEntries
          /\ \A i \in 1 .. Len(kept) :
               \/ kept[i] = [key |-> key, holdings |-> call.holdings]
               \/ \E j \in 1 .. Len(frozenCache) : kept[i] = frozenCache[j]
      BY <1>2, <3>1, <3>2, KeepIs
    <3> QED
      BY <2>1, <3>1, <3>3
  <2>8. \A j \in 1 .. Len(frozenCache) : Past(frozenCache[j].key[2]) /\ (Now(frozenCache[j].key[2]) => frozenCache[j].holdings = conn.seen)
    BY FrozenIs DEF FrozenTrueOf
  <2>9. ASSUME NEW i \in 1 .. Len(frozenCache')
        PROVE  /\ Past(frozenCache'[i].key[2])
               /\ Now(frozenCache'[i].key[2]) => frozenCache'[i].holdings = conn.seen
    <3>1. CASE frozenCache'[i] = [key |-> key, holdings |-> call.holdings]
      BY <3>1, <1>2, <2>3, <2>4, <2>5
    <3>2. CASE \E j \in 1 .. Len(frozenCache) : frozenCache'[i] = frozenCache[j]
      BY <3>2, <2>8
    <3> QED
      BY <2>7, <3>1, <3>2
  <2>10. FrozenTrueOf(frozenCache)'
    BY <2>3, <2>9 DEF FrozenTrueOf, Past, Now
  <2>11. Distinct(frozenCache)'
    BY <2>7 DEF Distinct
  <2> QED
    BY <1>1, <1>2, <1>4, <2>1, <2>7, <2>10, <2>11, ObserveSteps
<1>6. CASE ~Holdings!SameEpoch(call.epoch)
  <2>1. frozenCache' = << >> /\ call' = [call EXCEPT !.step = "idle"]
    BY <1>6 DEF Holdings!FrozenAfter
  <2>2. /\ frozenCache' \in FrozenType /\ Distinct(frozenCache)' /\ Len(frozenCache') <= MaxEntries
        /\ FrozenTrueOf(frozenCache)'
    BY <2>1, HoldingsBounds DEF FrozenType, Holdings!Kept, Distinct, FrozenTrueOf
  <2> QED
    BY <1>1, <1>2, <1>4, <2>1, <2>2, ObserveSteps
<1> QED
  BY <1>5, <1>6

\* The steps that leave the connection where it is or drop it.
LEMMA HoldingsCommit == HoldingsKept /\ Holdings!Commit => HoldingsKept'
<1> SUFFICES ASSUME HoldingsKept, Holdings!Commit PROVE HoldingsKept'
  OBVIOUS
<1>1. /\ db' = db + 1 /\ db < MaxCommits /\ conn' = conn /\ incarnation' = incarnation /\ version' = version
      /\ holdings' = holdings /\ frozenCache' = frozenCache /\ call' = call /\ looks' = looks /\ failures' = failures
  BY DEF Holdings!Commit, Holdings!cacheVars
<1>2. db \in Nat /\ conn.seen \in Nat /\ call.since \in Nat /\ call.holdings \in Nat
  BY HoldingsFields DEF HoldingsKept
<1>3. Holdings!TypeOK'
  <2>1. db' \in Holdings!Commits
    BY <1>1, <1>2, HoldingsBounds DEF Holdings!Commits
  <2> QED
    BY <1>1, <2>1 DEF HoldingsKept, Holdings!TypeOK
<1>4. Holdings!KeptTrue' /\ Holdings!KeptOnce'
  BY <1>1 DEF HoldingsKept, Holdings!KeptTrue, Holdings!KeptOnce
<1>5. ConnectionTrue'
  BY <1>1, <1>2 DEF HoldingsKept, ConnectionTrue, Past
<1>6. ReadTrue'
  BY <1>1, <1>2 DEF HoldingsKept, ReadTrue, Now
<1> QED
  BY <1>3, <1>4, <1>5, <1>6 DEF HoldingsKept

\* Nothing kept, and a connection that is not open: all the rest is true as it was.
LEMMA ClosedSteps ==
    ASSUME HoldingsKept, conn' \in ConnType, conn'.state # "open", conn'.seen = conn.seen, conn'.dv = conn.dv,
           incarnation' = incarnation, version' = Holdings!None, holdings' = << >>,
           db' = db, frozenCache' = frozenCache, looks' = looks, failures' \in 0 .. MaxFailures,
           NEW s, call' = [call EXCEPT !.step = s],
           s \in {"idle", "miss"} \/ (s \in {"after", "done"} /\ call.step = s)
    PROVE  HoldingsKept'
<1>1. call \in CallType
  BY TypesAre DEF HoldingsKept
<1>2. /\ call' \in CallType /\ call'.step = s /\ call'.epoch = call.epoch
      /\ call'.holdings = call.holdings /\ call'.since = call.since
  BY <1>1 DEF CallType
<1>3. Holdings!TypeOK'
  <2>1. call' \in [step : {"idle", "miss", "hit", "snapshot", "verify", "after", "done"},
             portfolio : Portfolios, epoch : Holdings!Epochs, before : Holdings!DataVersions,
             holdings : Holdings!Commits, since : Holdings!Commits]
    BY <1>2 DEF CallType
  <2> QED
    BY <2>1 DEF HoldingsKept, Holdings!TypeOK, ConnType, Holdings!Kept
<1>4. Holdings!KeptTrue'
  BY DEF Holdings!KeptTrue
<1>5. Holdings!KeptOnce'
  BY HoldingsBounds DEF HoldingsKept, Holdings!KeptOnce
<1>6. ConnectionTrue'
  <2>1. \A i \in 1 .. Len(frozenCache') : Past(frozenCache[i].key[2])'
    BY DEF HoldingsKept, ConnectionTrue, Past
  <2>2. Past(call.epoch)'
    BY <1>2 DEF HoldingsKept, ConnectionTrue, Past
  <2>3. conn'.seen <= db' /\ conn'.dv <= conn'.seen + 1
    BY DEF HoldingsKept, ConnectionTrue
  <2> QED
    BY <2>1, <2>2, <2>3 DEF ConnectionTrue
<1>7. ReadTrue'
  BY <1>2 DEF HoldingsKept, ReadTrue, Now
<1> QED
  BY <1>3, <1>4, <1>5, <1>6, <1>7 DEF HoldingsKept

\* A connection given up takes the cache with it.
LEMMA DiscardIs ==
    ASSUME HoldingsKept, Holdings!Discard
    PROVE  /\ conn' \in ConnType /\ conn'.state \in {"none", "broken"}
           /\ conn'.seen = conn.seen /\ conn'.dv = conn.dv
           /\ incarnation' = incarnation /\ version' = Holdings!None /\ holdings' = << >>
           /\ conn'.state = "broken" => failures < MaxFailures
<1>1. conn \in ConnType
  BY TypesAre DEF HoldingsKept
<1>2. PICK s \in {"none", "broken"} :
        /\ s = "broken" => failures < MaxFailures
        /\ conn' = [conn EXCEPT !.state = IF conn.state = "none" THEN "none" ELSE s]
  BY DEF Holdings!Discard
<1>3. incarnation' = incarnation /\ version' = Holdings!None /\ holdings' = << >>
  BY DEF Holdings!Discard
<1> QED
  BY <1>1, <1>2, <1>3 DEF ConnType

\* A read that finds another version, fails, or meets a broken connection gives it up.
LEMMA HoldingsDropped ==
    HoldingsKept /\ (Holdings!ReadChanged \/ Holdings!Fail \/ Holdings!BrokenUse) => HoldingsKept'
<1> SUFFICES ASSUME HoldingsKept, Holdings!ReadChanged \/ Holdings!Fail \/ Holdings!BrokenUse PROVE HoldingsKept'
  OBVIOUS
<1>1. failures \in 0 .. MaxFailures /\ MaxFailures \in Nat /\ call \in CallType /\ conn \in ConnType
  BY TypesAre, HoldingsBounds DEF HoldingsKept
<1>2. CASE Holdings!ReadChanged
  <2>1. /\ Holdings!Discard /\ failures' = IF conn'.state = "broken" THEN failures + 1 ELSE failures
        /\ call' = [call EXCEPT !.step = "idle"] /\ db' = db /\ frozenCache' = frozenCache /\ looks' = looks
    BY <1>2 DEF Holdings!ReadChanged
  <2>2. failures' \in 0 .. MaxFailures
    BY <1>1, <2>1, DiscardIs
  <2> QED
    BY <2>1, <2>2, DiscardIs, ClosedSteps
<1>3. CASE Holdings!Fail
  <2>1. /\ Holdings!Discard /\ failures < MaxFailures /\ failures' = failures + 1
        /\ db' = db /\ frozenCache' = frozenCache /\ looks' = looks
    BY <1>3 DEF Holdings!Fail
  <2>2. PICK s \in {call.step, "idle"} :
          (s # "idle" => call.step \in {"after", "done"}) /\ call' = [call EXCEPT !.step = s]
    BY <1>3 DEF Holdings!Fail
  <2>3. failures' \in 0 .. MaxFailures
    BY <1>1, <2>1
  <2> QED
    BY <2>1, <2>2, <2>3, DiscardIs, ClosedSteps
<1>4. CASE Holdings!BrokenUse
  <2> DEFINE s == IF Holdings!Unlocked /\ call.step \in {"miss", "after"} THEN "idle" ELSE call.step
  <2>1. /\ conn.state = "broken" /\ conn' = [conn EXCEPT !.state = "none"]
        /\ call' = [call EXCEPT !.step = s]
        /\ db' = db /\ incarnation' = incarnation /\ version' = version /\ holdings' = holdings
        /\ frozenCache' = frozenCache /\ looks' = looks /\ failures' = failures
    BY <1>4 DEF Holdings!BrokenUse
  <2>2. conn' \in ConnType /\ conn'.state = "none" /\ conn'.seen = conn.seen /\ conn'.dv = conn.dv
    BY <1>1, <2>1 DEF ConnType
  <2>3. version = Holdings!None /\ holdings = << >> /\ call.step \notin {"hit", "snapshot", "verify"}
    BY <2>1 DEF HoldingsKept, ConnectionTrue, ReadTrue
  <2>4. s \in {"idle", "miss"} \/ (s \in {"after", "done"} /\ call.step = s)
    BY <1>1, <2>3 DEF CallType
  <2> HIDE DEF s
  <2> QED
    BY <1>1, <2>1, <2>2, <2>3, <2>4, ClosedSteps
<1> QED
  BY <1>2, <1>3, <1>4

\* An open connection whose version has not moved has seen every commit.
LEMMA UnchangedIs ==
    ASSUME HoldingsKept, conn.state = "open", NEW v \in Int, v <= conn.dv, Holdings!Unchanged(v)
    PROVE  v = conn.dv /\ Holdings!Observed = conn /\ conn.seen = db
<1>1. conn \in ConnType /\ conn.dv \in Nat
  BY TypesAre, HoldingsFields DEF HoldingsKept
<1>2. Holdings!Observed = IF conn.seen = db THEN conn ELSE [conn EXCEPT !.seen = db, !.dv = conn.dv + 1]
  BY DEF Holdings!Observed, Holdings!Opened, Holdings!Synced
<1>3. CASE conn.seen # db
  <2>1. Holdings!Observed.dv = conn.dv + 1
    BY <1>1, <1>2, <1>3 DEF ConnType
  <2> QED
    BY <1>1, <2>1 DEF Holdings!Unchanged
<1>4. CASE conn.seen = db
  BY <1>2, <1>4 DEF Holdings!Unchanged
<1> QED
  BY <1>3, <1>4

\* A read that ends with the connection where it was keeps what it has read.
LEMMA ReadEnds ==
    ASSUME HoldingsKept, conn.state = "open", conn.seen = db, conn' = conn,
           db' = db, incarnation' = incarnation, version' = version, frozenCache' = frozenCache,
           looks' = looks, failures' = failures,
           holdings' \in Holdings!Kept(Portfolios), Distinct(holdings'), Len(holdings') <= MaxEntries,
           version = conn.dv => \A i \in 1 .. Len(holdings') : holdings'[i].holdings = conn.seen,
           NEW h \in Holdings!Commits, h = db,
           call' = [call EXCEPT !.step = "after", !.holdings = h]
    PROVE  HoldingsKept'
<1>1. call \in CallType /\ call.since <= db /\ db \in Nat /\ call.since \in Nat
  BY TypesAre, HoldingsFields DEF HoldingsKept, ReadTrue
<1>2. /\ call' \in CallType /\ call'.step = "after" /\ call'.epoch = call.epoch
      /\ call'.holdings = h /\ call'.since = call.since
  BY <1>1 DEF CallType
<1>3. Holdings!TypeOK'
  <2>1. call' \in [step : {"idle", "miss", "hit", "snapshot", "verify", "after", "done"},
             portfolio : Portfolios, epoch : Holdings!Epochs, before : Holdings!DataVersions,
             holdings : Holdings!Commits, since : Holdings!Commits]
    BY <1>2 DEF CallType
  <2> QED
    BY <2>1 DEF HoldingsKept, Holdings!TypeOK
<1>4. Holdings!KeptTrue'
  <2>1. \A i \in 1 .. Len(frozenCache) :
          conn.state = "open" /\ frozenCache[i].key[2].incarnation = incarnation
          /\ frozenCache[i].key[2].version = conn.dv => frozenCache[i].holdings = conn.seen
    BY DEF HoldingsKept, Holdings!KeptTrue
  <2> QED
    BY <2>1 DEF Holdings!KeptTrue
<1>5. Holdings!KeptOnce'
  BY DEF HoldingsKept, Holdings!KeptOnce, Distinct
<1>6. ConnectionTrue'
  BY <1>2 DEF HoldingsKept, ConnectionTrue, Past
<1>7. ReadTrue'
  BY <1>1, <1>2 DEF ReadTrue, Now
<1> QED
  BY <1>3, <1>4, <1>5, <1>6, <1>7 DEF HoldingsKept

LEMMA HoldingsReadHit == HoldingsKept /\ Holdings!ReadHit => HoldingsKept'
<1> SUFFICES ASSUME HoldingsKept, Holdings!ReadHit PROVE HoldingsKept'
  OBVIOUS
<1>1. /\ call.step = "hit" /\ Holdings!Unchanged(call.before) /\ conn' = Holdings!Observed
      /\ db' = db /\ incarnation' = incarnation /\ version' = version /\ frozenCache' = frozenCache
      /\ looks' = looks /\ failures' = failures
  BY DEF Holdings!ReadHit
<1>2. PICK i \in Holdings!Find(call.portfolio, holdings) :
        /\ holdings' = Append(Holdings!Without(call.portfolio, holdings), holdings[i])
        /\ call' = [call EXCEPT !.step = "after", !.holdings = holdings[i].holdings]
  BY DEF Holdings!ReadHit
<1>3. conn.state = "open" /\ version = conn.dv /\ call.before = conn.dv /\ call.before \in Int /\ conn.dv \in Int
  BY <1>1, HoldingsFields DEF HoldingsKept, ReadTrue
<1>4. conn' = conn /\ conn.seen = db
  BY <1>1, <1>3, UnchangedIs
<1> DEFINE S == [key : Portfolios, holdings : Holdings!Commits]
           w == Holdings!Without(call.portfolio, holdings)
<1>5. holdings \in Seq(S) /\ Distinct(holdings) /\ Len(holdings) <= MaxEntries /\ Len(holdings) \in Nat
      /\ Holdings!Kept(Portfolios) = Seq(S)
  BY DEF HoldingsKept, Holdings!TypeOK, Holdings!Kept, Holdings!KeptOnce, Distinct
<1>6. \A j \in 1 .. Len(holdings) : holdings[j].holdings = conn.seen
  BY <1>3 DEF HoldingsKept, Holdings!KeptTrue
<1>7. i \in 1 .. Len(holdings) /\ holdings[i].key = call.portfolio /\ Holdings!Find(call.portfolio, holdings) # {}
  BY DEF Holdings!Find
<1>8. holdings[i] \in S /\ holdings[i].holdings \in Holdings!Commits
  <2>1. holdings[i] \in S
    BY <1>5, <1>7, ElementIn
  <2> QED
    BY <2>1
<1> HIDE DEF S
<1>9. /\ w \in Seq(S) /\ Distinct(w) /\ Among(w, holdings) /\ Len(w) = Len(holdings) - 1
      /\ \A j \in 1 .. Len(w) : w[j].key # holdings[i].key
  BY <1>5, <1>7, WithoutIs
<1> HIDE DEF w
<1>10. /\ holdings' \in Seq(S) /\ Distinct(holdings') /\ Len(holdings') = Len(w) + 1
       /\ \A j \in 1 .. Len(w) + 1 : holdings'[j] = holdings[i] \/ \E l \in 1 .. Len(w) : holdings'[j] = w[l]
  BY <1>2, <1>8, <1>9, AppendIs DEF w
<1>11. ASSUME NEW j \in 1 .. Len(holdings') PROVE holdings'[j].holdings = conn.seen
  <2>1. \E l \in 1 .. Len(holdings) : holdings'[j] = holdings[l]
    BY <1>7, <1>9, <1>10 DEF Among
  <2> QED
    BY <1>6, <2>1
<1>12. Len(holdings') <= MaxEntries
  BY <1>5, <1>9, <1>10
<1> QED
  BY <1>1, <1>2, <1>3, <1>4, <1>5, <1>6, <1>7, <1>8, <1>10, <1>11, <1>12, ReadEnds

LEMMA HoldingsReadVerified == HoldingsKept /\ Holdings!ReadVerified => HoldingsKept'
<1> SUFFICES ASSUME HoldingsKept, Holdings!ReadVerified PROVE HoldingsKept'
  OBVIOUS
<1>1. /\ call.step = "verify" /\ Holdings!Unchanged(call.before) /\ conn' = Holdings!Observed
      /\ holdings' = Holdings!Keep(call.portfolio, call.holdings, holdings)
      /\ call' = [call EXCEPT !.step = "after"]
      /\ db' = db /\ incarnation' = incarnation /\ version' = version /\ frozenCache' = frozenCache
      /\ looks' = looks /\ failures' = failures
  BY DEF Holdings!ReadVerified
<1>2. conn.state = "open" /\ call.before <= conn.dv /\ call.holdings = conn.seen /\ call.before \in Int
  BY <1>1, HoldingsFields DEF HoldingsKept, ReadTrue
<1>3. conn' = conn /\ conn.seen = db
  BY <1>1, <1>2, UnchangedIs
<1> DEFINE S == [key : Portfolios, holdings : Holdings!Commits]
           e == [key |-> call.portfolio, holdings |-> call.holdings]
<1>4. holdings \in Seq(S) /\ Distinct(holdings) /\ Holdings!Kept(Portfolios) = Seq(S) /\ call \in CallType
  BY TypesAre DEF HoldingsKept, Holdings!Kept, Holdings!KeptOnce, Distinct
<1>5. e \in S /\ e.holdings = conn.seen /\ call.holdings \in Holdings!Commits
  BY <1>2, <1>4 DEF CallType
<1> HIDE DEF S
<1>6. /\ holdings' \in Seq(S) /\ Distinct(holdings') /\ Len(holdings') <= MaxEntries
      /\ \A i \in 1 .. Len(holdings') : holdings'[i] = e \/ \E j \in 1 .. Len(holdings) : holdings'[i] = holdings[j]
  BY <1>1, <1>4, <1>5, KeepIs
<1>7. version = conn.dv => \A i \in 1 .. Len(holdings') : holdings'[i].holdings = conn.seen
  BY <1>2, <1>5, <1>6 DEF HoldingsKept, Holdings!KeptTrue
<1>8. call' = [call EXCEPT !.step = "after", !.holdings = call.holdings]
  BY <1>1, <1>4 DEF CallType
<1> QED
  BY <1>1, <1>2, <1>3, <1>4, <1>5, <1>6, <1>7, <1>8, ReadEnds

LEMMA HoldingsReadSnapshot == HoldingsKept /\ Holdings!ReadSnapshot => HoldingsKept'
<1> SUFFICES ASSUME HoldingsKept, Holdings!ReadSnapshot PROVE HoldingsKept'
  OBVIOUS
<1>1. /\ call.step = "snapshot" /\ conn' = Holdings!Synced(conn)
      /\ call' = [call EXCEPT !.step = "verify", !.holdings = db]
      /\ db' = db /\ incarnation' = incarnation /\ version' = version /\ holdings' = holdings
      /\ frozenCache' = frozenCache /\ looks' = looks /\ failures' = failures
  BY DEF Holdings!ReadSnapshot
<1>2. conn.state = "open" /\ version = conn.dv /\ call.before = conn.dv /\ call.since <= db
  BY <1>1 DEF HoldingsKept, ReadTrue
<1>3. /\ db \in Nat /\ conn.seen \in Nat /\ conn.dv \in Nat /\ call.since \in Nat /\ call.epoch \in Holdings!Epochs
      /\ incarnation \in Nat /\ call.epoch.version \in Nat /\ db \in Holdings!Commits
      /\ call \in CallType /\ conn \in ConnType
  BY HoldingsFields, TypesAre DEF HoldingsKept, CallType
<1>4. conn.seen <= db /\ conn.dv <= conn.seen + 1
  BY DEF HoldingsKept, ConnectionTrue
<1>5. /\ conn' \in ConnType /\ conn'.state = "open" /\ conn'.seen = db /\ conn'.dv <= db + 1 /\ conn'.dv \in Nat
      /\ conn.dv <= conn'.dv /\ (conn'.dv = conn.dv => conn' = conn)
  <2>1. CASE conn.seen = db
    BY <1>1, <1>2, <1>3, <1>4, <2>1 DEF Holdings!Synced
  <2>2. CASE conn.seen # db
    <3>1. conn' = [conn EXCEPT !.seen = db, !.dv = conn.dv + 1]
      BY <1>1, <2>2 DEF Holdings!Synced
    <3>2. conn.dv + 1 \in Holdings!DataVersions
      <4>1. conn.dv + 1 <= db + 1 /\ db \in 0 .. MaxCommits
        BY <1>3, <1>4, <2>2 DEF Holdings!Commits
      <4> QED
        BY <4>1, <1>3, HoldingsBounds DEF Holdings!DataVersions
    <3>3. conn' \in ConnType /\ conn'.state = "open" /\ conn'.seen = db /\ conn'.dv = conn.dv + 1
      BY <1>2, <1>3, <3>1, <3>2 DEF ConnType
    <3>4. conn.seen + 1 <= db
      BY <1>3, <1>4, <2>2
    <3>5. conn'.dv <= db + 1 /\ conn'.dv \in Nat /\ conn.dv <= conn'.dv /\ conn'.dv # conn.dv
      BY <1>3, <1>4, <3>3, <3>4
    <3> QED
      BY <3>3, <3>5
  <2> QED
    BY <2>1, <2>2
<1>6. /\ call' \in CallType /\ call'.step = "verify" /\ call'.epoch = call.epoch /\ call'.holdings = db
      /\ call'.since = call.since /\ call'.before = call.before
  BY <1>1, <1>3 DEF CallType
<1>7. Holdings!TypeOK'
  <2>1. call' \in [step : {"idle", "miss", "hit", "snapshot", "verify", "after", "done"},
             portfolio : Portfolios, epoch : Holdings!Epochs, before : Holdings!DataVersions,
             holdings : Holdings!Commits, since : Holdings!Commits]
    BY <1>6 DEF CallType
  <2>2. conn' \in [state : {"none", "open", "broken"}, seen : Holdings!Commits, dv : Holdings!DataVersions]
    BY <1>5 DEF ConnType
  <2> QED
    BY <1>1, <2>1, <2>2 DEF HoldingsKept, Holdings!TypeOK
<1>8. ASSUME NEW e \in Holdings!Epochs, Past(e)
      PROVE  Past(e)' /\ (Now(e)' => Now(e) /\ conn' = conn)
  <2>1. e.version \in Int
    BY HoldingsBounds DEF Holdings!Epochs, Holdings!DataVersions
  <2> QED
    BY <1>1, <1>2, <1>3, <1>5, <1>8, <2>1 DEF Past, Now
<1>9. ASSUME NEW i \in 1 .. Len(frozenCache)
      PROVE  /\ Past(frozenCache[i].key[2])'
             /\ Now(frozenCache[i].key[2])' => frozenCache[i].holdings = conn'.seen
  <2> DEFINE e == frozenCache[i].key[2]
  <2>1. e \in Holdings!Epochs /\ Past(e) /\ (Now(e) => frozenCache[i].holdings = conn.seen) /\ e' = e
    BY <1>1, HoldingsFields, FrozenIs DEF HoldingsKept, FrozenTrueOf
  <2> HIDE DEF e
  <2>2. Past(e)' /\ (Now(e)' => Now(e) /\ conn' = conn)
    BY <1>8, <2>1
  <2> QED
    BY <2>1, <2>2 DEF e
<1>10. Holdings!KeptTrue'
  <2>1. version' = conn'.dv => \A i \in 1 .. Len(holdings') : holdings'[i].holdings = conn'.seen
    BY <1>1, <1>2, <1>5 DEF HoldingsKept, Holdings!KeptTrue
  <2> QED
    BY <1>1, <1>9, <2>1 DEF Holdings!KeptTrue, Now
<1>11. Holdings!KeptOnce'
  BY <1>1 DEF HoldingsKept, Holdings!KeptOnce
<1>12. ConnectionTrue'
  <2>1. Past(call.epoch)'
    BY <1>1, <1>3, <1>5, <1>6 DEF HoldingsKept, ConnectionTrue, Past
  <2>2. version' # Holdings!None => version' <= conn'.dv
    BY <1>1, <1>2, <1>5
  <2> QED
    BY <1>1, <1>3, <1>5, <1>9, <2>1, <2>2 DEF ConnectionTrue
<1>13. ReadTrue'
  BY <1>1, <1>2, <1>3, <1>5, <1>6 DEF ReadTrue
<1> QED
  BY <1>7, <1>10, <1>11, <1>12, <1>13 DEF HoldingsKept

\* Every step keeps the invariant.
LEMMA HoldingsStep == HoldingsKept /\ [Holdings!Next]_Holdings!vars => HoldingsKept'
<1> SUFFICES ASSUME HoldingsKept, [Holdings!Next]_Holdings!vars PROVE HoldingsKept'
  OBVIOUS
<1>1. CASE Holdings!Next
  BY <1>1, HoldingsCommit, HoldingsIdentityRevision, HoldingsFrozenBegin, HoldingsReadBegin, HoldingsReadHit,
     HoldingsReadSnapshot, HoldingsReadVerified, HoldingsDropped, HoldingsFrozenAfter DEF Holdings!Next
<1>2. CASE UNCHANGED Holdings!vars
  BY <1>2 DEF Holdings!vars, Holdings!cacheVars, HoldingsKept, Holdings!TypeOK, Holdings!KeptTrue,
              Holdings!KeptOnce, ConnectionTrue, ReadTrue, Past, Now
<1> QED
  BY <1>1, <1>2

\* Holdings kept for the version a connection stands at, frozen for its epoch or
\* returned by a call are what the database held at one moment, within the limit of
\* entries, whatever commits, failures and closed connections come between
\* (holdings_cache.py, HoldingsCache; pipeline_host.py, frozen).
THEOREM HoldingsHold == Holdings!Spec => []HoldingsInv
<1>1. HoldingsKept => HoldingsInv
  BY DEF HoldingsInv, Holdings!HoldingsInv, HoldingsKept, Holdings!FrozenTrue, ReadTrue
<1> QED
  BY <1>1, HoldingsInit, HoldingsStep, PTL DEF Holdings!Spec

-----------------------------------------------------------------------------
(***************************************************************************)
(* Saved slices (SliceCache), for any readers, requests, sizes and limits. *)
(* A builder's page is whole when the fence it read before and the one it  *)
(* reads after are the same revision; a flight that is not void is the only *)
(* one of its key and of the cache's fence, and until it is published no   *)
(* entry has its key: so what a store adds to the bytes is its page.       *)
(***************************************************************************)
Building == {"build", "built", "publish", "land"}
Fenced == Building \cup {"get", "wait", "post"}
Whole(p, f) == p.begin = f /\ p.end = f

\* Where a thread is says what it knows of the revisions.
AskerTrue(a, rev) ==
    /\ a.since <= rev
    /\ a.step \in Fenced => a.fence \in a.since .. rev /\ a.attempt <= 2
    /\ a.outcome # "none" => a.step \in {"publish", "land"}
    /\ a.step = "land" => a.outcome # "none"
    /\ a.step = "publish" => a.outcome \in {"none", "stored", "private"}
    /\ a.step = "built" => a.fence <= a.page.begin /\ a.page.begin <= rev
    /\ a.step = "publish" => a.fence <= a.page.begin /\ a.page.begin <= a.page.end /\ a.page.end <= rev
    /\ a.step = "post" \/ a.outcome \in {"stored", "private"} => Whole(a.page, a.fence)
    /\ a.step \in {"plain", "plainEnd", "after"} => a.fence = Slice!None \/ a.fence \in a.since .. rev
    /\ a.step \in {"plainEnd", "after"} => a.fence <= a.page.begin /\ a.page.begin <= rev
    /\ a.step = "after" => a.page.begin <= a.page.end /\ a.page.end <= rev
    /\ a.step = "done" /\ a.current => a.page.begin = a.page.end /\ a.page.end \in a.since .. rev

AskersTrue == \A r \in Askers : AskerTrue(asker[r], saved)

FlightsTrue ==
    /\ IsFiniteSet(flights) /\ Cardinality(flights) <= MaxFlights
    /\ \A x \in flights : asker[x.leader].step \in Building /\ asker[x.leader].key = x.key
                          /\ asker[x.leader].fence = x.fence
    /\ \A x \in flights : ~x.invalidated => x.fence = fence
    /\ \A x, y \in flights : x.key = y.key /\ ~x.invalidated /\ ~y.invalidated => x = y
    /\ \A r \in Askers : asker[r].step \in Building => \E x \in flights : x.leader = r
    /\ \A r \in Askers : asker[r].step = "wait" => \E x \in Slice!FlightFor(r, flights) : ~x.invalidated

Unpublished ==
    \A x \in flights :
        ~x.invalidated /\ asker[x.leader].step # "land" =>
            \A i \in 1 .. Len(entries) : entries[i].key # x.key

SliceKept ==
    Slice!TypeOK /\ Slice!BytesExact /\ Slice!EntriesWhole /\ AskersTrue /\ FlightsTrue /\ Unpublished

-----------------------------------------------------------------------------
\* A value for each position of a sequence, each from the one before it: there is such a function.
Stepwise(f, V, start, L, step) ==
    f \in [0 .. L -> V] /\ f[0] = start /\ \A n \in 1 .. L : f[n] = step[<<n, f[n - 1]>>]

\* A recursive definition over the first L numbers is defined.
LEMMA Recursion ==
    ASSUME NEW V, NEW start \in V, NEW L \in Nat, NEW step,
           \A n \in 1 .. L : \A v \in V : step[<<n, v>>] \in V
    PROVE  \E f : Stepwise(f, V, start, L, step)
<1> DEFINE S == {m \in Nat : m <= L => \E f : Stepwise(f, V, start, m, step)}
<1>1. 0 \in S
  <2> DEFINE f == [n \in 0 .. 0 |-> start]
  <2>1. Stepwise(f, V, start, 0, step)
    BY DEF Stepwise
  <2> QED
    BY <2>1
<1>2. ASSUME NEW m \in Nat, m \in S PROVE m + 1 \in S
  <2> SUFFICES ASSUME m + 1 <= L PROVE \E g : Stepwise(g, V, start, m + 1, step)
    BY <1>2
  <2>1. PICK f : Stepwise(f, V, start, m, step)
    BY <1>2
  <2> DEFINE v == step[<<m + 1, f[m]>>]
             g == [n \in 0 .. m + 1 |-> IF n = m + 1 THEN v ELSE f[n]]
  <2>2. v \in V
    <3>1. m + 1 \in 1 .. L /\ f[m] \in V
      BY <2>1 DEF Stepwise
    <3> QED
      BY <3>1
  <2>3. \A n \in 0 .. m : g[n] = f[n]
    OBVIOUS
  <2>4. g[m + 1] = v /\ g \in [0 .. m + 1 -> V]
    <3>1. f \in [0 .. m -> V]
      BY <2>1 DEF Stepwise
    <3>2. \A n \in 0 .. m + 1 : n # m + 1 => n \in 0 .. m /\ f[n] \in V
      BY <3>1
    <3> HIDE DEF v
    <3> QED
      BY <2>2, <3>2
  <2> HIDE DEF g
  <2>5. ASSUME NEW n \in 1 .. m + 1 PROVE g[n] = step[<<n, g[n - 1]>>]
    <3>1. CASE n = m + 1
      BY <3>1, <2>3, <2>4
    <3>2. CASE n # m + 1
      <4>1. n \in 1 .. m /\ n \in 0 .. m /\ n - 1 \in 0 .. m
        BY <3>2
      <4> QED
        BY <4>1, <2>1, <2>3 DEF Stepwise
    <3> QED
      BY <3>1, <3>2
  <2>6. g[0] = start
    BY <2>1, <2>3 DEF Stepwise
  <2>7. Stepwise(g, V, start, m + 1, step)
    BY <2>4, <2>5, <2>6 DEF Stepwise
  <2> QED
    BY <2>7
<1>3. Nat \subseteq S
  <2> HIDE DEF S
  <2> QED
    BY <1>1, <1>2, Numbers
<1> QED
  BY <1>3

Pages == [key : Keys, page : Slice!Page]
Sums(q, f) == f[0] = 0 /\ \A n \in 1 .. Len(q) : f[n] = f[n - 1] + Size[q[n].key]

\* The sizes and limits are numbers.
LEMMA SizeIs ==
    Size \in [Keys -> Nat] /\ MaxEntryBytes \in Nat /\ MaxBytes \in Nat /\ MaxEntries \in Nat \ {0}
    /\ MaxFlights \in Nat \ {0} /\ MaxSaved \in Nat /\ MaxCalls \in Nat /\ MaxUnreadable \in Nat
BY CachesAssumption DEF Slice!SliceAssumption

\* An entry is a key with its page.
LEMMA EntryIs ==
    ASSUME NEW q \in Seq(Pages), NEW n \in 1 .. Len(q)
    PROVE  q[n] \in Pages /\ q[n].key \in Keys /\ q[n].page \in Slice!Page /\ Size[q[n].key] \in Nat
<1>1. q[n] \in Pages
  BY ElementIn
<1> QED
  BY <1>1, SizeIs DEF Pages

\* Bytes, by its sums so far.
LEMMA BytesIs ==
    ASSUME NEW q \in Seq(Pages)
    PROVE  \E f \in [0 .. Len(q) -> Nat] : Sums(q, f) /\ Slice!Bytes(q) = f[Len(q)]
<1> DEFINE L == Len(q)
           Is(f) == f = [n \in 0 .. L |-> IF n = 0 THEN 0 ELSE f[n - 1] + Size[q[n].key]]
           step == [x \in (1 .. L) \X Nat |-> x[2] + Size[q[x[1]].key]]
           c == CHOOSE f : Is(f)
<1>1. L \in Nat /\ \A n \in 1 .. L : Size[q[n].key] \in Nat
  BY EntryIs
<1>2. ASSUME NEW n \in 1 .. L, NEW v \in Nat PROVE step[<<n, v>>] = v + Size[q[n].key] /\ step[<<n, v>>] \in Nat
  BY <1>1
<1>3. Slice!Bytes(q) = c[L]
  BY DEF Slice!Bytes
<1>2a. \A n \in 1 .. L : \A v \in Nat : step[<<n, v>>] \in Nat
  BY <1>2
<1> HIDE DEF L, step
<1>4. PICK f : Stepwise(f, Nat, 0, L, step)
  BY <1>1, <1>2a, Recursion
<1>5. \A n \in 1 .. L : f[n] = f[n - 1] + Size[q[n].key]
  <2> TAKE n \in 1 .. L
  <2>1. n - 1 \in 0 .. L
    BY <1>1
  <2> QED
    BY <2>1, <1>2, <1>4 DEF Stepwise
<1>6. Is(f)
  <2> DEFINE g == [n \in 0 .. L |-> IF n = 0 THEN 0 ELSE f[n - 1] + Size[q[n].key]]
  <2>1. \A n \in 0 .. L : f[n] = g[n]
    <3> TAKE n \in 0 .. L
    <3>1. CASE n = 0
      BY <3>1, <1>4 DEF Stepwise
    <3>2. CASE n # 0
      <4>1. n \in 1 .. L
        BY <3>2, <1>1
      <4> QED
        BY <3>2, <4>1, <1>5
    <3> QED
      BY <3>1, <3>2
  <2> QED
    BY <2>1, <1>4 DEF Stepwise
<1>7. Is(c)
  <2> HIDE DEF Is
  <2> QED
    BY <1>6
<1> HIDE DEF c
<1>8. c[0] = 0 /\ \A n \in 1 .. L : c[n] = c[n - 1] + Size[q[n].key]
  <2>1. c[0] = 0
    <3>1. 0 \in 0 .. L
      BY <1>1
    <3> QED
      BY <3>1, <1>7
  <2>2. ASSUME NEW n \in 1 .. L PROVE c[n] = c[n - 1] + Size[q[n].key]
    <3>1. n \in 0 .. L /\ n # 0
      BY <1>1
    <3> QED
      BY <3>1, <1>7
  <2> QED
    BY <2>1, <2>2
<1>9. c = [n \in 0 .. L |-> c[n]]
  BY <1>7
<1>10. \A n \in 0 .. L : c[n] \in Nat
  <2> DEFINE S == {n \in Nat : n <= L => c[n] \in Nat}
  <2>1. 0 \in S
    BY <1>8
  <2>2. ASSUME NEW n \in Nat, n \in S PROVE n + 1 \in S
    <3>1. CASE n + 1 <= L
      <4>1. n + 1 \in 1 .. L /\ (n + 1) - 1 = n /\ n <= L
        BY <3>1, <1>1
      <4>2. c[n + 1] = c[n] + Size[q[n + 1].key]
        BY <4>1, <1>8
      <4>3. c[n] \in Nat /\ Size[q[n + 1].key] \in Nat
        BY <4>1, <2>2, <1>1
      <4> QED
        BY <4>2, <4>3
    <3> QED
      BY <3>1
  <2>3. Nat \subseteq S
    <3> HIDE DEF S
    <3> QED
      BY <2>1, <2>2, Numbers
  <2> QED
    BY <2>3, <1>1
<1>11. c \in [0 .. L -> Nat]
  BY <1>9, <1>10
<1>12. Sums(q, c)
  BY <1>8 DEF Sums, L
<1> QED
  BY <1>3, <1>11, <1>12 DEF L

\* Two functions of the sums so far agree where their sequences do.
SameKeys(q, p, m) == \A n \in 1 .. m : q[n].key = p[n].key

\* The running sums of two sequences agree as far as their keys do.
LEMMA SumsAgree ==
    ASSUME NEW q, NEW p, NEW f, NEW g, NEW m \in Nat, m <= Len(q), m <= Len(p), Len(q) \in Nat, Len(p) \in Nat,
           Sums(q, f), Sums(p, g), SameKeys(q, p, m)
    PROVE  f[m] = g[m]
<1> DEFINE S == {n \in Nat : n <= m => f[n] = g[n]}
<1>1. 0 \in S
  BY DEF Sums
<1>2. ASSUME NEW n \in Nat, n \in S PROVE n + 1 \in S
  <2>1. CASE n + 1 <= m
    <3>1. n + 1 \in 1 .. m /\ n + 1 \in 1 .. Len(q) /\ n + 1 \in 1 .. Len(p) /\ (n + 1) - 1 = n /\ n <= m
      BY <2>1
    <3>2. f[n + 1] = f[n] + Size[q[n + 1].key] /\ g[n + 1] = g[n] + Size[p[n + 1].key]
      BY <3>1 DEF Sums
    <3>3. q[n + 1].key = p[n + 1].key
      BY <3>1 DEF SameKeys
    <3> QED
      BY <3>1, <3>2, <3>3, <1>2
  <2> QED
    BY <2>1
<1>3. Nat \subseteq S
  <2> HIDE DEF S
  <2> QED
    BY <1>1, <1>2, Numbers
<1> QED
  BY <1>3

\* The bytes of a sequence are a number, none when it is empty.
LEMMA BytesNat ==
    ASSUME NEW q \in Seq(Pages) PROVE Slice!Bytes(q) \in Nat /\ (Len(q) = 0 => Slice!Bytes(q) = 0)
BY BytesIs DEF Sums

\* A new entry adds its size to the bytes.
LEMMA BytesAppend ==
    ASSUME NEW q \in Seq(Pages), NEW e \in Pages
    PROVE  Slice!Bytes(Append(q, e)) = Slice!Bytes(q) + Size[e.key]
<1> DEFINE p == Append(q, e)
<1>1. /\ p \in Seq(Pages) /\ Len(p) = Len(q) + 1 /\ Len(q) \in Nat /\ p[Len(q) + 1] = e
      /\ \A n \in 1 .. Len(q) : q[n] = p[n]
  OBVIOUS
<1> HIDE DEF p
<1>2. PICK f \in [0 .. Len(q) -> Nat] : Sums(q, f) /\ Slice!Bytes(q) = f[Len(q)]
  BY BytesIs
<1>3. PICK g \in [0 .. Len(p) -> Nat] : Sums(p, g) /\ Slice!Bytes(p) = g[Len(p)]
  BY <1>1, BytesIs
<1>4. f[Len(q)] = g[Len(q)]
  <2>1. Len(q) <= Len(q) /\ Len(q) <= Len(p) /\ Len(p) \in Nat /\ SameKeys(q, p, Len(q))
    BY <1>1 DEF SameKeys
  <2> QED
    BY <2>1, <1>1, <1>2, <1>3, SumsAgree
<1>5. g[Len(p)] = g[Len(q)] + Size[e.key]
  <2>1. Len(p) \in 1 .. Len(p) /\ Len(p) - 1 = Len(q)
    BY <1>1
  <2> QED
    BY <2>1, <1>1, <1>3 DEF Sums
<1> QED
  BY <1>1, <1>2, <1>3, <1>4, <1>5 DEF p

\* Others, by the rest so far.
Rests(K, q, f) ==
    f[0] = << >> /\ \A n \in 1 .. Len(q) : f[n] = IF q[n].key \in K THEN f[n - 1] ELSE Append(f[n - 1], q[n])

\* The entries of other keys are gathered from the oldest to the newest.
LEMMA OthersIs ==
    ASSUME NEW q \in Seq(Pages), NEW K
    PROVE  \E f \in [0 .. Len(q) -> Seq(Pages)] : Rests(K, q, f) /\ Slice!Others(K, q) = f[Len(q)]
<1> DEFINE L == Len(q)
           Is(f) == f = [n \in 0 .. L |->
                          IF n = 0 THEN << >>
                          ELSE IF q[n].key \in K THEN f[n - 1] ELSE Append(f[n - 1], q[n])]
           step == [x \in (1 .. L) \X Seq(Pages) |->
                      IF q[x[1]].key \in K THEN x[2] ELSE Append(x[2], q[x[1]])]
           c == CHOOSE f : Is(f)
<1>1. L \in Nat /\ \A n \in 1 .. L : q[n] \in Pages
  BY EntryIs
<1>2. ASSUME NEW n \in 1 .. L, NEW v \in Seq(Pages)
      PROVE  /\ step[<<n, v>>] = IF q[n].key \in K THEN v ELSE Append(v, q[n])
             /\ step[<<n, v>>] \in Seq(Pages)
  BY <1>1
<1>2a. \A n \in 1 .. L : \A v \in Seq(Pages) : step[<<n, v>>] \in Seq(Pages)
  BY <1>2
<1>2b. << >> \in Seq(Pages)
  OBVIOUS
<1>3. Slice!Others(K, q) = c[L]
  BY DEF Slice!Others
<1> HIDE DEF L, step
<1>4. PICK f : Stepwise(f, Seq(Pages), << >>, L, step)
  BY <1>1, <1>2a, <1>2b, Recursion
<1>5. \A n \in 1 .. L : f[n] = IF q[n].key \in K THEN f[n - 1] ELSE Append(f[n - 1], q[n])
  <2> TAKE n \in 1 .. L
  <2>1. n - 1 \in 0 .. L
    BY <1>1
  <2>2. f[n - 1] \in Seq(Pages) /\ f[n] = step[<<n, f[n - 1]>>]
    BY <2>1, <1>4 DEF Stepwise
  <2> QED
    BY <2>2, <1>2
<1>6. Is(f)
  <2> DEFINE g == [n \in 0 .. L |-> IF n = 0 THEN << >>
                          ELSE IF q[n].key \in K THEN f[n - 1] ELSE Append(f[n - 1], q[n])]
  <2>1. \A n \in 0 .. L : f[n] = g[n]
    <3> TAKE n \in 0 .. L
    <3>1. CASE n = 0
      BY <3>1, <1>4 DEF Stepwise
    <3>2. CASE n # 0
      <4>1. n \in 1 .. L
        BY <3>2, <1>1
      <4> QED
        BY <3>2, <4>1, <1>5
    <3> QED
      BY <3>1, <3>2
  <2> QED
    BY <2>1, <1>4 DEF Stepwise
<1>7. Is(c)
  <2> HIDE DEF Is
  <2> QED
    BY <1>6
<1> HIDE DEF c
<1>8. c[0] = << >> /\ \A n \in 1 .. L : c[n] = IF q[n].key \in K THEN c[n - 1] ELSE Append(c[n - 1], q[n])
  <2>1. c[0] = << >>
    <3>1. 0 \in 0 .. L
      BY <1>1
    <3> QED
      BY <3>1, <1>7
  <2>2. ASSUME NEW n \in 1 .. L PROVE c[n] = IF q[n].key \in K THEN c[n - 1] ELSE Append(c[n - 1], q[n])
    <3>1. n \in 0 .. L /\ n # 0
      BY <1>1
    <3> QED
      BY <3>1, <1>7
  <2> QED
    BY <2>1, <2>2
<1>9. c = [n \in 0 .. L |-> c[n]]
  BY <1>7
<1>10. \A n \in 0 .. L : c[n] \in Seq(Pages)
  <2> DEFINE S == {n \in Nat : n <= L => c[n] \in Seq(Pages)}
  <2>1. 0 \in S
    BY <1>8, <1>2b
  <2>2. ASSUME NEW n \in Nat, n \in S PROVE n + 1 \in S
    <3>1. CASE n + 1 <= L
      <4>1. n + 1 \in 1 .. L /\ (n + 1) - 1 = n /\ n <= L
        BY <3>1, <1>1
      <4>2. c[n + 1] = IF q[n + 1].key \in K THEN c[n] ELSE Append(c[n], q[n + 1])
        BY <4>1, <1>8
      <4>3. c[n] \in Seq(Pages) /\ q[n + 1] \in Pages
        BY <4>1, <2>2, <1>1
      <4>4. Append(c[n], q[n + 1]) \in Seq(Pages)
        BY <4>3
      <4>5. c[n + 1] \in Seq(Pages)
        BY <4>2, <4>3, <4>4, Zenon
      <4> QED
        BY <4>5
    <3> QED
      BY <3>1
  <2>3. Nat \subseteq S
    <3> HIDE DEF S
    <3> QED
      BY <2>1, <2>2, Numbers
  <2> QED
    BY <2>3, <1>1
<1>11. c \in [0 .. L -> Seq(Pages)]
  BY <1>9, <1>10
<1>12. Rests(K, q, c)
  BY <1>8 DEF Rests, L
<1> QED
  BY <1>3, <1>11, <1>12 DEF L

\* What the rest of the first n entries is, s being the sums.
RestTrue(K, q, s, p, n) ==
    /\ Len(p) <= n /\ Slice!Bytes(p) <= s[n]
    /\ \A i \in 1 .. Len(p) : p[i].key \notin K /\ \E j \in 1 .. n : p[i] = q[j]
    /\ \A i \in 1 .. n : q[i].key \in K => Len(p) + 1 <= n /\ Slice!Bytes(p) + Size[q[i].key] <= s[n]
    /\ Distinct(q) => Distinct(p)
    /\ (\A i \in 1 .. n : q[i].key \notin K) => Len(p) = n /\ \A i \in 1 .. n : p[i] = q[i]

\* Sums grow with their terms.
LEMMA SumsGrow == \A b, z, w, x \in Nat : b + z <= x => b + z <= x + w /\ (b + w) + z <= x + w
OBVIOUS

\* What the gathered entries and their bytes keep to, one entry further.
LEMMA RestStep ==
    ASSUME NEW q \in Seq(Pages), NEW K, NEW s \in [0 .. Len(q) -> Nat], Sums(q, s),
           NEW n \in 0 .. Len(q) - 1, NEW p \in Seq(Pages), RestTrue(K, q, s, p, n)
    PROVE  RestTrue(K, q, s, IF q[n + 1].key \in K THEN p ELSE Append(p, q[n + 1]), n + 1)
<1> DEFINE e == q[n + 1]
<1>1. n \in Nat /\ n + 1 \in 1 .. Len(q) /\ Len(q) \in Nat /\ Len(p) \in Nat
  OBVIOUS
<1>2. e \in Pages /\ Size[e.key] \in Nat
  BY <1>1, EntryIs
<1>3. s[n + 1] = s[n] + Size[e.key] /\ s[n] \in Nat /\ s[n + 1] \in Nat
  <2>1. (n + 1) - 1 = n /\ n \in 0 .. Len(q) /\ n + 1 \in 0 .. Len(q)
    BY <1>1
  <2> QED
    BY <2>1, <1>1 DEF Sums
<1>4. Slice!Bytes(p) \in Nat
  BY BytesNat
<1>5. \A i \in 1 .. n + 1 : i \in 1 .. n \/ i = n + 1
  BY <1>1
<1>6. \A i \in 1 .. n : i \in 1 .. Len(q) /\ Size[q[i].key] \in Nat /\ i \in 1 .. n + 1 /\ i # n + 1
  BY <1>1, EntryIs
<1>7. CASE e.key \in K
  <2>1. Len(p) <= n + 1 /\ Slice!Bytes(p) <= s[n + 1]
    BY <1>1, <1>2, <1>3, <1>4 DEF RestTrue
  <2>2. \A i \in 1 .. Len(p) : p[i].key \notin K /\ \E j \in 1 .. n + 1 : p[i] = q[j]
    BY <1>6 DEF RestTrue
  <2>3. ASSUME NEW i \in 1 .. n + 1, q[i].key \in K
        PROVE  Len(p) + 1 <= n + 1 /\ Slice!Bytes(p) + Size[q[i].key] <= s[n + 1]
    <3>1. CASE i = n + 1
      BY <3>1, <1>1, <1>2, <1>3, <1>4 DEF RestTrue
    <3>2. CASE i \in 1 .. n
      <4>1. Len(p) + 1 <= n /\ Slice!Bytes(p) + Size[q[i].key] <= s[n]
        BY <3>2, <2>3 DEF RestTrue
      <4>2. Size[q[i].key] \in Nat
        BY <3>2, <1>6
      <4>3. Slice!Bytes(p) + Size[q[i].key] <= s[n] + Size[e.key]
        BY <4>1, <4>2, <1>2, <1>3, <1>4, SumsGrow
      <4> QED
        BY <4>1, <4>3, <1>1, <1>3
    <3> QED
      BY <3>1, <3>2, <1>5
  <2>4. Distinct(q) => Distinct(p)
    BY DEF RestTrue
  <2>5. ~\A i \in 1 .. n + 1 : q[i].key \notin K
    <3>1. n + 1 \in 1 .. n + 1
      BY <1>1
    <3> QED
      BY <3>1, <1>7
  <2>6. RestTrue(K, q, s, p, n + 1)
    BY <2>1, <2>2, <2>3, <2>4, <2>5 DEF RestTrue
  <2> QED
    BY <2>6, <1>7
<1>8. CASE e.key \notin K
  <2> DEFINE a == Append(p, e)
  <2>1. /\ a \in Seq(Pages) /\ Len(a) = Len(p) + 1 /\ a[Len(p) + 1] = e
        /\ \A i \in 1 .. Len(p) : a[i] = p[i]
        /\ \A i \in 1 .. Len(p) + 1 : i \in 1 .. Len(p) \/ i = Len(p) + 1
    BY <1>1, <1>2
  <2>2. Slice!Bytes(a) = Slice!Bytes(p) + Size[e.key]
    BY <1>2, BytesAppend
  <2> HIDE DEF a
  <2>3. Len(a) <= n + 1 /\ Slice!Bytes(a) <= s[n + 1]
    BY <1>1, <1>2, <1>3, <1>4, <2>1, <2>2 DEF RestTrue
  <2>4. ASSUME NEW i \in 1 .. Len(a) PROVE a[i].key \notin K /\ \E j \in 1 .. n + 1 : a[i] = q[j]
    <3>1. CASE i = Len(p) + 1
      <4>1. n + 1 \in 1 .. n + 1
        BY <1>1
      <4> QED
        BY <4>1, <3>1, <2>1, <1>8
    <3>2. CASE i \in 1 .. Len(p)
      BY <3>2, <2>1, <1>6 DEF RestTrue
    <3> QED
      BY <3>1, <3>2, <2>1
  <2>5. ASSUME NEW i \in 1 .. n + 1, q[i].key \in K
        PROVE  Len(a) + 1 <= n + 1 /\ Slice!Bytes(a) + Size[q[i].key] <= s[n + 1]
    <3>1. i \in 1 .. n
      BY <2>5, <1>5, <1>8
    <3>2. Len(p) + 1 <= n /\ Slice!Bytes(p) + Size[q[i].key] <= s[n]
      BY <3>1, <2>5 DEF RestTrue
    <3>3. Size[q[i].key] \in Nat
      BY <3>1, <1>6
    <3>4. Slice!Bytes(a) + Size[q[i].key] <= s[n + 1]
      BY <3>2, <3>3, <2>2, <1>2, <1>3, <1>4, SumsGrow
    <3> QED
      BY <3>2, <3>4, <2>1, <1>1
  <2>6. ASSUME Distinct(q), NEW i \in 1 .. Len(a), NEW j \in 1 .. Len(a), a[i].key = a[j].key PROVE i = j
    <3>1. \A m \in 1 .. Len(p) : p[m].key # e.key
      <4> SUFFICES ASSUME NEW m \in 1 .. Len(p), p[m].key = e.key PROVE FALSE
        OBVIOUS
      <4>1. PICK l \in 1 .. n : p[m] = q[l]
        BY DEF RestTrue
      <4>2. l = n + 1
        BY <4>1, <1>1, <1>6, <2>6 DEF Distinct
      <4> QED
        BY <4>1, <4>2, <1>6
    <3>2. Distinct(p)
      BY <2>6 DEF RestTrue
    <3>3. CASE i \in 1 .. Len(p) /\ j \in 1 .. Len(p)
      BY <3>2, <3>3, <2>1, <2>6 DEF Distinct
    <3>4. CASE i = Len(p) + 1 \/ j = Len(p) + 1
      BY <3>1, <3>4, <2>1, <2>6
    <3> QED
      BY <3>3, <3>4, <2>1
  <2>7. ASSUME \A i \in 1 .. n + 1 : q[i].key \notin K PROVE Len(a) = n + 1 /\ \A i \in 1 .. n + 1 : a[i] = q[i]
    <3>1. Len(p) = n /\ \A i \in 1 .. n : p[i] = q[i]
      BY <2>7, <1>6 DEF RestTrue
    <3> QED
      BY <3>1, <2>1
  <2>8. Distinct(q) => Distinct(a)
    BY <2>6 DEF Distinct
  <2>9. RestTrue(K, q, s, a, n + 1)
    BY <2>3, <2>4, <2>5, <2>7, <2>8 DEF RestTrue
  <2> QED
    BY <2>9, <1>8 DEF a
<1> QED
  BY <1>7, <1>8

\* Dropping keys keeps the other entries, and takes the bytes of what it drops.
LEMMA OthersKeep ==
    ASSUME NEW q \in Seq(Pages), NEW K
    PROVE  /\ Slice!Others(K, q) \in Seq(Pages)
           /\ Len(Slice!Others(K, q)) <= Len(q) /\ Slice!Bytes(Slice!Others(K, q)) <= Slice!Bytes(q)
           /\ \A i \in 1 .. Len(Slice!Others(K, q)) : Slice!Others(K, q)[i].key \notin K
           /\ Among(Slice!Others(K, q), q)
           /\ Distinct(q) => Distinct(Slice!Others(K, q))
           /\ \A i \in 1 .. Len(q) : q[i].key \in K =>
                /\ Len(Slice!Others(K, q)) + 1 <= Len(q)
                /\ Slice!Bytes(Slice!Others(K, q)) + Size[q[i].key] <= Slice!Bytes(q)
           /\ (\A i \in 1 .. Len(q) : q[i].key \notin K) => Slice!Others(K, q) = q
<1>1. PICK f \in [0 .. Len(q) -> Seq(Pages)] : Rests(K, q, f) /\ Slice!Others(K, q) = f[Len(q)]
  BY OthersIs
<1>2. PICK s \in [0 .. Len(q) -> Nat] : Sums(q, s) /\ Slice!Bytes(q) = s[Len(q)]
  BY BytesIs
<1> DEFINE S == {n \in Nat : n <= Len(q) => RestTrue(K, q, s, f[n], n)}
<1>3. 0 \in S
  <2>1. f[0] = << >> /\ s[0] = 0
    BY <1>1, <1>2 DEF Rests, Sums
  <2>2. << >> \in Seq(Pages) /\ Len(<< >>) = 0
    OBVIOUS
  <2>3. Slice!Bytes(<< >>) = 0
    BY <2>2, BytesNat
  <2>4. RestTrue(K, q, s, << >>, 0)
    BY <2>1, <2>2, <2>3 DEF RestTrue, Distinct
  <2> QED
    BY <2>1, <2>4
<1>4. ASSUME NEW n \in Nat, n \in S PROVE n + 1 \in S
  <2>1. CASE n + 1 <= Len(q)
    <3>1. n \in 0 .. Len(q) - 1 /\ n + 1 \in 1 .. Len(q) /\ (n + 1) - 1 = n /\ n \in 0 .. Len(q)
      BY <2>1
    <3>2. f[n + 1] = IF q[n + 1].key \in K THEN f[n] ELSE Append(f[n], q[n + 1])
      BY <3>1, <1>1 DEF Rests
    <3>3. f[n] \in Seq(Pages) /\ RestTrue(K, q, s, f[n], n)
      BY <3>1, <1>4
    <3>4. RestTrue(K, q, s, f[n + 1], n + 1)
      BY <3>1, <3>2, <3>3, <1>2, RestStep
    <3> QED
      BY <3>4
  <2> QED
    BY <2>1
<1>5. Nat \subseteq S
  <2> HIDE DEF S
  <2> QED
    BY <1>3, <1>4, Numbers
<1> DEFINE o == Slice!Others(K, q)
<1>6. Len(q) \in Nat /\ o = f[Len(q)] /\ o \in Seq(Pages) /\ RestTrue(K, q, s, o, Len(q))
  BY <1>1, <1>5
<1> HIDE DEF o, S
<1>7. (\A i \in 1 .. Len(q) : q[i].key \notin K) => o = q
  <2> SUFFICES ASSUME \A i \in 1 .. Len(q) : q[i].key \notin K PROVE o = q
    OBVIOUS
  <2>1. Len(o) = Len(q) /\ \A i \in 1 .. Len(q) : o[i] = q[i]
    BY <1>6 DEF RestTrue
  <2> QED
    BY <2>1, <1>6, SeqEqual
<1>8. /\ Len(o) <= Len(q) /\ Slice!Bytes(o) <= Slice!Bytes(q)
      /\ \A i \in 1 .. Len(o) : o[i].key \notin K
      /\ Among(o, q) /\ (Distinct(q) => Distinct(o))
      /\ \A i \in 1 .. Len(q) : q[i].key \in K =>
           Len(o) + 1 <= Len(q) /\ Slice!Bytes(o) + Size[q[i].key] <= Slice!Bytes(q)
  BY <1>2, <1>6 DEF RestTrue, Among
<1> QED
  BY <1>6, <1>7, <1>8 DEF o

\* What a store leaves: the newest entries that hold both limits.
LEMMA EvictedIs ==
    ASSUME NEW q \in Seq(Pages), Distinct(q)
    PROVE  /\ Slice!Evicted(q) \in Seq(Pages) /\ Distinct(Slice!Evicted(q)) /\ Among(Slice!Evicted(q), q)
           /\ Len(Slice!Evicted(q)) <= MaxEntries /\ Slice!Bytes(Slice!Evicted(q)) <= MaxBytes
<1> DEFINE Good(n) == n \in 1 .. Len(q) + 1 /\ Slice!Fits(Slice!EvictedFrom(q, n))
                      /\ \A m \in 1 .. n - 1 : ~Slice!Fits(Slice!EvictedFrom(q, m))
           i == CHOOSE n \in 1 .. Len(q) + 1 :
                  Slice!Fits(Slice!EvictedFrom(q, n)) /\ \A m \in 1 .. n - 1 : ~Slice!Fits(Slice!EvictedFrom(q, m))
           S == {n \in Nat : n \in 1 .. Len(q) + 1 /\ Slice!Fits(Slice!EvictedFrom(q, n))}
<1>1. Len(q) \in Nat /\ MaxEntries \in Nat /\ MaxBytes \in Nat
  BY SizeIs
<1>2. ASSUME NEW n \in 1 .. Len(q) + 1
      PROVE  /\ Slice!EvictedFrom(q, n) \in Seq(Pages) /\ Len(Slice!EvictedFrom(q, n)) = Len(q) + 1 - n
             /\ \A j \in 1 .. Len(q) + 1 - n : Slice!EvictedFrom(q, n)[j] = q[n + j - 1]
  <2>1. n \in Int /\ Len(q) \in Int /\ \A j \in n .. Len(q) : q[j] \in Pages
    BY <1>1, EntryIs
  <2>2. /\ SubSeq(q, n, Len(q)) \in Seq(Pages)
        /\ Len(SubSeq(q, n, Len(q))) = IF n <= Len(q) THEN Len(q) - n + 1 ELSE 0
        /\ \A j \in 1 .. Len(q) - n + 1 : SubSeq(q, n, Len(q))[j] = q[n + j - 1]
    BY <2>1, SubSeqProperties
  <2>3. Slice!EvictedFrom(q, n) = SubSeq(q, n, Len(q))
    BY DEF Slice!EvictedFrom
  <2> HIDE DEF Good, i, S
  <2>4. (IF n <= Len(q) THEN Len(q) - n + 1 ELSE 0) = Len(q) + 1 - n /\ Len(q) - n + 1 = Len(q) + 1 - n
    BY <1>1
  <2> QED
    BY <2>2, <2>3, <2>4
<1>3. Len(q) + 1 \in S
  <2>1. Len(q) + 1 \in 1 .. Len(q) + 1
    BY <1>1
  <2>2. Slice!EvictedFrom(q, Len(q) + 1) \in Seq(Pages) /\ Len(Slice!EvictedFrom(q, Len(q) + 1)) = 0
    BY <1>1, <1>2, <2>1
  <2>3. Slice!Fits(Slice!EvictedFrom(q, Len(q) + 1))
    BY <1>1, <2>2, BytesNat DEF Slice!Fits
  <2> QED
    BY <1>1, <2>1, <2>3
<1>4. PICK n \in S : \A k \in S : n <= k
  <2>1. S \in SUBSET Nat /\ S # {}
    BY <1>3
  <2> HIDE DEF S
  <2> QED
    BY <2>1, Least
<1>5. ASSUME NEW m \in 1 .. n - 1 PROVE ~Slice!Fits(Slice!EvictedFrom(q, m))
  <2>1. m \in Nat /\ m \in 1 .. Len(q) + 1 /\ ~(n <= m)
    BY <1>1
  <2> QED
    BY <2>1, <1>4
<1>6. \E k \in 1 .. Len(q) + 1 :
        Slice!Fits(Slice!EvictedFrom(q, k)) /\ \A m \in 1 .. k - 1 : ~Slice!Fits(Slice!EvictedFrom(q, m))
  BY <1>4, <1>5
<1>7. i \in 1 .. Len(q) + 1 /\ Slice!Fits(Slice!EvictedFrom(q, i))
  <2> HIDE DEF S
  <2> QED
    BY <1>6
<1> DEFINE v == Slice!EvictedFrom(q, i)
<1>8. Slice!Evicted(q) = v
  BY DEF Slice!Evicted
<1> HIDE DEF i, S, Good
<1>9. v \in Seq(Pages) /\ Len(v) = Len(q) + 1 - i /\ \A j \in 1 .. Len(v) : v[j] = q[i + j - 1] /\ i + j - 1 \in 1 .. Len(q)
  BY <1>1, <1>2, <1>7
<1> HIDE DEF v
<1>10. Among(v, q)
  BY <1>9 DEF Among
<1>11. ASSUME NEW j \in 1 .. Len(v), NEW l \in 1 .. Len(v), v[j].key = v[l].key PROVE j = l
  <2>1. i + j - 1 = i + l - 1
    <3>1. i + j - 1 \in 1 .. Len(q) /\ i + l - 1 \in 1 .. Len(q) /\ v[j] = q[i + j - 1] /\ v[l] = q[i + l - 1]
      BY <1>9
    <3>2. q[i + j - 1].key = q[i + l - 1].key
      BY <3>1, <1>11
    <3> QED
      BY <3>1, <3>2 DEF Distinct
  <2> QED
    BY <2>1, <1>1, <1>7, <1>9
<1>12. Len(v) <= MaxEntries /\ Slice!Bytes(v) <= MaxBytes
  BY <1>7 DEF Slice!Fits, v
<1> QED
  BY <1>8, <1>9, <1>10, <1>11, <1>12 DEF Distinct

FlightType == [key : Keys, fence : Slice!Revisions, leader : Askers, invalidated : BOOLEAN]

\* What a look at another fence makes of the flights.
LEMMA FlightsAfterIs ==
    ASSUME flights \subseteq FlightType, IsFiniteSet(flights), NEW f
    PROVE  /\ Slice!FlightsAfter(f) \subseteq FlightType
           /\ IsFiniteSet(Slice!FlightsAfter(f)) /\ Cardinality(Slice!FlightsAfter(f)) <= Cardinality(flights)
           /\ ~Slice!Invalidates(f) => Slice!FlightsAfter(f) = flights
           /\ Slice!Invalidates(f) => \A y \in Slice!FlightsAfter(f) : y.invalidated
           /\ \A y \in Slice!FlightsAfter(f) :
                \E x \in flights : y.key = x.key /\ y.fence = x.fence /\ y.leader = x.leader
           /\ \A x \in flights : \E y \in Slice!FlightsAfter(f) : y.leader = x.leader
<1>1. CASE ~Slice!Invalidates(f)
  <2>1. Slice!FlightsAfter(f) = flights
    BY <1>1 DEF Slice!FlightsAfter
  <2>2. Cardinality(flights) <= Cardinality(flights)
    BY FS_CardinalityType
  <2> QED
    BY <1>1, <2>1, <2>2
<1>2. CASE Slice!Invalidates(f)
  <2> DEFINE Void(x) == [x EXCEPT !.invalidated = TRUE]
             T == {Void(x) : x \in flights}
             g == [x \in flights |-> Void(x)]
  <2>1. Slice!FlightsAfter(f) = T
    BY <1>2 DEF Slice!FlightsAfter
  <2>2. \A x \in flights : /\ Void(x) \in FlightType /\ Void(x).invalidated
                           /\ Void(x).key = x.key /\ Void(x).fence = x.fence /\ Void(x).leader = x.leader
    BY DEF FlightType
  <2> HIDE DEF Void
  <2>3. g \in Surjection(flights, T)
    BY DEF Surjection
  <2>4. IsFiniteSet(T) /\ Cardinality(T) <= Cardinality(flights)
    <3> HIDE DEF T, g
    <3> QED
      BY <2>3, FS_Surjection
  <2> QED
    BY <1>2, <2>1, <2>2, <2>4
<1> QED
  BY <1>1, <1>2

LEMMA SliceCount == \A S : Slice!Cardinality(S) = Cardinality(S)
BY DEF Slice!Cardinality, Cardinality

-----------------------------------------------------------------------------
AskerFields(a) ==
    /\ a \in Slice!ReaderState /\ a.key \in Keys /\ a.attempt \in 1 .. 3 /\ a.step \in Slice!Steps
    /\ a.fence \in Int /\ (a.fence = Slice!None \/ a.fence \in Slice!Revisions)
    /\ a.page \in Slice!Page /\ a.page.begin \in Slice!Revisions /\ a.page.end \in Slice!Revisions
    /\ a.page.begin \in Nat /\ a.page.end \in Nat
    /\ a.since \in Slice!Revisions /\ a.since \in Nat
    /\ a.outcome \in {"none", "stored", "private", "stale", "error"} /\ a.current \in BOOLEAN

\* The fields of a thread.
LEMMA AskerIs == ASSUME NEW a \in Slice!ReaderState PROVE AskerFields(a)
<1>1. /\ a.key \in Keys /\ a.attempt \in 1 .. 3 /\ a.step \in Slice!Steps
      /\ a.fence \in Slice!Fences /\ a.page \in Slice!Page /\ a.since \in Slice!Revisions
      /\ a.outcome \in {"none", "stored", "private", "stale", "error"} /\ a.current \in BOOLEAN
  BY DEF Slice!ReaderState
<1>2. a.page.begin \in Slice!Revisions /\ a.page.end \in Slice!Revisions
  BY <1>1 DEF Slice!Page
<1>3. \A n \in Slice!Revisions : n \in Nat
  BY SizeIs DEF Slice!Revisions
<1>4. a.fence = Slice!None \/ a.fence \in Slice!Revisions
  BY <1>1 DEF Slice!Fences
<1>5. a.fence \in Int
  BY <1>3, <1>4 DEF Slice!None
<1> QED
  BY <1>1, <1>2, <1>3, <1>4, <1>5 DEF AskerFields

\* The typed fields of the state.
LEMMA SliceTypes ==
    ASSUME SliceKept
    PROVE  /\ saved \in Slice!Revisions /\ saved \in Nat /\ saved \in 0 .. MaxSaved /\ fence \in Slice!Fences
           /\ entries \in Seq(Pages) /\ bytes \in Nat /\ flights \subseteq FlightType
           /\ asker \in [Askers -> Slice!ReaderState] /\ calls \in 0 .. MaxCalls /\ unreadable \in 0 .. MaxUnreadable
           /\ \A r \in Askers : AskerFields(asker[r]) /\ AskerTrue(asker[r], saved)
<1>1. /\ saved \in Slice!Revisions /\ fence \in Slice!Fences
      /\ entries \in Seq(Pages) /\ bytes \in Nat /\ flights \subseteq FlightType
      /\ asker \in [Askers -> Slice!ReaderState] /\ calls \in 0 .. MaxCalls /\ unreadable \in 0 .. MaxUnreadable
  BY DEF SliceKept, Slice!TypeOK, Pages, FlightType
<1>2. saved \in Nat /\ saved \in 0 .. MaxSaved
  BY <1>1, SizeIs DEF Slice!Revisions
<1>3. \A r \in Askers : AskerFields(asker[r])
  BY <1>1, AskerIs
<1>4. \A r \in Askers : AskerTrue(asker[r], saved)
  BY DEF SliceKept, AskersTrue
<1> QED
  BY <1>1, <1>2, <1>3, <1>4

\* The type invariant, with its record sets named.
LEMMA SliceTypeIs ==
    Slice!TypeOK <=>
      /\ saved \in Slice!Revisions /\ fence \in Slice!Fences
      /\ entries \in Seq(Pages) /\ bytes \in Nat /\ flights \subseteq FlightType
      /\ asker \in [Askers -> Slice!ReaderState] /\ calls \in 0 .. MaxCalls /\ unreadable \in 0 .. MaxUnreadable
BY DEF Slice!TypeOK, Pages, FlightType

LEMMA SliceInit == Slice!Init => SliceKept
<1> SUFFICES ASSUME Slice!Init PROVE SliceKept
  OBVIOUS
<1>1. /\ saved = 0 /\ fence = Slice!None /\ entries = << >> /\ bytes = 0 /\ flights = {}
      /\ calls = 0 /\ unreadable = 0
      /\ asker \in [Askers -> {[Slice!Fresh(k) EXCEPT !.step = "idle"] : k \in Keys}]
  BY DEF Slice!Init
<1>2. ASSUME NEW r \in Askers
      PROVE  asker[r] \in Slice!ReaderState /\ asker[r].step = "idle" /\ asker[r].outcome = "none" /\ asker[r].since = 0
  <2>1. PICK k \in Keys : asker[r] = [Slice!Fresh(k) EXCEPT !.step = "idle"]
    BY <1>1
  <2>2. asker[r] = [step |-> "idle", key |-> k, attempt |-> 1, fence |-> Slice!None,
                    page |-> [begin |-> 0, end |-> 0], since |-> 0, outcome |-> "none", current |-> FALSE]
    BY <1>1, <2>1 DEF Slice!Fresh, Slice!NoPage
  <2>3. 0 \in Slice!Revisions /\ Slice!None \in Slice!Fences
    BY SizeIs DEF Slice!Revisions, Slice!Fences
  <2>4. [begin |-> 0, end |-> 0] \in Slice!Page
    BY <2>3 DEF Slice!Page
  <2> QED
    BY <2>2, <2>3, <2>4 DEF Slice!ReaderState, Slice!Steps
<1>3. Slice!TypeOK
  <2>1. 0 \in Slice!Revisions /\ Slice!None \in Slice!Fences /\ << >> \in Seq(Pages) /\ 0 \in 0 .. MaxCalls /\ 0 \in 0 .. MaxUnreadable
    BY SizeIs DEF Slice!Revisions, Slice!Fences
  <2>2. asker \in [Askers -> Slice!ReaderState]
    BY <1>1, <1>2
  <2> QED
    BY <1>1, <2>1, <2>2, SliceTypeIs
<1>4. Slice!BytesExact /\ Slice!EntriesWhole
  <2>1. << >> \in Seq(Pages) /\ Len(<< >>) = 0
    OBVIOUS
  <2>2. Slice!Bytes(<< >>) = 0
    BY <2>1, BytesNat
  <2> QED
    BY <1>1, <2>1, <2>2, SizeIs DEF Slice!BytesExact, Slice!EntriesWhole
<1>5. AskersTrue
  <2>1. \A r \in Askers : AskerTrue(asker[r], saved)
    BY <1>1, <1>2 DEF AskerTrue, Fenced, Building
  <2> QED
    BY <2>1 DEF AskersTrue
<1>6. FlightsTrue /\ Unpublished
  BY <1>1, <1>2, SizeIs, FS_EmptySet DEF FlightsTrue, Unpublished, Building
<1> QED
  BY <1>3, <1>4, <1>5, <1>6 DEF SliceKept

\* A step of one thread that leaves the cache alone.
LEMMA OneMoves ==
    ASSUME SliceKept, NEW r \in Askers, NEW a \in Slice!ReaderState, AskerTrue(a, saved),
           asker' = [asker EXCEPT ![r] = a],
           saved' = saved, fence' = fence, entries' = entries, bytes' = bytes, flights' = flights,
           calls' \in 0 .. MaxCalls, unreadable' \in 0 .. MaxUnreadable,
           a.step \in Building <=> asker[r].step \in Building,
           a.step \in Building => a.key = asker[r].key /\ a.fence = asker[r].fence,
           asker[r].step = "land" => a.step = "land",
           a.step # "wait"
    PROVE  SliceKept'
<1>1. /\ saved \in Slice!Revisions /\ fence \in Slice!Fences /\ entries \in Seq(Pages) /\ bytes \in Nat
      /\ flights \subseteq FlightType /\ asker \in [Askers -> Slice!ReaderState]
  BY SliceTypes
<1>2. /\ asker' \in [Askers -> Slice!ReaderState] /\ asker'[r] = a
      /\ \A t \in Askers : t # r => asker'[t] = asker[t]
  BY <1>1
<1>3. Slice!TypeOK'
  BY <1>1, <1>2, SliceTypeIs DEF Slice!TypeOK, Pages, FlightType
<1>4. Slice!BytesExact' /\ Slice!EntriesWhole'
  BY DEF SliceKept, Slice!BytesExact, Slice!EntriesWhole
<1>5. AskersTrue'
  <2>1. \A t \in Askers : AskerTrue(asker'[t], saved)
    BY <1>2, SliceTypes
  <2>2. \A t \in Askers : AskerTrue(asker'[t], saved')
    BY <2>1
  <2> QED
    BY <2>2 DEF AskersTrue
<1>6. \A x \in flights : x.leader \in Askers
  BY <1>1 DEF FlightType
<1>7. FlightsTrue'
  <2>1. \A x \in flights : asker'[x.leader].step \in Building /\ asker'[x.leader].key = x.key
                           /\ asker'[x.leader].fence = x.fence
    BY <1>2, <1>6 DEF SliceKept, FlightsTrue
  <2>2. \A t \in Askers : asker'[t].step \in Building => \E x \in flights : x.leader = t
    BY <1>2 DEF SliceKept, FlightsTrue
  <2>3. \A t \in Askers : asker'[t].step = "wait" =>
          \E x \in flights : x.key = asker'[t].key /\ x.fence = asker'[t].fence /\ ~x.invalidated
    BY <1>2 DEF SliceKept, FlightsTrue, Slice!FlightFor
  <2>4. /\ IsFiniteSet(flights) /\ Cardinality(flights) <= MaxFlights
        /\ \A x \in flights : ~x.invalidated => x.fence = fence
        /\ \A x, y \in flights : x.key = y.key /\ ~x.invalidated /\ ~y.invalidated => x = y
    BY DEF SliceKept, FlightsTrue
  <2> QED
    BY <2>1, <2>2, <2>3, <2>4 DEF FlightsTrue, Slice!FlightFor
<1>8. Unpublished'
  BY <1>2, <1>6 DEF SliceKept, Unpublished
<1> QED
  BY <1>3, <1>4, <1>5, <1>7, <1>8 DEF SliceKept

\* The steps of one thread that leave the cache alone, one by one.
LEMMA SliceCommit == SliceKept /\ Slice!Commit => SliceKept'
<1> SUFFICES ASSUME SliceKept, Slice!Commit PROVE SliceKept'
  OBVIOUS
<1>1. /\ saved' = saved + 1 /\ saved < MaxSaved /\ fence' = fence /\ entries' = entries /\ bytes' = bytes
      /\ flights' = flights /\ asker' = asker /\ calls' = calls /\ unreadable' = unreadable
  BY DEF Slice!Commit, Slice!cache
<1>2. saved \in Nat /\ saved' \in Nat /\ saved' \in Slice!Revisions
  BY <1>1, SliceTypes, SizeIs DEF Slice!Revisions
<1>3. Slice!TypeOK'
  BY <1>1, <1>2 DEF SliceKept, Slice!TypeOK
<1>4. Slice!BytesExact' /\ Slice!EntriesWhole' /\ FlightsTrue' /\ Unpublished'
  BY <1>1 DEF SliceKept, Slice!BytesExact, Slice!EntriesWhole, FlightsTrue, Unpublished, Slice!FlightFor
<1>5. AskersTrue'
  <2>1. ASSUME NEW r \in Askers PROVE AskerTrue(asker[r], saved + 1)
    BY <1>2, SliceTypes DEF AskerTrue, AskerFields
  <2>2. \A r \in Askers : AskerTrue(asker'[r], saved')
    BY <1>1, <2>1
  <2> QED
    BY <2>2 DEF AskersTrue
<1> QED
  BY <1>3, <1>4, <1>5 DEF SliceKept

\* A fence is the saved revision, or unreadable.
LEMMA ReadsIs ==
    ASSUME SliceKept, NEW f \in Slice!Fences, Slice!Reads(f)
    PROVE  unreadable' \in 0 .. MaxUnreadable /\ (f = saved \/ f = Slice!None)
<1>1. unreadable \in 0 .. MaxUnreadable /\ MaxUnreadable \in Nat
  BY SliceTypes, SizeIs
<1> QED
  BY <1>1 DEF Slice!Reads

LEMMA SliceCall == ASSUME SliceKept, NEW r \in Askers, Slice!Call(r) PROVE SliceKept'
<1>1. /\ asker[r].step \in {"idle", "done", "failed"} /\ calls < MaxCalls /\ calls' = calls + 1
      /\ saved' = saved /\ fence' = fence /\ entries' = entries /\ bytes' = bytes
      /\ flights' = flights /\ unreadable' = unreadable
  BY DEF Slice!Call, Slice!cache
<1>2. PICK k \in Keys : asker' = [asker EXCEPT ![r] = Slice!Fresh(k)]
  BY DEF Slice!Call
<1> DEFINE a == Slice!Fresh(k)
<1>3. saved \in Nat /\ saved \in Slice!Revisions /\ calls' \in 0 .. MaxCalls /\ unreadable' \in 0 .. MaxUnreadable
  BY <1>1, SliceTypes, SizeIs
<1>4. a = [step |-> "fence", key |-> k, attempt |-> 1, fence |-> Slice!None, page |-> Slice!NoPage,
           since |-> saved, outcome |-> "none", current |-> FALSE]
  BY DEF Slice!Fresh
<1>5. a \in Slice!ReaderState
  <2>1. Slice!NoPage \in Slice!Page /\ Slice!None \in Slice!Fences
    BY SizeIs DEF Slice!NoPage, Slice!Page, Slice!Revisions, Slice!Fences
  <2> QED
    BY <1>3, <1>4, <2>1 DEF Slice!ReaderState, Slice!Steps
<1>6. a.step = "fence" /\ a.outcome = "none" /\ a.since = saved
  BY <1>4
<1> HIDE DEF a
<1>7. AskerTrue(a, saved)
  BY <1>3, <1>6 DEF AskerTrue, Fenced, Building
<1> QED
  BY <1>1, <1>2, <1>3, <1>5, <1>6, <1>7, OneMoves DEF Building, a

\* A thread that moves on alone: what to show of where it gets to.
LEMMA MovesOn ==
    ASSUME NEW r \in Askers, SliceKept, NEW s \in Slice!Steps, Slice!Go(r, s)
    PROVE  /\ [asker[r] EXCEPT !.step = s] \in Slice!ReaderState
           /\ asker' = [asker EXCEPT ![r] = [asker[r] EXCEPT !.step = s]]
<1>1. asker \in [Askers -> Slice!ReaderState]
  BY SliceTypes
<1>2. asker[r] \in Slice!ReaderState
  BY <1>1
<1>3. [asker[r] EXCEPT !.step = s] \in Slice!ReaderState
  BY <1>2 DEF Slice!ReaderState
<1>4. asker' = [asker EXCEPT ![r].step = s]
  BY DEF Slice!Go
<1>5. [asker EXCEPT ![r].step = s] = [asker EXCEPT ![r] = [asker[r] EXCEPT !.step = s]]
  OBVIOUS
<1> QED
  BY <1>3, <1>4, <1>5

LEMMA SliceWaitEnds == ASSUME SliceKept, NEW r \in Askers, Slice!WaitEnds(r) PROVE SliceKept'
<1> DEFINE a == [asker[r] EXCEPT !.step = "before"]
<1>1. /\ asker[r].step = "wait" /\ Slice!Go(r, "before") /\ calls' = calls
      /\ saved' = saved /\ fence' = fence /\ entries' = entries /\ bytes' = bytes
      /\ flights' = flights /\ unreadable' = unreadable
  BY DEF Slice!WaitEnds, Slice!cache
<1>2. a \in Slice!ReaderState /\ asker' = [asker EXCEPT ![r] = a]
  <2>1. "before" \in Slice!Steps
    BY DEF Slice!Steps
  <2> QED
    BY <1>1, <2>1, MovesOn
<1>3. AskerTrue(asker[r], saved) /\ asker[r] \in Slice!ReaderState /\ AskerFields(asker[r])
  BY SliceTypes DEF AskerFields
<1>4. a.step = "before" /\ a.outcome = asker[r].outcome /\ a.since = asker[r].since
  BY <1>3 DEF Slice!ReaderState
<1> HIDE DEF a
<1>5. AskerTrue(a, saved)
  BY <1>1, <1>3, <1>4 DEF AskerTrue, Fenced, Building
<1>6. calls' \in 0 .. MaxCalls /\ unreadable' \in 0 .. MaxUnreadable
  BY <1>1, SliceTypes
<1> QED
  BY <1>1, <1>2, <1>4, <1>5, <1>6, OneMoves DEF Building

LEMMA SliceBuild == ASSUME SliceKept, NEW r \in Askers, Slice!Build(r) \/ Slice!Built(r) PROVE SliceKept'
<1>1. /\ calls' = calls /\ saved' = saved /\ fence' = fence /\ entries' = entries /\ bytes' = bytes
      /\ flights' = flights /\ unreadable' = unreadable
      /\ asker[r].step \in {"build", "built"}
  BY DEF Slice!Build, Slice!Built, Slice!cache
<1>2. /\ asker \in [Askers -> Slice!ReaderState] /\ asker[r] \in Slice!ReaderState
      /\ AskerFields(asker[r]) /\ AskerTrue(asker[r], saved) /\ saved \in Nat /\ saved \in Slice!Revisions
      /\ calls' \in 0 .. MaxCalls /\ unreadable' \in 0 .. MaxUnreadable
  BY <1>1, SliceTypes DEF AskerFields
<1> DEFINE started == [asker[r] EXCEPT !.step = "built", !.page = [asker[r].page EXCEPT !.begin = saved]]
           failed == [asker[r] EXCEPT !.step = "land", !.outcome = "error"]
           ended == [asker[r] EXCEPT !.step = "publish", !.page = [asker[r].page EXCEPT !.end = saved]]
<1>3. \/ asker[r].step = "build" /\ asker' = [asker EXCEPT ![r] = started]
      \/ asker[r].step = "build" /\ asker' = [asker EXCEPT ![r] = failed]
      \/ asker[r].step = "built" /\ asker' = [asker EXCEPT ![r] = ended]
  <2>1. [asker EXCEPT ![r].step = "built", ![r].page.begin = saved]
          = [asker EXCEPT ![r] = [asker[r] EXCEPT !.step = "built", !.page.begin = saved]]
    BY <1>2
  <2>2. [asker[r] EXCEPT !.step = "built", !.page.begin = saved] = started
    BY <1>2 DEF Slice!ReaderState, Slice!Page
  <2>3. [asker EXCEPT ![r].step = "publish", ![r].page.end = saved]
          = [asker EXCEPT ![r] = [asker[r] EXCEPT !.step = "publish", !.page.end = saved]]
    BY <1>2
  <2>4. [asker[r] EXCEPT !.step = "publish", !.page.end = saved] = ended
    BY <1>2 DEF Slice!ReaderState, Slice!Page
  <2>5. [asker EXCEPT ![r].step = "land", ![r].outcome = "error"] = [asker EXCEPT ![r] = failed]
    BY <1>2
  <2> HIDE DEF started, failed, ended
  <2> QED
    BY <2>1, <2>2, <2>3, <2>4, <2>5 DEF Slice!Build, Slice!Built
<1>4. /\ [asker[r].page EXCEPT !.begin = saved] \in Slice!Page /\ [asker[r].page EXCEPT !.end = saved] \in Slice!Page
      /\ [asker[r].page EXCEPT !.begin = saved].begin = saved
      /\ [asker[r].page EXCEPT !.end = saved].end = saved
      /\ [asker[r].page EXCEPT !.end = saved].begin = asker[r].page.begin
  BY <1>2 DEF Slice!Page, AskerFields
<1>5. /\ started \in Slice!ReaderState /\ started.step = "built" /\ started.page.begin = saved /\ started.fence = asker[r].fence
      /\ started.key = asker[r].key /\ started.outcome = asker[r].outcome /\ started.since = asker[r].since
      /\ started.attempt = asker[r].attempt
  BY <1>2, <1>4 DEF Slice!ReaderState, Slice!Steps
<1>6. /\ failed \in Slice!ReaderState /\ failed.step = "land" /\ failed.outcome = "error" /\ failed.fence = asker[r].fence
      /\ failed.key = asker[r].key /\ failed.since = asker[r].since /\ failed.attempt = asker[r].attempt
  BY <1>2 DEF Slice!ReaderState, Slice!Steps
<1>7. /\ ended \in Slice!ReaderState /\ ended.step = "publish" /\ ended.page.end = saved
      /\ ended.page.begin = asker[r].page.begin /\ ended.fence = asker[r].fence
      /\ ended.key = asker[r].key /\ ended.outcome = asker[r].outcome /\ ended.since = asker[r].since
      /\ ended.attempt = asker[r].attempt
  BY <1>2, <1>4 DEF Slice!ReaderState, Slice!Steps
<1> HIDE DEF started, failed, ended
<1>8. asker[r].step = "build" => AskerTrue(started, saved) /\ AskerTrue(failed, saved)
  BY <1>2, <1>5, <1>6 DEF AskerTrue, AskerFields, Fenced, Building
<1>9. asker[r].step = "built" => AskerTrue(ended, saved)
  BY <1>2, <1>7 DEF AskerTrue, AskerFields, Fenced, Building
<1>10. asker[r].step \in Building /\ asker[r].step # "land"
  BY <1>1 DEF Building
<1>11. CASE asker[r].step = "build" /\ asker' = [asker EXCEPT ![r] = started]
  BY <1>1, <1>2, <1>5, <1>8, <1>10, <1>11, OneMoves DEF Building
<1>12. CASE asker[r].step = "build" /\ asker' = [asker EXCEPT ![r] = failed]
  BY <1>1, <1>2, <1>6, <1>8, <1>10, <1>12, OneMoves DEF Building
<1>13. CASE asker[r].step = "built" /\ asker' = [asker EXCEPT ![r] = ended]
  BY <1>1, <1>2, <1>7, <1>9, <1>10, <1>13, OneMoves DEF Building
<1> QED
  BY <1>3, <1>11, <1>12, <1>13

LEMMA SliceCheck == ASSUME SliceKept, NEW r \in Askers, Slice!Check(r) PROVE SliceKept'
<1>1. /\ calls' = calls /\ saved' = saved /\ fence' = fence /\ entries' = entries /\ bytes' = bytes
      /\ flights' = flights
      /\ asker[r].step = "publish" /\ asker[r].outcome = "none"
  BY DEF Slice!Check, Slice!cache
<1>2. PICK f \in Slice!Fences :
        /\ Slice!Reads(f)
        /\ asker' = IF Slice!StillCurrent(r, f)
                    THEN [asker EXCEPT ![r].outcome = IF Size[asker[r].key] <= MaxEntryBytes THEN "stored" ELSE "private"]
                    ELSE [asker EXCEPT ![r].step = "land", ![r].outcome = "stale"]
  BY DEF Slice!Check
<1>3. /\ asker \in [Askers -> Slice!ReaderState] /\ asker[r] \in Slice!ReaderState
      /\ AskerFields(asker[r]) /\ AskerTrue(asker[r], saved) /\ saved \in Nat
      /\ calls' \in 0 .. MaxCalls /\ unreadable' \in 0 .. MaxUnreadable
      /\ f = saved \/ f = Slice!None
  BY <1>1, <1>2, SliceTypes, ReadsIs DEF AskerFields
<1> DEFINE o == IF Size[asker[r].key] <= MaxEntryBytes THEN "stored" ELSE "private"
           same == [asker[r] EXCEPT !.outcome = o]
           other == [asker[r] EXCEPT !.step = "land", !.outcome = "stale"]
<1>4. asker' = IF Slice!StillCurrent(r, f) THEN [asker EXCEPT ![r] = same] ELSE [asker EXCEPT ![r] = other]
  BY <1>2, <1>3
<1>5. o \in {"stored", "private"}
  OBVIOUS
<1> HIDE DEF o
<1>6. /\ same \in Slice!ReaderState /\ same.step = "publish" /\ same.outcome = o /\ same.page = asker[r].page
      /\ same.fence = asker[r].fence /\ same.key = asker[r].key /\ same.since = asker[r].since
      /\ same.attempt = asker[r].attempt
  BY <1>1, <1>3, <1>5 DEF Slice!ReaderState, Slice!Steps
<1>7. /\ other \in Slice!ReaderState /\ other.step = "land" /\ other.outcome = "stale" /\ other.page = asker[r].page
      /\ other.fence = asker[r].fence /\ other.key = asker[r].key /\ other.since = asker[r].since
      /\ other.attempt = asker[r].attempt
  BY <1>3 DEF Slice!ReaderState, Slice!Steps
<1> HIDE DEF same, other
<1>8. asker[r].step \in Building /\ asker[r].step # "land" /\ "publish" \in Building /\ "land" \in Building
  BY <1>1 DEF Building
<1>9. CASE Slice!StillCurrent(r, f)
  <2>1. f = asker[r].fence /\ asker[r].fence \in asker[r].since .. saved
    BY <1>1, <1>3, <1>9 DEF Slice!StillCurrent, AskerTrue, Fenced, Building
  <2>2. f = saved
    BY <1>3, <2>1 DEF Slice!None, AskerFields
  <2>3. Whole(asker[r].page, asker[r].fence)
    BY <1>1, <1>3, <2>1, <2>2 DEF AskerTrue, AskerFields, Whole
  <2>4. AskerTrue(same, saved)
    BY <1>1, <1>3, <1>5, <1>6, <2>3 DEF AskerTrue, Fenced, Building
  <2> QED
    BY <1>1, <1>3, <1>4, <1>6, <1>8, <1>9, <2>4, OneMoves
<1>10. CASE ~Slice!StillCurrent(r, f)
  <2>1. AskerTrue(other, saved)
    BY <1>1, <1>3, <1>7 DEF AskerTrue, Fenced, Building
  <2> QED
    BY <1>1, <1>3, <1>4, <1>7, <1>8, <1>10, <2>1, OneMoves
<1> QED
  BY <1>9, <1>10

LEMMA SlicePost == ASSUME SliceKept, NEW r \in Askers, Slice!Post(r) PROVE SliceKept'
<1>1. /\ calls' = calls /\ saved' = saved /\ fence' = fence /\ entries' = entries /\ bytes' = bytes
      /\ flights' = flights /\ asker[r].step = "post"
  BY DEF Slice!Post, Slice!cache
<1>2. PICK f \in Slice!Fences :
        /\ Slice!Reads(f)
        /\ asker' = IF Slice!PostCheck(r, f)
                    THEN [asker EXCEPT ![r].step = "done", ![r].current = TRUE]
                    ELSE [asker EXCEPT ![r].step = "fence", ![r].attempt = asker[r].attempt + 1]
  BY DEF Slice!Post
<1>3. /\ asker \in [Askers -> Slice!ReaderState] /\ asker[r] \in Slice!ReaderState
      /\ AskerFields(asker[r]) /\ AskerTrue(asker[r], saved) /\ saved \in Nat
      /\ calls' \in 0 .. MaxCalls /\ unreadable' \in 0 .. MaxUnreadable
  BY <1>1, <1>2, SliceTypes, ReadsIs DEF AskerFields
<1> DEFINE done == [asker[r] EXCEPT !.step = "done", !.current = TRUE]
           again == [asker[r] EXCEPT !.step = "fence", !.attempt = asker[r].attempt + 1]
<1>4. asker' = [asker EXCEPT ![r] = done] \/ asker' = [asker EXCEPT ![r] = again]
  BY <1>2, <1>3
<1>5. /\ asker[r].attempt + 1 \in 1 .. 3 /\ asker[r].outcome = "none" /\ Whole(asker[r].page, asker[r].fence)
      /\ asker[r].fence \in asker[r].since .. saved
  BY <1>1, <1>3 DEF AskerTrue, AskerFields, Fenced, Building
<1>6. /\ done \in Slice!ReaderState /\ done.step = "done" /\ done.outcome = "none" /\ done.page = asker[r].page
      /\ done.since = asker[r].since
  BY <1>3, <1>5 DEF Slice!ReaderState, Slice!Steps
<1>7. again \in Slice!ReaderState /\ again.step = "fence" /\ again.outcome = "none" /\ again.since = asker[r].since
  BY <1>3, <1>5 DEF Slice!ReaderState, Slice!Steps
<1> HIDE DEF done, again
<1>8. AskerTrue(done, saved) /\ AskerTrue(again, saved)
  BY <1>3, <1>5, <1>6, <1>7 DEF AskerTrue, AskerFields, Fenced, Building, Whole
<1>9. asker[r].step \notin Building /\ done.step \notin Building /\ again.step \notin Building
  BY <1>1, <1>6, <1>7 DEF Building
<1>10. CASE asker' = [asker EXCEPT ![r] = done]
  BY <1>1, <1>3, <1>6, <1>8, <1>9, <1>10, OneMoves
<1>11. CASE asker' = [asker EXCEPT ![r] = again]
  BY <1>1, <1>3, <1>7, <1>8, <1>9, <1>11, OneMoves
<1> QED
  BY <1>4, <1>10, <1>11

LEMMA SlicePlain ==
    ASSUME SliceKept, NEW r \in Askers, Slice!PlainFence(r) \/ Slice!PlainRead(r) PROVE SliceKept'
<1>1. /\ calls' = calls /\ saved' = saved /\ fence' = fence /\ entries' = entries /\ bytes' = bytes
      /\ flights' = flights /\ asker[r].step \in {"before", "plain", "plainEnd"}
  BY DEF Slice!PlainFence, Slice!PlainRead, Slice!cache
<1>2. /\ asker \in [Askers -> Slice!ReaderState] /\ asker[r] \in Slice!ReaderState
      /\ AskerFields(asker[r]) /\ AskerTrue(asker[r], saved) /\ saved \in Nat /\ saved \in Slice!Revisions
      /\ calls' \in 0 .. MaxCalls /\ asker[r].outcome = "none"
  BY <1>1, SliceTypes DEF AskerFields, AskerTrue
<1>3. asker[r].step \notin Building /\ {"plain", "plainEnd", "after"} \cap Building = {}
  BY <1>1 DEF Building
<1>4. CASE Slice!PlainFence(r)
  <2>1. PICK f \in Slice!Fences :
          asker[r].step = "before" /\ Slice!Reads(f) /\ asker' = [asker EXCEPT ![r].step = "plain", ![r].fence = f]
    BY <1>4 DEF Slice!PlainFence
  <2> DEFINE a == [asker[r] EXCEPT !.step = "plain", !.fence = f]
  <2>2. asker' = [asker EXCEPT ![r] = a]
    BY <2>1, <1>2
  <2>3. a \in Slice!ReaderState /\ a.step = "plain" /\ a.fence = f /\ a.outcome = "none" /\ a.since = asker[r].since
    BY <1>2 DEF Slice!ReaderState, Slice!Steps
  <2> HIDE DEF a
  <2>4. unreadable' \in 0 .. MaxUnreadable /\ (f = saved \/ f = Slice!None)
    BY <2>1, ReadsIs
  <2>5. AskerTrue(a, saved)
    BY <1>2, <2>3, <2>4 DEF AskerTrue, AskerFields, Fenced, Building
  <2> QED
    BY <1>1, <1>2, <1>3, <2>1, <2>2, <2>3, <2>4, <2>5, OneMoves
<1>5. CASE Slice!PlainRead(r)
  <2> DEFINE first == [asker[r] EXCEPT !.step = "plainEnd", !.page = [asker[r].page EXCEPT !.begin = saved]]
             last == [asker[r] EXCEPT !.step = "after", !.page = [asker[r].page EXCEPT !.end = saved]]
  <2>1. unreadable' \in 0 .. MaxUnreadable
    BY <1>5, SliceTypes DEF Slice!PlainRead
  <2>2. \/ asker[r].step = "plain" /\ asker' = [asker EXCEPT ![r] = first]
        \/ asker[r].step = "plainEnd" /\ asker' = [asker EXCEPT ![r] = last]
    <3>1. [asker EXCEPT ![r].step = "plainEnd", ![r].page.begin = saved]
            = [asker EXCEPT ![r] = [asker[r] EXCEPT !.step = "plainEnd", !.page.begin = saved]]
      BY <1>2
    <3>2. [asker[r] EXCEPT !.step = "plainEnd", !.page.begin = saved] = first
      BY <1>2 DEF Slice!ReaderState, Slice!Page
    <3>3. [asker EXCEPT ![r].step = "after", ![r].page.end = saved]
            = [asker EXCEPT ![r] = [asker[r] EXCEPT !.step = "after", !.page.end = saved]]
      BY <1>2
    <3>4. [asker[r] EXCEPT !.step = "after", !.page.end = saved] = last
      BY <1>2 DEF Slice!ReaderState, Slice!Page
    <3> HIDE DEF first, last
    <3> QED
      BY <1>5, <3>1, <3>2, <3>3, <3>4 DEF Slice!PlainRead
  <2>3. /\ [asker[r].page EXCEPT !.begin = saved] \in Slice!Page /\ [asker[r].page EXCEPT !.end = saved] \in Slice!Page
        /\ [asker[r].page EXCEPT !.begin = saved].begin = saved
        /\ [asker[r].page EXCEPT !.end = saved].end = saved
        /\ [asker[r].page EXCEPT !.end = saved].begin = asker[r].page.begin
    BY <1>2 DEF Slice!Page, AskerFields
  <2>4. /\ first \in Slice!ReaderState /\ first.step = "plainEnd" /\ first.page.begin = saved
        /\ first.fence = asker[r].fence /\ first.outcome = "none" /\ first.since = asker[r].since
    BY <1>2, <2>3 DEF Slice!ReaderState, Slice!Steps
  <2>5. /\ last \in Slice!ReaderState /\ last.step = "after" /\ last.page.end = saved
        /\ last.page.begin = asker[r].page.begin
        /\ last.fence = asker[r].fence /\ last.outcome = "none" /\ last.since = asker[r].since
    BY <1>2, <2>3 DEF Slice!ReaderState, Slice!Steps
  <2> HIDE DEF first, last
  <2>6. CASE asker[r].step = "plain" /\ asker' = [asker EXCEPT ![r] = first]
    <3>1. first.fence <= saved
      BY <1>2, <2>4, <2>6 DEF AskerTrue, AskerFields, Slice!None
    <3>2. AskerTrue(first, saved)
      BY <1>2, <2>4, <2>6, <3>1 DEF AskerTrue, AskerFields, Fenced, Building
    <3> QED
      BY <1>1, <1>2, <1>3, <2>1, <2>4, <2>6, <3>2, OneMoves
  <2>7. CASE asker[r].step = "plainEnd" /\ asker' = [asker EXCEPT ![r] = last]
    <3>1. AskerTrue(last, saved)
      BY <1>2, <2>5, <2>7 DEF AskerTrue, AskerFields, Fenced, Building
    <3> QED
      BY <1>1, <1>2, <1>3, <2>1, <2>5, <2>7, <3>1, OneMoves
  <2> QED
    BY <2>2, <2>6, <2>7
<1> QED
  BY <1>4, <1>5

LEMMA SlicePlainAnswer == ASSUME SliceKept, NEW r \in Askers, Slice!PlainAnswer(r) PROVE SliceKept'
<1>1. /\ calls' = calls /\ saved' = saved /\ fence' = fence /\ entries' = entries /\ bytes' = bytes
      /\ flights' = flights /\ asker[r].step = "after"
  BY DEF Slice!PlainAnswer, Slice!cache
<1> DEFINE done == [asker[r] EXCEPT !.step = "done", !.current = TRUE]
           stale == [step |-> "done", key |-> asker[r].key, attempt |-> 1, fence |-> Slice!None,
                     page |-> Slice!NoPage, since |-> saved, outcome |-> "none", current |-> FALSE]
<1>2a. ASSUME NEW x, x = [Slice!Fresh(asker[r].key) EXCEPT !.step = "done"] PROVE x = stale
  BY <1>2a DEF Slice!Fresh
<1>2. PICK f \in Slice!Fences :
        /\ Slice!Reads(f)
        /\ asker' = IF Slice!SaysCurrent(r, f)
                    THEN [asker EXCEPT ![r].step = "done", ![r].current = TRUE]
                    ELSE [asker EXCEPT ![r] = stale]
  <2> HIDE DEF stale
  <2>1. [Slice!Fresh(asker[r].key) EXCEPT !.step = "done"] = stale
    BY <1>2a
  <2> QED
    BY <2>1 DEF Slice!PlainAnswer
<1>3. /\ asker \in [Askers -> Slice!ReaderState] /\ asker[r] \in Slice!ReaderState
      /\ AskerFields(asker[r]) /\ AskerTrue(asker[r], saved) /\ saved \in Nat /\ saved \in Slice!Revisions
      /\ calls' \in 0 .. MaxCalls /\ unreadable' \in 0 .. MaxUnreadable
      /\ f = saved \/ f = Slice!None
  BY <1>1, <1>2, SliceTypes, ReadsIs DEF AskerFields
<1>4. asker' = IF Slice!SaysCurrent(r, f) THEN [asker EXCEPT ![r] = done] ELSE [asker EXCEPT ![r] = stale]
  BY <1>2, <1>3
<1>5. asker[r].outcome = "none" /\ asker[r].step \notin Building
  BY <1>1, <1>3 DEF AskerTrue, Building
<1>6. /\ done \in Slice!ReaderState /\ done.step = "done" /\ done.outcome = "none" /\ done.page = asker[r].page
      /\ done.since = asker[r].since
  BY <1>3, <1>5 DEF Slice!ReaderState, Slice!Steps
<1>7. /\ stale \in Slice!ReaderState /\ stale.step = "done" /\ stale.outcome = "none" /\ stale.since = saved
      /\ stale.current = FALSE
  <2>1. asker[r].key \in Keys
    BY <1>3 DEF AskerFields
  <2>2. Slice!NoPage \in Slice!Page /\ Slice!None \in Slice!Fences
    BY SizeIs DEF Slice!NoPage, Slice!Page, Slice!Revisions, Slice!Fences
  <2> QED
    BY <1>3, <2>1, <2>2 DEF Slice!ReaderState, Slice!Steps
<1> HIDE DEF done, stale
<1>8. AskerTrue(stale, saved)
  BY <1>3, <1>7 DEF AskerTrue, Fenced, Building
<1>9. done.step \notin Building /\ stale.step \notin Building
  BY <1>6, <1>7 DEF Building
<1>10. CASE Slice!SaysCurrent(r, f)
  <2>1. asker[r].fence = saved /\ saved \in asker[r].since .. saved
    BY <1>1, <1>3, <1>10 DEF Slice!SaysCurrent, AskerTrue, AskerFields
  <2>2. AskerTrue(done, saved)
    BY <1>1, <1>3, <1>6, <2>1 DEF AskerTrue, AskerFields, Fenced, Building
  <2> QED
    BY <1>1, <1>3, <1>4, <1>5, <1>6, <1>9, <1>10, <2>2, OneMoves
<1>11. CASE ~Slice!SaysCurrent(r, f)
  BY <1>1, <1>3, <1>4, <1>5, <1>7, <1>8, <1>9, <1>11, OneMoves
<1> QED
  BY <1>10, <1>11

\* What a look at a fence leaves of the entries.
LEMMA EntriesAfterIs ==
    ASSUME SliceKept, NEW f, NEW K
    PROVE  /\ Slice!EntriesAfter(f, K) \in Seq(Pages) /\ Distinct(Slice!EntriesAfter(f, K))
           /\ Len(Slice!EntriesAfter(f, K)) <= MaxEntries /\ Slice!Bytes(Slice!EntriesAfter(f, K)) <= MaxBytes
           /\ Among(Slice!EntriesAfter(f, K), entries)
           /\ Slice!Invalidates(f) => Len(Slice!EntriesAfter(f, K)) = 0
           /\ \A i \in 1 .. Len(Slice!EntriesAfter(f, K)) :
                Slice!EntriesAfter(f, K)[i].page = [begin |-> f, end |-> f]
<1>1. /\ entries \in Seq(Pages) /\ Distinct(entries) /\ Len(entries) \in Nat /\ Len(entries) <= MaxEntries
      /\ Slice!Bytes(entries) <= MaxBytes /\ Slice!Bytes(entries) \in Nat
      /\ \A i \in 1 .. Len(entries) : entries[i].page = [begin |-> fence, end |-> fence]
      /\ MaxEntries \in Nat /\ MaxBytes \in Nat
  BY SliceTypes, BytesNat, SizeIs DEF SliceKept, Slice!BytesExact, Slice!EntriesWhole, Distinct
<1>2. CASE Slice!Invalidates(f)
  <2>1. Slice!EntriesAfter(f, K) = << >>
    BY <1>2 DEF Slice!EntriesAfter
  <2>2. << >> \in Seq(Pages) /\ Len(<< >>) = 0
    OBVIOUS
  <2>3. Slice!Bytes(<< >>) = 0
    BY <2>2, BytesNat
  <2> QED
    BY <1>1, <2>1, <2>2, <2>3 DEF Distinct, Among
<1>3. CASE ~Slice!Invalidates(f)
  <2> DEFINE o == Slice!Others(K, entries)
  <2>1. Slice!EntriesAfter(f, K) = o /\ f = fence
    BY <1>3 DEF Slice!EntriesAfter, Slice!Invalidates
  <2>2. /\ o \in Seq(Pages) /\ Distinct(o) /\ Len(o) <= Len(entries) /\ Slice!Bytes(o) <= Slice!Bytes(entries)
        /\ Among(o, entries)
    BY <1>1, OthersKeep
  <2> HIDE DEF o
  <2>3. Len(o) <= MaxEntries /\ Slice!Bytes(o) <= MaxBytes
    <3>1. Slice!Bytes(o) \in Nat /\ Len(o) \in Nat
      BY <2>2, BytesNat
    <3> QED
      BY <1>1, <2>2, <3>1
  <2>4. \A i \in 1 .. Len(o) : o[i].page = [begin |-> f, end |-> f]
    BY <1>1, <2>1, <2>2 DEF Among
  <2> QED
    BY <1>3, <2>1, <2>2, <2>3, <2>4
<1> QED
  BY <1>2, <1>3

\* Those that wait for a flight that a look makes void go to try again.
LEMMA WokenIs ==
    ASSUME SliceKept, NEW f, NEW t \in Askers
    PROVE  /\ Slice!Woken(asker, f)[t] \in Slice!ReaderState /\ AskerTrue(Slice!Woken(asker, f)[t], saved)
           /\ Slice!Woken(asker, f)[t].step # "wait" \/ ~Slice!Invalidates(f)
           /\ asker[t].step # "wait" \/ ~Slice!Invalidates(f) => Slice!Woken(asker, f)[t] = asker[t]
           /\ asker[t].step = "wait" /\ Slice!Invalidates(f) => Slice!Woken(asker, f)[t].step = "fence"
<1> DEFINE a == [asker[t] EXCEPT !.step = "fence", !.attempt = asker[t].attempt + 1]
<1>1. Slice!Woken(asker, f)[t] = IF asker[t].step = "wait" /\ Slice!Invalidates(f) THEN a ELSE asker[t]
  BY DEF Slice!Woken
<1>2. asker[t] \in Slice!ReaderState /\ AskerFields(asker[t]) /\ AskerTrue(asker[t], saved)
  BY SliceTypes DEF AskerFields
<1>3. ASSUME asker[t].step = "wait" PROVE a \in Slice!ReaderState /\ AskerTrue(a, saved) /\ a.step = "fence"
  <2>1. asker[t].attempt + 1 \in 1 .. 3 /\ asker[t].outcome = "none"
    BY <1>2, <1>3 DEF AskerTrue, AskerFields, Fenced, Building
  <2>2. a \in Slice!ReaderState /\ a.step = "fence" /\ a.outcome = "none" /\ a.since = asker[t].since
    BY <1>2, <2>1 DEF Slice!ReaderState, Slice!Steps
  <2> HIDE DEF a
  <2>3. AskerTrue(a, saved)
    BY <1>2, <2>2 DEF AskerTrue, Fenced, Building
  <2> QED
    BY <2>2, <2>3
<1> HIDE DEF a
<1> QED
  BY <1>1, <1>2, <1>3

\* A step under the lock that looks at a fence: what to show of the entries, the
\* flight it may list and where its thread gets to.
NewFlight(a, f, r) == [key |-> a.key, fence |-> f, leader |-> r, invalidated |-> FALSE]

\* One look at the cache by a thread that builds nothing: the flights of other fences become
\* void, their waiters wake, and the thread may start a flight of its own.
LEMMA Looks ==
    ASSUME SliceKept, NEW r \in Askers, asker[r].step \notin Building,
           NEW a \in Slice!ReaderState, AskerTrue(a, saved), NEW f \in Slice!Fences, NEW N,
           asker' = [Slice!Woken(asker, f) EXCEPT ![r] = a], fence' = f, saved' = saved, calls' = calls,
           unreadable' \in 0 .. MaxUnreadable,
           entries' \in Seq(Pages), Distinct(entries'), Len(entries') <= MaxEntries,
           bytes' = Slice!Bytes(entries'), Slice!Bytes(entries') <= MaxBytes,
           \A i \in 1 .. Len(entries') : entries'[i].page = [begin |-> f, end |-> f],
           ~Slice!Invalidates(f) => Among(entries', entries),
           flights' = Slice!FlightsAfter(f) \cup N,
           a.step \in Building => a.step = "build" /\ N = {NewFlight(a, f, r)},
           a.step \notin Building => N = {},
           a.step = "build" => /\ a.fence = f /\ f # Slice!None
                               /\ \A y \in Slice!FlightsAfter(f) : ~(y.key = a.key /\ y.fence = f)
                               /\ Cardinality(Slice!FlightsAfter(f)) < MaxFlights
                               /\ \A i \in 1 .. Len(entries') : entries'[i].key # a.key,
           a.step = "wait" => \E x \in Slice!FlightsAfter(f) : x.key = a.key /\ x.fence = a.fence /\ ~x.invalidated
    PROVE  SliceKept'
<1> DEFINE seen == Slice!FlightsAfter(f)
           new == NewFlight(a, f, r)
<1>1. /\ saved \in Slice!Revisions /\ flights \subseteq FlightType /\ asker \in [Askers -> Slice!ReaderState]
      /\ calls \in 0 .. MaxCalls /\ IsFiniteSet(flights) /\ Cardinality(flights) <= MaxFlights
      /\ Cardinality(flights) \in Nat /\ MaxFlights \in Nat /\ AskerFields(a)
  BY SliceTypes, SizeIs, FS_CardinalityType, AskerIs DEF SliceKept, FlightsTrue
<1>2. /\ seen \subseteq FlightType /\ IsFiniteSet(seen) /\ Cardinality(seen) <= Cardinality(flights)
      /\ ~Slice!Invalidates(f) => seen = flights
      /\ Slice!Invalidates(f) => \A y \in seen : y.invalidated
      /\ \A y \in seen : \E x \in flights : y.key = x.key /\ y.fence = x.fence /\ y.leader = x.leader
      /\ \A x \in flights : \E y \in seen : y.leader = x.leader
      /\ Cardinality(seen) \in Nat
  BY <1>1, FlightsAfterIs, FS_CardinalityType
<1>3. flights' = seen \cup N
  OBVIOUS
<1> HIDE DEF seen
<1>4. /\ asker'[r] = a /\ \A t \in Askers : t # r => asker'[t] = Slice!Woken(asker, f)[t]
      /\ asker' \in [Askers -> Slice!ReaderState]
  <2>1. Slice!Woken(asker, f) \in [Askers -> Slice!ReaderState]
    <3>1. \A t \in Askers : Slice!Woken(asker, f)[t] \in Slice!ReaderState
      BY WokenIs
    <3>2. Slice!Woken(asker, f) = [t \in Askers |-> Slice!Woken(asker, f)[t]]
      BY DEF Slice!Woken
    <3> QED
      BY <3>1, <3>2
  <2> QED
    BY <2>1
<1>5. a.step = "build" => new \in FlightType
  BY <1>1 DEF FlightType, NewFlight, AskerFields
<1>6. Slice!TypeOK'
  <2>1. flights' \subseteq FlightType
    BY <1>2, <1>3, <1>5
  <2>2. bytes' \in Nat
    BY BytesNat
  <2> QED
    BY <1>1, <1>4, <2>1, <2>2 DEF Slice!TypeOK, FlightType, Pages
<1>7. Slice!BytesExact' /\ Slice!EntriesWhole'
  BY DEF Slice!BytesExact, Slice!EntriesWhole, Distinct
<1>8. AskersTrue'
  <2>1. \A t \in Askers : AskerTrue(asker'[t], saved)
    BY <1>4, WokenIs
  <2>2. \A t \in Askers : AskerTrue(asker'[t], saved')
    BY <2>1
  <2> QED
    BY <2>2 DEF AskersTrue
<1>9. ASSUME NEW y \in seen
      PROVE  /\ y.leader \in Askers /\ y.leader # r /\ asker'[y.leader] = asker[y.leader]
             /\ asker[y.leader].step \in Building /\ asker[y.leader].key = y.key /\ asker[y.leader].fence = y.fence
             /\ ~y.invalidated => y \in flights /\ ~Slice!Invalidates(f) /\ y.fence = f
  <2>1. PICK x \in flights : y.key = x.key /\ y.fence = x.fence /\ y.leader = x.leader
    BY <1>2
  <2>2. /\ asker[x.leader].step \in Building /\ asker[x.leader].key = x.key /\ asker[x.leader].fence = x.fence
        /\ x.leader \in Askers
    BY <1>1 DEF SliceKept, FlightsTrue, FlightType
  <2>3. asker[x.leader].step # "wait" /\ x.leader # r
    BY <2>2 DEF Building
  <2>4. asker'[x.leader] = asker[x.leader]
    BY <1>4, <2>2, <2>3, WokenIs
  <2>5. ~y.invalidated => y \in flights /\ ~Slice!Invalidates(f) /\ y.fence = f
    BY <1>2 DEF SliceKept, FlightsTrue, Slice!Invalidates
  <2> QED
    BY <2>1, <2>2, <2>3, <2>4, <2>5
<1>10. N = {} \/ (N = {new} /\ a.step = "build" /\ new.key = a.key /\ new.fence = f /\ new.leader = r /\ ~new.invalidated)
  BY DEF NewFlight
<1>11. "build" \in Building
  BY DEF Building
<1> HIDE DEF new
<1>12. FlightsTrue'
  <2>0. IsFiniteSet(seen \cup N) /\ Cardinality(seen \cup N) <= MaxFlights
    <3>1. CASE N = {}
      <4>1. seen \cup N = seen
        BY <3>1
      <4>2. IsFiniteSet(seen) /\ Cardinality(seen) <= MaxFlights
        BY <1>1, <1>2
      <4> QED
        BY <4>1, <4>2, Zenon
    <3>2. CASE N = {new} /\ a.step = "build"
      <4>1. /\ IsFiniteSet(seen \cup {new})
            /\ Cardinality(seen \cup {new}) = IF new \in seen THEN Cardinality(seen) ELSE Cardinality(seen) + 1
        <5>1. IsFiniteSet(seen)
          BY <1>2
        <5> QED
          BY <5>1, FS_AddElement
      <4>2. Cardinality(seen) + 1 <= MaxFlights
        BY <1>1, <1>2, <3>2 DEF seen
      <4>3. Cardinality(seen \cup {new}) <= MaxFlights
        BY <1>1, <1>2, <4>1, <4>2
      <4>4. seen \cup N = seen \cup {new}
        BY <3>2
      <4> QED
        BY <4>1, <4>3, <4>4, Zenon
    <3> QED
      BY <1>10, <3>1, <3>2
  <2>1. IsFiniteSet(flights') /\ Cardinality(flights') <= MaxFlights
    BY <1>3, <2>0, Zenon
  <2>2. \A x \in flights' : asker'[x.leader].step \in Building /\ asker'[x.leader].key = x.key
                            /\ asker'[x.leader].fence = x.fence
    BY <1>3, <1>4, <1>9, <1>10, <1>11
  <2>3. \A x \in flights' : ~x.invalidated => x.fence = f
    BY <1>3, <1>9, <1>10
  <2>4. ASSUME NEW x \in flights', NEW y \in flights', x.key = y.key, ~x.invalidated, ~y.invalidated PROVE x = y
    <3>1. CASE x \in seen /\ y \in seen
      BY <3>1, <2>4, <1>9 DEF SliceKept, FlightsTrue
    <3>2. ASSUME NEW z \in seen, ~z.invalidated, a.step = "build" PROVE z.key # a.key
      <4>1. z.fence = f
        BY <1>9, <3>2
      <4> QED
        BY <4>1, <3>2 DEF seen
    <3> QED
      BY <1>3, <1>10, <2>4, <3>1, <3>2
  <2>5. ASSUME NEW t \in Askers, asker'[t].step \in Building PROVE \E x \in flights' : x.leader = t
    <3>1. CASE t = r
      BY <3>1, <2>5, <1>3, <1>4, <1>10
    <3>2. CASE t # r
      <4>1. asker'[t] = Slice!Woken(asker, f)[t]
        BY <1>4, <3>2
      <4>2. Slice!Woken(asker, f)[t] = asker[t] \/ Slice!Woken(asker, f)[t].step = "fence"
        BY WokenIs
      <4>3. asker[t].step \in Building
        BY <4>1, <4>2, <2>5 DEF Building
      <4>4. PICK x \in flights : x.leader = t
        BY <4>3 DEF SliceKept, FlightsTrue
      <4> QED
        BY <1>2, <1>3, <4>4
    <3> QED
      BY <3>1, <3>2
  <2>6. ASSUME NEW t \in Askers, asker'[t].step = "wait"
        PROVE \E x \in flights' : x.key = asker'[t].key /\ x.fence = asker'[t].fence /\ ~x.invalidated
    <3>1. CASE t = r
      BY <3>1, <2>6, <1>3, <1>4 DEF seen
    <3>2. CASE t # r
      <4>1. asker'[t] = Slice!Woken(asker, f)[t]
        BY <1>4, <3>2
      <4>2. ~Slice!Invalidates(f) /\ asker'[t] = asker[t]
        BY <4>1, <2>6, WokenIs
      <4>3. PICK x \in flights : x.key = asker[t].key /\ x.fence = asker[t].fence /\ ~x.invalidated
        BY <4>2, <2>6 DEF SliceKept, FlightsTrue, Slice!FlightFor
      <4> QED
        BY <1>2, <1>3, <4>2, <4>3
    <3> QED
      BY <3>1, <3>2
  <2> QED
    BY <2>1, <2>2, <2>3, <2>4, <2>5, <2>6 DEF FlightsTrue, Slice!FlightFor
<1>13. Unpublished'
  <2> SUFFICES ASSUME NEW x \in flights', ~x.invalidated, asker'[x.leader].step # "land",
                      NEW i \in 1 .. Len(entries')
               PROVE  entries'[i].key # x.key
    BY DEF Unpublished
  <2>1. CASE x \in seen
    <3>1. x \in flights /\ ~Slice!Invalidates(f) /\ asker[x.leader].step # "land"
      BY <2>1, <1>9
    <3>2. PICK j \in 1 .. Len(entries) : entries'[i] = entries[j]
      BY <3>1 DEF Among
    <3> QED
      BY <3>1, <3>2 DEF SliceKept, Unpublished
  <2>2. CASE x \notin seen
    BY <2>2, <1>3, <1>10
  <2> QED
    BY <2>1, <2>2
<1> QED
  BY <1>6, <1>7, <1>8, <1>12, <1>13 DEF SliceKept

\* A thread that waits for no flight is not woken.
LEMMA WokenAt ==
    ASSUME SliceKept, NEW f, NEW r \in Askers, asker[r].step # "wait"
    PROVE  /\ Slice!Woken(asker, f)[r] = asker[r]
           /\ Slice!Woken(asker, f) = [t \in Askers |-> Slice!Woken(asker, f)[t]]
BY WokenIs DEF Slice!Woken

LEMMA SliceReadFence == ASSUME SliceKept, NEW r \in Askers, Slice!ReadFence(r) PROVE SliceKept'
<1>1. asker[r].step = "fence" /\ saved' = saved /\ calls' = calls
  BY DEF Slice!ReadFence
<1>2. /\ asker \in [Askers -> Slice!ReaderState] /\ asker[r] \in Slice!ReaderState
      /\ AskerFields(asker[r]) /\ AskerTrue(asker[r], saved) /\ saved \in Nat
      /\ calls' \in 0 .. MaxCalls /\ asker[r].outcome = "none" /\ unreadable \in 0 .. MaxUnreadable
  BY <1>1, SliceTypes DEF AskerFields, AskerTrue
<1>3. asker[r].step \notin Building
  BY <1>1 DEF Building
<1> DEFINE b == [asker[r] EXCEPT !.step = "before"]
<1>4. /\ b \in Slice!ReaderState /\ b.step = "before" /\ b.outcome = "none" /\ b.since = asker[r].since
      /\ b.step \notin Building
  BY <1>2 DEF Slice!ReaderState, Slice!Steps, Building
<1>5. AskerTrue(b, saved)
  <2> HIDE DEF b
  <2> QED
    BY <1>2, <1>4 DEF AskerTrue, Fenced, Building
<1>6. CASE asker[r].attempt > 2
  <2>1. /\ asker' = [asker EXCEPT ![r] = b] /\ fence' = fence /\ entries' = entries /\ bytes' = bytes
        /\ flights' = flights /\ unreadable' = unreadable
    BY <1>2, <1>6 DEF Slice!ReadFence, Slice!Go, Slice!cache
  <2> HIDE DEF b
  <2> QED
    BY <1>1, <1>2, <1>3, <1>4, <1>5, <2>1, OneMoves
<1>7. CASE ~(asker[r].attempt > 2)
  <2>1. PICK f \in Slice!Fences :
          /\ Slice!Reads(f)
          /\ IF f # Slice!None
             THEN /\ asker' = [asker EXCEPT ![r].step = "get", ![r].fence = f]
                  /\ UNCHANGED <<fence, entries, bytes, flights>>
             ELSE /\ asker' = [Slice!Woken(asker, Slice!None) EXCEPT ![r].step = "before"]
                  /\ flights' = Slice!FlightsAfter(Slice!None)
                  /\ entries' = Slice!EntriesAfter(Slice!None, {})
                  /\ bytes' = Slice!Bytes(entries')
                  /\ fence' = Slice!None
    BY <1>7 DEF Slice!ReadFence, Slice!cache
  <2>2. unreadable' \in 0 .. MaxUnreadable /\ (f = saved \/ f = Slice!None)
    BY <2>1, ReadsIs
  <2>3. CASE f # Slice!None
    <3> DEFINE a == [asker[r] EXCEPT !.step = "get", !.fence = f]
    <3>1. asker' = [asker EXCEPT ![r] = a]
      BY <1>2, <2>1, <2>3
    <3>2. /\ a \in Slice!ReaderState /\ a.step = "get" /\ a.fence = f /\ a.outcome = "none"
          /\ a.since = asker[r].since /\ a.attempt = asker[r].attempt
      BY <1>2 DEF Slice!ReaderState, Slice!Steps
    <3> HIDE DEF a
    <3>3. f \in a.since .. saved /\ a.attempt <= 2
      BY <1>2, <1>7, <2>2, <2>3, <3>2 DEF AskerTrue, AskerFields
    <3>4. AskerTrue(a, saved) /\ a.step \notin Building
      BY <1>2, <3>2, <3>3 DEF AskerTrue, Fenced, Building
    <3>5. fence' = fence /\ entries' = entries /\ bytes' = bytes /\ flights' = flights
      BY <2>1, <2>3
    <3> QED
      BY <1>1, <1>2, <1>3, <2>2, <3>1, <3>2, <3>4, <3>5, OneMoves
  <2>4. CASE f = Slice!None
    <3> DEFINE n == Slice!None
    <3>1. Slice!Woken(asker, n)[r] = asker[r] /\ Slice!Woken(asker, n) = [t \in Askers |-> Slice!Woken(asker, n)[t]]
      BY <1>1, WokenAt
    <3>2. asker' = [Slice!Woken(asker, n) EXCEPT ![r] = b]
      <4>1. asker' = [Slice!Woken(asker, n) EXCEPT ![r].step = "before"]
        BY <2>1, <2>4
      <4>2. [Slice!Woken(asker, n) EXCEPT ![r].step = "before"]
              = [Slice!Woken(asker, n) EXCEPT ![r] = [Slice!Woken(asker, n)[r] EXCEPT !.step = "before"]]
        OBVIOUS
      <4> QED
        BY <3>1, <4>1, <4>2
    <3>3. /\ n \in Slice!Fences /\ fence' = n /\ entries' = Slice!EntriesAfter(n, {}) /\ bytes' = Slice!Bytes(entries')
          /\ flights' = Slice!FlightsAfter(n) \cup {}
      BY <2>1, <2>4
    <3> HIDE DEF n, b
    <3>4. /\ entries' \in Seq(Pages) /\ Distinct(entries') /\ Len(entries') <= MaxEntries
          /\ Slice!Bytes(entries') <= MaxBytes /\ Among(entries', entries)
          /\ \A i \in 1 .. Len(entries') : entries'[i].page = [begin |-> n, end |-> n]
      BY <3>3, EntriesAfterIs
    <3> QED
      BY <1>1, <1>3, <1>4, <1>5, <2>2, <3>2, <3>3, <3>4, Looks DEF Building
  <2> QED
    BY <2>3, <2>4
<1> QED
  BY <1>6, <1>7

LEMMA SliceGet == ASSUME SliceKept, NEW r \in Askers, Slice!Get(r) PROVE SliceKept'
<1> DEFINE k == asker[r].key
           f == asker[r].fence
           seen == Slice!FlightsAfter(f)
           woken == Slice!Woken(asker, f)
<1>1. asker[r].step = "get" /\ fence' = f /\ saved' = saved /\ calls' = calls /\ unreadable' = unreadable
  BY DEF Slice!Get
<1>2. /\ asker \in [Askers -> Slice!ReaderState] /\ asker[r] \in Slice!ReaderState
      /\ AskerFields(asker[r]) /\ AskerTrue(asker[r], saved) /\ saved \in Nat
      /\ unreadable' \in 0 .. MaxUnreadable /\ f \in Slice!Fences
      /\ f # Slice!None
  <2>1. AskerFields(asker[r]) /\ AskerTrue(asker[r], saved) /\ f \in Slice!Fences
    BY SliceTypes DEF AskerFields, Slice!Fences
  <2>2. f \in asker[r].since .. saved /\ asker[r].since \in Nat
    BY <1>1, <2>1 DEF AskerTrue, AskerFields, Fenced, Building
  <2>3. f # Slice!None
    BY <2>2 DEF Slice!None
  <2> QED
    BY <1>1, <2>1, <2>3, SliceTypes
<1>3. woken[r] = asker[r] /\ asker[r].step \notin Building
  BY <1>1, WokenAt DEF Building
<1>4. PICK K \in SUBSET Keys :
        /\ \/ /\ \E i \in Slice!Entry(k, Slice!EntriesAfter(f, K)) :
                   /\ entries' = Append(Slice!Others({k}, Slice!EntriesAfter(f, K)), Slice!EntriesAfter(f, K)[i])
                   /\ asker' = [woken EXCEPT ![r].step = "post", ![r].page = Slice!EntriesAfter(f, K)[i].page]
              /\ flights' = seen
           \/ /\ Slice!Entry(k, Slice!EntriesAfter(f, K)) = {} /\ Slice!FlightFor(r, seen) # {}
              /\ entries' = Slice!EntriesAfter(f, K)
              /\ flights' = seen
              /\ asker' = IF \E x \in Slice!FlightFor(r, seen) : x.invalidated
                          THEN [woken EXCEPT ![r].step = "fence", ![r].attempt = woken[r].attempt + 1]
                          ELSE [woken EXCEPT ![r].step = "wait"]
           \/ /\ Slice!Entry(k, Slice!EntriesAfter(f, K)) = {}
              /\ entries' = Slice!EntriesAfter(f, K)
              /\ flights' = seen
              /\ asker' = [woken EXCEPT ![r].step = "before"]
           \/ /\ Slice!Entry(k, Slice!EntriesAfter(f, K)) = {} /\ Slice!FlightFor(r, seen) = {}
              /\ Slice!Cardinality(seen) < MaxFlights
              /\ entries' = Slice!EntriesAfter(f, K)
              /\ flights' = seen \cup {[key |-> k, fence |-> f, leader |-> r, invalidated |-> FALSE]}
              /\ asker' = [woken EXCEPT ![r].step = "build"]
        /\ bytes' = Slice!Bytes(entries')
  BY DEF Slice!Get
<1> DEFINE kept == Slice!EntriesAfter(f, K)
<1>5. /\ kept \in Seq(Pages) /\ Distinct(kept) /\ Len(kept) <= MaxEntries /\ Slice!Bytes(kept) <= MaxBytes
      /\ Among(kept, entries) /\ (Slice!Invalidates(f) => Len(kept) = 0) /\ Len(kept) \in Nat
      /\ \A i \in 1 .. Len(kept) : kept[i].page = [begin |-> f, end |-> f]
  BY EntriesAfterIs
<1> HIDE DEF kept
<1>6. ASSUME NEW s \in {"fence", "wait", "before", "build"}, NEW n \in {asker[r].attempt, asker[r].attempt + 1}
      PROVE  LET a == [asker[r] EXCEPT !.step = s, !.attempt = n] IN
             /\ a \in Slice!ReaderState /\ a.step = s /\ a.key = k /\ a.fence = f
             /\ n = asker[r].attempt \/ s = "fence" => AskerTrue(a, saved)
  <2> DEFINE a == [asker[r] EXCEPT !.step = s, !.attempt = n]
  <2>1. n \in 1 .. 3 /\ asker[r].outcome = "none" /\ asker[r].attempt <= 2
    BY <1>1, <1>2 DEF AskerTrue, AskerFields, Fenced, Building
  <2>2. /\ a \in Slice!ReaderState /\ a.step = s /\ a.key = k /\ a.fence = f /\ a.outcome = "none"
        /\ a.since = asker[r].since /\ a.attempt = n
    BY <1>2, <2>1 DEF Slice!ReaderState, Slice!Steps
  <2> HIDE DEF a
  <2>3. n = asker[r].attempt \/ s = "fence" => AskerTrue(a, saved)
    BY <1>1, <1>2, <2>1, <2>2 DEF AskerTrue, Fenced, Building
  <2> QED
    BY <2>2, <2>3 DEF a
<1>7. asker[r].attempt \in Nat /\ [asker[r] EXCEPT !.attempt = asker[r].attempt] = asker[r]
  BY <1>2 DEF AskerFields, Slice!ReaderState
<1> DEFINE Moved(s, n) == [asker[r] EXCEPT !.step = s, !.attempt = n]
<1>8. ASSUME NEW s PROVE [woken EXCEPT ![r].step = s] = [woken EXCEPT ![r] = Moved(s, asker[r].attempt)]
  <2>1. [woken EXCEPT ![r].step = s] = [woken EXCEPT ![r] = [woken[r] EXCEPT !.step = s]]
    OBVIOUS
  <2>2. [asker[r] EXCEPT !.step = s] = Moved(s, asker[r].attempt)
    BY <1>2 DEF Slice!ReaderState
  <2> HIDE DEF woken, Moved
  <2> QED
    BY <1>3, <2>1, <2>2
<1>9. [woken EXCEPT ![r].step = "fence", ![r].attempt = woken[r].attempt + 1]
        = [woken EXCEPT ![r] = Moved("fence", asker[r].attempt + 1)]
  <2>1. [woken EXCEPT ![r].step = "fence", ![r].attempt = woken[r].attempt + 1]
          = [woken EXCEPT ![r] = [woken[r] EXCEPT !.step = "fence", !.attempt = woken[r].attempt + 1]]
    OBVIOUS
  <2> HIDE DEF woken
  <2> QED
    BY <1>3, <2>1
\* Whatever the thread finds, unless it is a hit, leaves the entries as the look left them.
<1>10. ASSUME NEW a \in Slice!ReaderState, AskerTrue(a, saved), asker' = [woken EXCEPT ![r] = a],
              entries' = kept, NEW N, flights' = seen \cup N,
              a.step \in Building => a.step = "build" /\ N = {NewFlight(a, f, r)},
              a.step \notin Building => N = {},
              a.step = "build" => /\ a.fence = f
                                  /\ \A y \in seen : ~(y.key = a.key /\ y.fence = f)
                                  /\ Cardinality(seen) < MaxFlights
                                  /\ \A i \in 1 .. Len(kept) : kept[i].key # a.key,
              a.step = "wait" => \E x \in seen : x.key = a.key /\ x.fence = a.fence /\ ~x.invalidated
       PROVE  SliceKept'
  <2>1. bytes' = Slice!Bytes(entries')
    BY <1>4
  <2> HIDE DEF f
  <2> QED
    BY <1>1, <1>2, <1>3, <1>5, <1>10, <2>1, Looks
<1>11. CASE /\ Slice!Entry(k, kept) = {} /\ Slice!FlightFor(r, seen) # {}
            /\ entries' = kept /\ flights' = seen
            /\ asker' = IF \E x \in Slice!FlightFor(r, seen) : x.invalidated
                        THEN [woken EXCEPT ![r].step = "fence", ![r].attempt = woken[r].attempt + 1]
                        ELSE [woken EXCEPT ![r].step = "wait"]
  <2> DEFINE again == Moved("fence", asker[r].attempt + 1)
             waits == Moved("wait", asker[r].attempt)
  <2>1. asker' = [woken EXCEPT ![r] = again] \/ (asker' = [woken EXCEPT ![r] = waits] /\ ~\E x \in Slice!FlightFor(r, seen) : x.invalidated)
    BY <1>8, <1>9, <1>11
  <2>2. again \in Slice!ReaderState /\ again.step = "fence" /\ AskerTrue(again, saved)
    BY <1>6
  <2>3. waits \in Slice!ReaderState /\ waits.step = "wait" /\ waits.key = k /\ waits.fence = f /\ AskerTrue(waits, saved)
    BY <1>6
  <2> HIDE DEF again, waits, Moved
  <2>4. "fence" \notin Building /\ "wait" \notin Building /\ flights' = seen \cup {}
    BY <1>11 DEF Building
  <2>5. CASE asker' = [woken EXCEPT ![r] = again]
    <3> HIDE DEF seen, woken, f, k
    <3> QED
      BY <1>10, <1>11, <2>2, <2>4, <2>5
  <2>6. CASE asker' = [woken EXCEPT ![r] = waits] /\ ~\E x \in Slice!FlightFor(r, seen) : x.invalidated
    <3>1. \E x \in seen : x.key = waits.key /\ x.fence = waits.fence /\ ~x.invalidated
      BY <1>11, <2>3, <2>6 DEF Slice!FlightFor
    <3> HIDE DEF seen, woken, f, k
    <3> QED
      BY <1>10, <1>11, <2>3, <2>4, <2>6, <3>1
  <2> QED
    BY <2>1, <2>5, <2>6
<1>12. CASE /\ Slice!Entry(k, kept) = {} /\ entries' = kept /\ flights' = seen
            /\ asker' = [woken EXCEPT ![r].step = "before"]
  <2> DEFINE a == Moved("before", asker[r].attempt)
  <2>1. asker' = [woken EXCEPT ![r] = a]
    BY <1>8, <1>12
  <2>2. a \in Slice!ReaderState /\ a.step = "before" /\ AskerTrue(a, saved)
    BY <1>6
  <2> HIDE DEF a, Moved
  <2>3. "before" \notin Building /\ flights' = seen \cup {}
    BY <1>12 DEF Building
  <2> HIDE DEF seen, woken, f, k
  <2> QED
    BY <1>10, <1>12, <2>1, <2>2, <2>3
<1>13. CASE /\ Slice!Entry(k, kept) = {} /\ Slice!FlightFor(r, seen) = {}
            /\ Slice!Cardinality(seen) < MaxFlights
            /\ entries' = kept
            /\ flights' = seen \cup {[key |-> k, fence |-> f, leader |-> r, invalidated |-> FALSE]}
            /\ asker' = [woken EXCEPT ![r].step = "build"]
  <2> DEFINE a == Moved("build", asker[r].attempt)
  <2>1. asker' = [woken EXCEPT ![r] = a]
    BY <1>8, <1>13
  <2>2. a \in Slice!ReaderState /\ a.step = "build" /\ a.key = k /\ a.fence = f /\ AskerTrue(a, saved)
    BY <1>6
  <2> HIDE DEF a, Moved
  <2>3. flights' = seen \cup {NewFlight(a, f, r)}
    BY <1>13, <2>2 DEF NewFlight
  <2>4. \A y \in seen : ~(y.key = a.key /\ y.fence = f)
    BY <1>13, <2>2 DEF Slice!FlightFor
  <2>5. \A i \in 1 .. Len(kept) : kept[i].key # a.key
    BY <1>13, <2>2 DEF Slice!Entry
  <2>6. Cardinality(seen) < MaxFlights
    BY <1>13, SliceCount
  <2>7. "build" \in Building
    BY DEF Building
  <2> HIDE DEF seen, woken, f, k
  <2> QED
    BY <1>10, <1>13, <2>1, <2>2, <2>3, <2>4, <2>5, <2>6, <2>7
<1>14. CASE /\ \E i \in Slice!Entry(k, kept) :
                  /\ entries' = Append(Slice!Others({k}, kept), kept[i])
                  /\ asker' = [woken EXCEPT ![r].step = "post", ![r].page = kept[i].page]
            /\ flights' = seen
  <2>1. PICK i \in Slice!Entry(k, kept) :
          /\ entries' = Append(Slice!Others({k}, kept), kept[i])
          /\ asker' = [woken EXCEPT ![r].step = "post", ![r].page = kept[i].page]
    BY <1>14
  <2> DEFINE p == kept[i].page
             a == [asker[r] EXCEPT !.step = "post", !.page = p]
             o == Slice!Others({k}, kept)
             e == kept[i]
  <2>2. i \in 1 .. Len(kept) /\ e.key = k /\ p = [begin |-> f, end |-> f] /\ e \in Pages /\ p \in Slice!Page
        /\ Size[e.key] \in Nat
    <3>1. i \in 1 .. Len(kept) /\ e.key = k
      BY DEF Slice!Entry
    <3> QED
      BY <3>1, <1>5, EntryIs
  <2>3. /\ o \in Seq(Pages) /\ Distinct(o) /\ Among(o, kept) /\ (\A j \in 1 .. Len(o) : o[j].key \notin {k})
        /\ Len(o) + 1 <= Len(kept) /\ Slice!Bytes(o) + Size[e.key] <= Slice!Bytes(kept)
    BY <1>5, <2>2, OthersKeep
  <2>4. asker' = [woken EXCEPT ![r] = a]
    <3>1. [woken EXCEPT ![r].step = "post", ![r].page = p] = [woken EXCEPT ![r] = [woken[r] EXCEPT !.step = "post", !.page = p]]
      OBVIOUS
    <3> HIDE DEF woken
    <3> QED
      BY <1>3, <2>1, <3>1
  <2>5. Whole(p, f)
    BY <2>2 DEF Whole
  <2> HIDE DEF p
  <2>6. a \in Slice!ReaderState /\ a.step = "post" /\ a.fence = f /\ a.page = p /\ a.outcome = asker[r].outcome
        /\ a.since = asker[r].since /\ a.attempt = asker[r].attempt
    BY <1>2, <2>2 DEF Slice!ReaderState, Slice!Steps
  <2> HIDE DEF a
  <2>7. AskerTrue(a, saved)
    BY <1>1, <1>2, <2>5, <2>6 DEF AskerTrue, AskerFields, Fenced, Building
  <2> HIDE DEF o, e
  <2>8. /\ entries' \in Seq(Pages) /\ Distinct(entries') /\ Len(entries') = Len(o) + 1
        /\ \A j \in 1 .. Len(o) + 1 : entries'[j] = e \/ \E l \in 1 .. Len(o) : entries'[j] = o[l]
    <3>1. entries' = Append(o, e)
      BY <2>1 DEF o, e
    <3>2. \A j \in 1 .. Len(o) : o[j].key # e.key
      BY <2>2, <2>3
    <3> QED
      BY <2>2, <2>3, <3>1, <3>2, AppendIs
  <2>9. Slice!Bytes(entries') = Slice!Bytes(o) + Size[e.key]
    <3>1. entries' = Append(o, e)
      BY <2>1 DEF o, e
    <3> QED
      BY <2>2, <2>3, <3>1, BytesAppend
  <2>10. Len(entries') <= MaxEntries /\ Slice!Bytes(entries') <= MaxBytes
    <3>1. Slice!Bytes(o) \in Nat /\ Slice!Bytes(kept) \in Nat /\ Len(o) \in Nat /\ MaxEntries \in Nat /\ MaxBytes \in Nat
      BY <1>5, <2>3, BytesNat, SizeIs
    <3> QED
      BY <1>5, <2>2, <2>3, <2>8, <2>9, <3>1
  <2>11. ASSUME NEW j \in 1 .. Len(entries') PROVE \E l \in 1 .. Len(kept) : entries'[j] = kept[l]
    <3>1. entries'[j] = e \/ \E l \in 1 .. Len(o) : entries'[j] = o[l]
      BY <2>8
    <3> QED
      BY <2>2, <2>3, <3>1 DEF Among, e
  <2>12. \A j \in 1 .. Len(entries') : entries'[j].page = [begin |-> f, end |-> f]
    BY <1>5, <2>11
  <2>13. Among(entries', entries)
    BY <1>5, <2>11 DEF Among
  <2>14. flights' = seen \cup {} /\ bytes' = Slice!Bytes(entries') /\ "post" \notin Building
    BY <1>4, <1>14 DEF Building
  <2> HIDE DEF f
  <2> QED
    BY <1>1, <1>2, <1>3, <2>4, <2>6, <2>7, <2>8, <2>10, <2>12, <2>13, <2>14, Looks
<1> QED
  BY <1>4, <1>11, <1>12, <1>13, <1>14 DEF kept

\* A page is stored only while its flight is listed and not void; then no entry has its key.
LEMMA StoredAlone ==
    ASSUME SliceKept, NEW r \in Askers, asker[r].step = "publish", Slice!MayPublish(r)
    PROVE  /\ fence = asker[r].fence
           /\ \A i \in 1 .. Len(entries) : entries[i].key # asker[r].key
           /\ \A x \in flights : x.key = asker[r].key /\ ~x.invalidated => x.leader = r
<1>1. PICK x \in flights : x.leader = r
  BY DEF SliceKept, FlightsTrue, Building
<1>2. ~x.invalidated /\ x.key = asker[r].key /\ fence = asker[r].fence
  BY <1>1 DEF SliceKept, FlightsTrue, Slice!MayPublish
<1>3. \A i \in 1 .. Len(entries) : entries[i].key # x.key
  BY <1>1, <1>2 DEF SliceKept, Unpublished
<1>4. \A y \in flights : y.key = asker[r].key /\ ~y.invalidated => y = x
  BY <1>2 DEF SliceKept, FlightsTrue
<1> QED
  BY <1>1, <1>2, <1>3, <1>4

LEMMA SlicePublish == ASSUME SliceKept, NEW r \in Askers, Slice!Publish(r) PROVE SliceKept'
<1>1. /\ asker[r].step = "publish" /\ asker[r].outcome # "none"
      /\ saved' = saved /\ calls' = calls /\ unreadable' = unreadable /\ fence' = fence /\ flights' = flights
  BY DEF Slice!Publish
<1>2. /\ asker \in [Askers -> Slice!ReaderState] /\ asker[r] \in Slice!ReaderState
      /\ AskerFields(asker[r]) /\ AskerTrue(asker[r], saved)
      /\ calls' \in 0 .. MaxCalls /\ unreadable' \in 0 .. MaxUnreadable
  BY <1>1, SliceTypes DEF AskerFields
<1>3. asker[r].outcome \in {"stored", "private"} /\ Whole(asker[r].page, asker[r].fence)
  BY <1>1, <1>2 DEF AskerTrue
<1>4. asker[r].step \in Building /\ "land" \in Building
  BY <1>1 DEF Building
<1> DEFINE To(o) == [asker[r] EXCEPT !.step = "land", !.outcome = o]
<1>5. ASSUME NEW o \in {"stored", "private", "stale"}
      PROVE  /\ To(o) \in Slice!ReaderState /\ To(o).step = "land" /\ To(o).key = asker[r].key
             /\ To(o).fence = asker[r].fence /\ AskerTrue(To(o), saved)
  <2> DEFINE a == To(o)
  <2>1. /\ a \in Slice!ReaderState /\ a.step = "land" /\ a.outcome = o /\ a.page = asker[r].page
        /\ a.fence = asker[r].fence /\ a.key = asker[r].key /\ a.since = asker[r].since
        /\ a.attempt = asker[r].attempt
    BY <1>2 DEF Slice!ReaderState, Slice!Steps
  <2> HIDE DEF a
  <2>2. AskerTrue(a, saved)
    BY <1>1, <1>2, <1>3, <2>1 DEF AskerTrue, Fenced, Building
  <2> QED
    BY <2>1, <2>2 DEF a
<1>6. ASSUME NEW o \in {"private", "stale"}, asker' = [asker EXCEPT ![r].step = "land", ![r].outcome = o],
             entries' = entries, bytes' = bytes
      PROVE  SliceKept'
  <2>1. asker' = [asker EXCEPT ![r] = To(o)]
    BY <1>2, <1>6
  <2>2. /\ To(o) \in Slice!ReaderState /\ To(o).step = "land" /\ To(o).key = asker[r].key
        /\ To(o).fence = asker[r].fence /\ AskerTrue(To(o), saved)
    BY <1>5
  <2> HIDE DEF To
  <2> QED
    BY <1>1, <1>2, <1>4, <1>6, <2>1, <2>2, OneMoves
<1>7. CASE ~Slice!MayPublish(r)
  BY <1>6, <1>7 DEF Slice!Publish
<1>8. CASE Slice!MayPublish(r) /\ ~(asker[r].outcome = "stored" /\ Size[asker[r].key] <= MaxBytes)
  BY <1>6, <1>8 DEF Slice!Publish
<1>9. CASE Slice!MayPublish(r) /\ asker[r].outcome = "stored" /\ Size[asker[r].key] <= MaxBytes
  <2> DEFINE k == asker[r].key
             e == [key |-> k, page |-> asker[r].page]
             app == Append(entries, e)
             ev == Slice!Evicted(app)
             a == To("stored")
  <2>1. /\ entries' = Slice!Evicted(Slice!Appended(r)) /\ bytes' = Slice!BytesAfter(r)
        /\ asker' = [asker EXCEPT ![r].step = "land"]
    BY <1>9 DEF Slice!Publish, Slice!Go
  <2>2. /\ fence = asker[r].fence /\ \A i \in 1 .. Len(entries) : entries[i].key # k
        /\ \A x \in flights : x.key = k /\ ~x.invalidated => x.leader = r
    BY <1>1, <1>9, StoredAlone
  <2>3. /\ entries \in Seq(Pages) /\ Distinct(entries) /\ bytes = Slice!Bytes(entries) /\ e \in Pages
        /\ \A i \in 1 .. Len(entries) : entries[i].page = [begin |-> fence, end |-> fence]
        /\ bytes \in Nat /\ Size[k] \in Nat
    <3>1. e \in Pages /\ Size[k] \in Nat
      BY <1>2, SizeIs DEF AskerFields, Pages
    <3> QED
      BY <3>1, SliceTypes DEF SliceKept, Slice!BytesExact, Slice!EntriesWhole, Distinct
  <2>4. Slice!Others({k}, entries) = entries
    <3>1. \A i \in 1 .. Len(entries) : entries[i].key \notin {k}
      BY <2>2
    <3> QED
      BY <2>3, <3>1, OthersKeep
  <2>5. Slice!Appended(r) = app
    BY <2>4 DEF Slice!Appended
  <2>6. e.key = k /\ e.page = [begin |-> fence, end |-> fence]
    <3>1. asker[r].page \in [begin : Slice!Revisions, end : Slice!Revisions]
      BY <1>2 DEF AskerFields, Slice!Page
    <3> QED
      BY <3>1, <1>3, <2>2 DEF Whole
  <2> HIDE DEF e
  <2>7. /\ app \in Seq(Pages) /\ Distinct(app)
        /\ \A i \in 1 .. Len(app) : app[i] = e \/ \E j \in 1 .. Len(entries) : app[i] = entries[j]
        /\ Slice!Bytes(app) = Slice!Bytes(entries) + Size[k]
    <3>1. \A i \in 1 .. Len(entries) : entries[i].key # e.key
      BY <2>2, <2>6
    <3>2. /\ app \in Seq(Pages) /\ Distinct(app) /\ Len(app) = Len(entries) + 1
          /\ \A i \in 1 .. Len(entries) + 1 : app[i] = e \/ \E j \in 1 .. Len(entries) : app[i] = entries[j]
      BY <2>3, <3>1, AppendIs
    <3>3. Slice!Bytes(app) = Slice!Bytes(entries) + Size[e.key]
      BY <2>3, BytesAppend
    <3> QED
      BY <2>6, <3>2, <3>3
  <2> HIDE DEF app
  <2>8. /\ ev \in Seq(Pages) /\ Distinct(ev) /\ Among(ev, app) /\ Len(ev) <= MaxEntries /\ Slice!Bytes(ev) <= MaxBytes
    BY <2>7, EvictedIs
  <2>9. entries' = ev /\ bytes' = Slice!Bytes(ev)
    <3>1. bytes' = bytes + Size[k] - (Slice!Bytes(app) - Slice!Bytes(ev))
      BY <2>1, <2>5 DEF Slice!BytesAfter
    <3>2. Slice!Bytes(ev) \in Nat /\ Slice!Bytes(app) = bytes + Size[k]
      BY <2>3, <2>7, <2>8, BytesNat
    <3> QED
      BY <2>1, <2>3, <2>5, <3>1, <3>2
  <2> HIDE DEF ev
  <2>10. ASSUME NEW i \in 1 .. Len(entries')
         PROVE  entries'[i] = e \/ \E j \in 1 .. Len(entries) : entries'[i] = entries[j]
    BY <2>7, <2>8, <2>9 DEF Among
  <2>11. asker' = [asker EXCEPT ![r] = a]
    <3>1. [asker[r] EXCEPT !.step = "land"] = a
      BY <1>2, <1>9 DEF Slice!ReaderState
    <3>2. [asker EXCEPT ![r].step = "land"] = [asker EXCEPT ![r] = [asker[r] EXCEPT !.step = "land"]]
      OBVIOUS
    <3> QED
      BY <2>1, <3>1, <3>2
  <2>12. a \in Slice!ReaderState /\ a.step = "land" /\ a.key = k /\ a.fence = asker[r].fence /\ AskerTrue(a, saved)
    BY <1>5
  <2> HIDE DEF a, To
  <2>13. /\ asker' \in [Askers -> Slice!ReaderState] /\ asker'[r] = a /\ \A t \in Askers : t # r => asker'[t] = asker[t]
    BY <1>2, <2>11, <2>12
  <2>14. Slice!TypeOK'
    <3>1. bytes' \in Nat
      BY <2>8, <2>9, BytesNat
    <3>2. entries' \in Seq([key : Keys, page : Slice!Page])
      BY <2>8, <2>9 DEF Pages
    <3> QED
      BY <1>1, <1>2, <2>13, <3>1, <3>2 DEF SliceKept, Slice!TypeOK
  <2>15. Slice!BytesExact'
    BY <2>8, <2>9 DEF Slice!BytesExact, Distinct
  <2>16. Slice!EntriesWhole'
    <3>1. \A i \in 1 .. Len(entries') : entries'[i].page = [begin |-> fence, end |-> fence]
      BY <2>3, <2>6, <2>10
    <3> QED
      BY <1>1, <3>1 DEF Slice!EntriesWhole
  <2>17. AskersTrue'
    <3>1. \A t \in Askers : AskerTrue(asker'[t], saved')
      BY <1>1, <2>12, <2>13, SliceTypes
    <3> QED
      BY <3>1 DEF AskersTrue
  <2>18. \A x \in flights : x.leader \in Askers
    BY SliceTypes DEF FlightType
  <2>19. FlightsTrue'
    <3>1. \A x \in flights : asker'[x.leader].step \in Building /\ asker'[x.leader].key = x.key
                             /\ asker'[x.leader].fence = x.fence
      BY <1>4, <2>12, <2>13, <2>18 DEF SliceKept, FlightsTrue
    <3>2. \A t \in Askers : asker'[t].step \in Building => \E x \in flights : x.leader = t
      BY <1>4, <2>13 DEF SliceKept, FlightsTrue
    <3>3. \A t \in Askers : asker'[t].step = "wait" =>
            \E x \in flights : x.key = asker'[t].key /\ x.fence = asker'[t].fence /\ ~x.invalidated
      BY <2>12, <2>13 DEF SliceKept, FlightsTrue, Slice!FlightFor
    <3>4. /\ IsFiniteSet(flights) /\ Cardinality(flights) <= MaxFlights
          /\ \A x \in flights : ~x.invalidated => x.fence = fence
          /\ \A x, y \in flights : x.key = y.key /\ ~x.invalidated /\ ~y.invalidated => x = y
      BY DEF SliceKept, FlightsTrue
    <3> QED
      BY <1>1, <3>1, <3>2, <3>3, <3>4 DEF FlightsTrue, Slice!FlightFor
  <2>20. Unpublished'
    <3> SUFFICES ASSUME NEW x \in flights, ~x.invalidated, asker'[x.leader].step # "land",
                        NEW i \in 1 .. Len(entries')
                 PROVE  entries'[i].key # x.key
      BY <1>1 DEF Unpublished
    <3>1. x.leader # r /\ asker'[x.leader] = asker[x.leader]
      BY <2>12, <2>13, <2>18
    <3>2. x.key # k
      BY <2>2, <3>1
    <3>3. \A j \in 1 .. Len(entries) : entries[j].key # x.key
      BY <3>1 DEF SliceKept, Unpublished
    <3> QED
      BY <2>6, <2>10, <3>2, <3>3
  <2> QED
    BY <2>14, <2>15, <2>16, <2>17, <2>19, <2>20 DEF SliceKept
<1> QED
  BY <1>7, <1>8, <1>9

\* What a builder leaves, for itself and for those that wait.
LEMMA LandedIs ==
    ASSUME NEW a \in Slice!ReaderState, a.attempt <= 2, a.since <= saved, saved \in Nat,
           a.fence \in a.since .. saved, a.outcome = "none",
           NEW o \in {"stored", "private", "stale", "error"}, o = "stored" => Whole(a.page, a.fence)
    PROVE  /\ Slice!Landed(o, a) \in Slice!ReaderState /\ AskerTrue(Slice!Landed(o, a), saved)
           /\ Slice!Landed(o, a).step \in {"post", "before", "fence", "failed"}
<1> DEFINE l == Slice!Landed(o, a)
<1>1. AskerFields(a)
  BY AskerIs
<1>2. a.attempt + 1 \in 1 .. 3
  BY <1>1 DEF AskerFields
<1>3. CASE o = "stored"
  <2>1. l = [a EXCEPT !.step = "post"]
    BY <1>3 DEF Slice!Landed
  <2>2. /\ l \in Slice!ReaderState /\ l.step = "post" /\ l.outcome = "none" /\ l.since = a.since /\ l.page = a.page
        /\ l.fence = a.fence /\ l.attempt = a.attempt
    BY <2>1 DEF Slice!ReaderState, Slice!Steps
  <2> HIDE DEF l
  <2> QED
    BY <1>3, <2>2 DEF AskerTrue, Fenced, Building, l
<1>4. CASE o = "private"
  <2>1. l = [a EXCEPT !.step = "before"]
    BY <1>4 DEF Slice!Landed
  <2>2. l \in Slice!ReaderState /\ l.step = "before" /\ l.outcome = "none" /\ l.since = a.since
    BY <2>1 DEF Slice!ReaderState, Slice!Steps
  <2> HIDE DEF l
  <2> QED
    BY <1>4, <2>2 DEF AskerTrue, Fenced, Building, l
<1>5. CASE o = "stale"
  <2>1. l = [a EXCEPT !.step = "fence", !.attempt = a.attempt + 1]
    BY <1>5 DEF Slice!Landed
  <2>2. l \in Slice!ReaderState /\ l.step = "fence" /\ l.outcome = "none" /\ l.since = a.since
    BY <1>2, <2>1 DEF Slice!ReaderState, Slice!Steps
  <2> HIDE DEF l
  <2> QED
    BY <1>5, <2>2 DEF AskerTrue, Fenced, Building, l
<1>6. CASE o = "error"
  <2>1. l = [a EXCEPT !.step = "failed"]
    BY <1>6 DEF Slice!Landed
  <2>2. l \in Slice!ReaderState /\ l.step = "failed" /\ l.outcome = "none" /\ l.since = a.since
    BY <2>1 DEF Slice!ReaderState, Slice!Steps
  <2> HIDE DEF l
  <2> QED
    BY <1>6, <2>2 DEF AskerTrue, Fenced, Building, l
<1> QED
  BY <1>3, <1>4, <1>5, <1>6

LEMMA SliceLand == ASSUME SliceKept, NEW r \in Askers, Slice!Land(r) PROVE SliceKept'
<1> DEFINE o == asker[r].outcome
           op == IF o = "private" THEN "stored" ELSE o
           own == [Slice!Landed(op, asker[r]) EXCEPT !.outcome = "none"]
           Told(s) == IF o = "stored" THEN [asker[s] EXCEPT !.page = asker[r].page] ELSE asker[s]
<1>1. /\ asker[r].step = "land" /\ flights' = {x \in flights : x.leader # r}
      /\ asker' = [s \in Askers |-> IF s = r THEN own
                                    ELSE IF Slice!Lands(r, s) THEN Slice!Landed(o, Told(s)) ELSE asker[s]]
      /\ saved' = saved /\ fence' = fence /\ entries' = entries /\ bytes' = bytes
      /\ calls' = calls /\ unreadable' = unreadable
  BY DEF Slice!Land
<1>2. /\ asker \in [Askers -> Slice!ReaderState] /\ asker[r] \in Slice!ReaderState
      /\ AskerFields(asker[r]) /\ AskerTrue(asker[r], saved) /\ flights \subseteq FlightType /\ saved \in Nat
  BY SliceTypes DEF AskerFields
<1>3. /\ o \in {"stored", "private", "stale", "error"} /\ op \in {"stored", "stale", "error"}
      /\ op = "stored" => Whole(asker[r].page, asker[r].fence)
      /\ o = "stored" => op = "stored"
      /\ asker[r].attempt <= 2 /\ asker[r].since <= saved /\ asker[r].fence \in asker[r].since .. saved
  BY <1>1, <1>2 DEF AskerTrue, AskerFields, Fenced, Building
<1> DEFINE quiet == [asker[r] EXCEPT !.outcome = "none"]
<1>4. own \in Slice!ReaderState /\ AskerTrue(own, saved) /\ own.step \in {"post", "before", "fence", "failed"}
  <2>1. /\ quiet \in Slice!ReaderState /\ quiet.outcome = "none" /\ quiet.attempt = asker[r].attempt
        /\ quiet.since = asker[r].since /\ quiet.fence = asker[r].fence /\ quiet.page = asker[r].page
    BY <1>2 DEF Slice!ReaderState
  <2>2. own = Slice!Landed(op, quiet)
    <3> HIDE DEF op, o
    <3>1. op = "stored" \/ op = "stale" \/ op = "error"
      BY <1>3
    <3>2. CASE op = "stored"
      BY <3>2, <1>2 DEF Slice!Landed, Slice!ReaderState
    <3>3. CASE op = "stale"
      BY <3>3, <1>2 DEF Slice!Landed, Slice!ReaderState
    <3>4. CASE op = "error"
      BY <3>4, <1>2 DEF Slice!Landed, Slice!ReaderState
    <3> QED
      BY <3>1, <3>2, <3>3, <3>4
  <2> HIDE DEF quiet, own, op, o
  <2> QED
    BY <1>2, <1>3, <2>1, <2>2, LandedIs
<1>5. ASSUME NEW s \in Askers, Slice!Lands(r, s)
      PROVE  /\ Slice!Landed(o, Told(s)) \in Slice!ReaderState /\ AskerTrue(Slice!Landed(o, Told(s)), saved)
             /\ Slice!Landed(o, Told(s)).step \in {"post", "before", "fence", "failed"}
             /\ asker[s].step = "wait"
  <2>1. PICK x \in flights : x.leader = r /\ x.key = asker[s].key /\ x.fence = asker[s].fence
    BY <1>5 DEF Slice!Lands
  <2>2. asker[s].step = "wait" /\ asker[s].fence = asker[r].fence
    BY <1>5, <2>1 DEF Slice!Lands, SliceKept, FlightsTrue
  <2>3. /\ asker[s] \in Slice!ReaderState /\ AskerTrue(asker[s], saved)
        /\ asker[s].attempt <= 2 /\ asker[s].since <= saved /\ asker[s].outcome = "none"
        /\ asker[s].fence \in asker[s].since .. saved
    BY <1>2, <2>2, SliceTypes DEF AskerTrue, AskerFields, Fenced, Building
  <2> DEFINE a == Told(s)
  <2>4. /\ a \in Slice!ReaderState /\ a.attempt = asker[s].attempt /\ a.since = asker[s].since
        /\ a.outcome = asker[s].outcome /\ a.fence = asker[s].fence
        /\ o = "stored" => a.page = asker[r].page
    BY <1>2, <2>3 DEF Slice!ReaderState, AskerFields
  <2> HIDE DEF a, o, op, Told
  <2>5. /\ Slice!Landed(o, a) \in Slice!ReaderState /\ AskerTrue(Slice!Landed(o, a), saved)
        /\ Slice!Landed(o, a).step \in {"post", "before", "fence", "failed"}
    BY <1>2, <1>3, <2>2, <2>3, <2>4, LandedIs
  <2> QED
    BY <2>2, <2>5 DEF a
<1> HIDE DEF own, o, op, Told, quiet
<1>6. ASSUME NEW s \in Askers
      PROVE  /\ asker'[s] \in Slice!ReaderState /\ AskerTrue(asker'[s], saved)
             /\ asker'[s].step \in Building \cup {"wait"} => s # r /\ asker'[s] = asker[s] /\ ~Slice!Lands(r, s)
             /\ s # r /\ asker[s].step \in Building => asker'[s] = asker[s]
  <2>1. CASE s = r
    BY <2>1, <1>1, <1>4 DEF Building
  <2>2. CASE s # r /\ Slice!Lands(r, s)
    BY <2>2, <1>1, <1>5 DEF Building
  <2>3. CASE s # r /\ ~Slice!Lands(r, s)
    BY <2>3, <1>1, <1>2, SliceTypes
  <2> QED
    BY <2>1, <2>2, <2>3
<1>7. Slice!TypeOK'
  <2>1. asker' \in [Askers -> Slice!ReaderState]
    <3>1. asker' = [s \in Askers |-> asker'[s]]
      BY <1>1
    <3> QED
      BY <1>6, <3>1
  <2>2. flights' \subseteq flights
    BY <1>1
  <2> QED
    BY <1>1, <2>1, <2>2 DEF SliceKept, Slice!TypeOK
<1>8. Slice!BytesExact' /\ Slice!EntriesWhole'
  BY <1>1 DEF SliceKept, Slice!BytesExact, Slice!EntriesWhole
<1>9. AskersTrue'
  <2>1. \A s \in Askers : AskerTrue(asker'[s], saved')
    BY <1>1, <1>6
  <2> QED
    BY <2>1 DEF AskersTrue
<1>10. \A x \in flights : x.leader \in Askers /\ asker[x.leader].step \in Building
                          /\ asker[x.leader].key = x.key /\ asker[x.leader].fence = x.fence
  BY <1>2 DEF SliceKept, FlightsTrue, FlightType
<1>11. \A x \in flights' : x \in flights /\ x.leader # r /\ asker'[x.leader] = asker[x.leader]
  BY <1>1, <1>6, <1>10
<1>12. FlightsTrue'
  <2>1. IsFiniteSet(flights') /\ Cardinality(flights') <= MaxFlights
    <3> DEFINE left == {x \in flights : x.leader # r}
    <3>1. /\ IsFiniteSet(flights) /\ Cardinality(flights) <= MaxFlights /\ MaxFlights \in Nat /\ left \in SUBSET flights
      BY SizeIs DEF SliceKept, FlightsTrue
    <3> HIDE DEF left
    <3>2. IsFiniteSet(left) /\ Cardinality(left) <= Cardinality(flights)
      BY <3>1, FS_Subset
    <3>3. Cardinality(left) \in Nat /\ Cardinality(flights) \in Nat
      BY <3>1, <3>2, FS_CardinalityType
    <3>4. Cardinality(left) <= MaxFlights
      BY <3>1, <3>2, <3>3
    <3>5. flights' = left
      BY <1>1 DEF left
    <3> QED
      BY <3>2, <3>4, <3>5, Zenon
  <2>2. \A x \in flights' : asker'[x.leader].step \in Building /\ asker'[x.leader].key = x.key
                            /\ asker'[x.leader].fence = x.fence
    BY <1>10, <1>11
  <2>3. \A x \in flights' : ~x.invalidated => x.fence = fence
    BY <1>11 DEF SliceKept, FlightsTrue
  <2>4. \A x, y \in flights' : x.key = y.key /\ ~x.invalidated /\ ~y.invalidated => x = y
    BY <1>11 DEF SliceKept, FlightsTrue
  <2>5. ASSUME NEW s \in Askers, asker'[s].step \in Building PROVE \E x \in flights' : x.leader = s
    <3>1. s # r /\ asker[s].step \in Building
      BY <1>6, <2>5
    <3>2. PICK x \in flights : x.leader = s
      BY <3>1 DEF SliceKept, FlightsTrue
    <3> QED
      BY <1>1, <3>1, <3>2
  <2>6. ASSUME NEW s \in Askers, asker'[s].step = "wait"
        PROVE  \E x \in flights' : x.key = asker'[s].key /\ x.fence = asker'[s].fence /\ ~x.invalidated
    <3>1. asker'[s] = asker[s] /\ ~Slice!Lands(r, s)
      BY <1>6, <2>6
    <3>2. PICK x \in flights : x.key = asker[s].key /\ x.fence = asker[s].fence /\ ~x.invalidated
      BY <2>6, <3>1 DEF SliceKept, FlightsTrue, Slice!FlightFor
    <3>3. x.leader # r
      BY <2>6, <3>1, <3>2 DEF Slice!Lands
    <3> QED
      BY <1>1, <3>1, <3>2, <3>3
  <2> QED
    BY <1>1, <2>1, <2>2, <2>3, <2>4, <2>5, <2>6 DEF FlightsTrue, Slice!FlightFor
<1>13. Unpublished'
  BY <1>1, <1>11 DEF SliceKept, Unpublished
<1> QED
  BY <1>7, <1>8, <1>9, <1>12, <1>13 DEF SliceKept

\* Every step keeps the invariant.
LEMMA SliceStep == SliceKept /\ [Slice!Next]_Slice!vars => SliceKept'
<1> SUFFICES ASSUME SliceKept, [Slice!Next]_Slice!vars PROVE SliceKept'
  OBVIOUS
<1>1. CASE Slice!Next
  BY <1>1, SliceCommit, SliceCall, SliceWaitEnds, SliceBuild, SliceReadFence, SliceGet, SliceCheck, SlicePublish,
     SliceLand, SlicePost, SlicePlain, SlicePlainAnswer DEF Slice!Next, Slice!Step
<1>2. CASE UNCHANGED Slice!vars
  BY <1>2 DEF Slice!vars, Slice!cache, SliceKept, Slice!TypeOK, Slice!BytesExact, Slice!EntriesWhole, AskersTrue,
              FlightsTrue, Unpublished, Slice!FlightFor
<1> QED
  BY <1>1, <1>2

\* An answer that does not call itself stale is the page of one revision that was the
\* saved one during the call; what the cache keeps was read whole under its fence and
\* within its limits, and nobody waits for a build that is not under way
\* (market_slice_cache.py, SliceCache and wrap_market_item_slice).
THEOREM SlicesHold == Slice!Spec => []SliceInv
<1>1. SliceKept => SliceInv
  <2> SUFFICES ASSUME SliceKept PROVE SliceInv
    OBVIOUS
  <2>1. Slice!AnswersCurrent
    BY DEF SliceKept, AskersTrue, AskerTrue, Slice!AnswersCurrent
  <2>2. Slice!FlightsLed
    BY SliceCount DEF SliceKept, FlightsTrue, Slice!FlightsLed, Building
  <2> QED
    BY <2>1, <2>2 DEF SliceKept, SliceInv, Slice!SliceInv
<1> QED
  BY <1>1, SliceInit, SliceStep, PTL DEF Slice!Spec

-----------------------------------------------------------------------------
(***************************************************************************)
(* Current prices (QuoteReads), for any readers, clock and spans: no cache *)
(* offers a reading of another revision as current, analyses are of one    *)
(* revision, valuations count no expired price, and closes are the         *)
(* ledger's own.                                                           *)
(***************************************************************************)
USE ReadsAssumption DEF ReadsAssumption

(* A reading of the past may say anything; one of the revision the ledger  *)
(* is at says what the ledger holds.  Nothing stored under a revision is   *)
(* of an older one.                                                        *)
ReadOf(price) == price.revision <= revision /\ (price.revision = revision => IsCurrent(price))

BookSound ==
    \A r \in DOMAIN bookCache :
        LET e == bookCache[r] IN
        /\ e.price.revision = r /\ ReadOf(e.price)
        /\ e.price.priced => e.until <= e.price.expires

ValuesSound ==
    \A r \in DOMAIN valueCache :
        LET e == valueCache[r] IN
        /\ r <= e.price.revision /\ ReadOf(e.price)
        /\ e.price.priced => e.until <= e.price.expires

\* What a thread has in hand at each step of its read.
Half(s) ==
    s.step = "windows" =>
        /\ s.key <= s.price.revision /\ s.price.revision <= revision
        /\ s.price.revision = revision => s.price.asks = asks /\ s.price.sales = sales
        /\ s.at <= s.clock /\ s.clock <= now
        /\ s.price.priced => s.clock < s.price.expires
Priced(s) ==
    /\ s.step \in {"priced", "valued", "build", "check"} => ReadOf(s.price)
    /\ s.step = "priced" => s.key <= s.price.revision
    /\ s.step \in {"priced", "valued"} => (s.price.priced => s.at < s.price.expires)
Built(s) ==
    s.step = "check" /\ s.price.revision = revision =>
        /\ s.analysis.whole /\ s.analysis.price = s.price
        /\ s.analysis.offers = s.price.asks /\ s.analysis.references = s.price.sales
Sound(s) == s.at <= now /\ s.key <= revision /\ Half(s) /\ Priced(s) /\ Built(s)

Counted == asks <= revision /\ clears <= revision
CacheInv ==
    /\ TypeOK /\ Counted /\ BookSound /\ ValuesSound /\ AnalysesWhole
    /\ \A i \in Threads : Sound(thread[i])

-----------------------------------------------------------------------------
\* An answer for a fresh price is not kept past the price.
LEMMA KeptNat ==
    ASSUME NEW price \in Price, NEW clock \in Nat, NEW span \in Nat
    PROVE  /\ KeptUntil(price, clock, span) \in Nat
           /\ clock < price.expires => KeptUntil(price, clock, span) <= price.expires
BY DEF KeptUntil, Sooner, Price

LEMMA IdleTyped == Idle \in ThreadState /\ Idle.step = "idle" /\ Idle.key = 0
<1>1. 0 \in Times /\ 0 \in Revisions /\ 0 \in Nat
  BY DEF Times, Revisions
<1>2. NoPrice \in Price
  BY <1>1 DEF NoPrice, Price
<1>3. NoAnalysis \in AnalysisOf
  BY <1>1, <1>2 DEF NoAnalysis, AnalysisOf
<1>. QED
  BY <1>1, <1>2, <1>3 DEF Idle, ThreadState, Steps

\* A thread's step, when nothing else moves.
LEMMA OneThread ==
    ASSUME CacheInv, NEW i \in Threads, NEW s \in ThreadState, Sound(s),
           thread' = [thread EXCEPT ![i] = s], UNCHANGED <<now, ledger>>
    PROVE  /\ thread' \in [Threads -> ThreadState]
           /\ \A j \in Threads : Sound(thread[j])'
<1>1. \A j \in Threads : thread'[j] = IF j = i THEN s ELSE thread[j]
  BY DEF CacheInv, TypeOK
<1>2. \A j \in Threads : Sound(thread'[j])
  BY <1>1 DEF CacheInv
<1>3. \A j \in Threads : Sound(thread[j])'
  BY <1>2 DEF Sound, Half, Priced, Built, ReadOf, IsCurrent, ledger
<1>. QED
  BY <1>3 DEF CacheInv, TypeOK

\* A value asked for at the clock's reading comes from the cache, or is asked on.
LEMMA AskSound ==
    ASSUME CacheInv, NEW n \in 0..2
    PROVE  AskValue(n) \in ThreadState /\ Sound(AskValue(n))
<1>. USE DEF CacheInv
<1>. DEFINE asking == [Idle EXCEPT !.attempt = n, !.at = now]
<1>1. CASE ValueHit
  <2>. DEFINE s == [asking EXCEPT !.step = "valued", !.price = valueCache[revision].price]
  <2>1. AskValue(n) = s
    BY <1>1 DEF AskValue
  <2>2. valueCache[revision] \in Cached /\ now < valueCache[revision].until
    BY <1>1 DEF ValueHit, TypeOK
  <2>3. valueCache[revision].price \in Price /\ ReadOf(valueCache[revision].price)
        /\ (valueCache[revision].price.priced => now < valueCache[revision].price.expires)
    BY <1>1, <2>2 DEF ValueHit, ValuesSound, Cached, TypeOK, Times, Price
  <2>4. s \in ThreadState
    BY <2>3, IdleTyped DEF TypeOK, ThreadState, Steps
  <2>5. Sound(s)
    BY <2>3 DEF TypeOK, Sound, Half, Priced, Built, Idle, Revisions, Times
  <2>. QED
    BY <2>1, <2>4, <2>5
<1>2. CASE ~ValueHit
  <2>. DEFINE s == [asking EXCEPT !.step = "prices", !.key = revision]
  <2>1. AskValue(n) = s
    BY <1>2 DEF AskValue
  <2>2. s \in ThreadState
    BY IdleTyped DEF TypeOK, ThreadState, Steps
  <2>3. Sound(s)
    BY DEF TypeOK, Sound, Half, Priced, Built, Idle, Revisions, Times
  <2>. QED
    BY <2>1, <2>2, <2>3
<1>. QED
  BY <1>1, <1>2

-----------------------------------------------------------------------------
\* Nothing is of the revision a publication starts, so nothing is stale.
LEMMA PublishInv ==
    ASSUME CacheInv, PublishAsks \/ PublishSales
    PROVE  CacheInv'
<1>. USE DEF CacheInv
<1>1. /\ revision' = revision + 1 /\ revision \in Nat /\ revision' \in Revisions
      /\ clears' = clears + 1 /\ UNCHANGED <<now, caches, reads, close>>
  BY DEF PublishAsks, PublishSales, RevisedBySales, TypeOK, Revisions
<1>2. ASSUME NEW price \in Price, ReadOf(price)
      PROVE  ReadOf(price)'
  BY <1>1, <1>2 DEF ReadOf, Price, Revisions
<1>3. TypeOK' /\ Counted'
  <2>1. CASE PublishAsks
    BY <1>1, <2>1 DEF PublishAsks, TypeOK, Counted, Revisions, Times, caches, reads
  <2>2. CASE PublishSales
    BY <1>1, <2>2 DEF PublishSales, RevisedBySales, TypeOK, Counted, Revisions, caches, reads
  <2>. QED
    BY <2>1, <2>2
<1>4. BookSound' /\ ValuesSound' /\ AnalysesWhole'
  BY <1>1, <1>2 DEF BookSound, ValuesSound, AnalysesWhole, TypeOK, Cached, caches
<1>5. ASSUME NEW i \in Threads
      PROVE  Sound(thread[i])'
  <2>. DEFINE t == thread[i]
  <2>1. t \in ThreadState /\ t.price \in Price /\ t.key \in Nat /\ t.price.revision \in Nat /\ t' = t
    BY <1>1 DEF TypeOK, ThreadState, Price, Revisions, reads
  <2>2. Sound(t)
    OBVIOUS
  <2>3. ReadOf(t.price) => ReadOf(t.price)'
    BY <1>2, <2>1
  <2>4. Half(t)'
    BY <1>1, <2>1, <2>2 DEF Sound, Half
  <2>5. Priced(t)'
    BY <1>1, <2>1, <2>2, <2>3 DEF Sound, Priced, reads
  <2>6. Built(t)'
    BY <1>1, <2>1, <2>2 DEF Sound, Priced, ReadOf, Built
  <2>. QED
    BY <1>1, <2>1, <2>2, <2>4, <2>5, <2>6 DEF Sound
<1>. QED
  BY <1>3, <1>4, <1>5

LEMMA ClearInv ==
    ASSUME CacheInv, ClearCache
    PROVE  CacheInv'
<1>. USE DEF CacheInv
<1>1. TypeOK' /\ Counted' /\ BookSound'
  BY DEF ClearCache, TypeOK, Counted, BookSound, Revisions, ledger, reads
<1>2. ValuesSound' /\ AnalysesWhole' /\ \A i \in Threads : Sound(thread[i])'
  BY DEF ClearCache, ValuesSound, AnalysesWhole, Sound, Half, Priced, Built, ReadOf, IsCurrent,
         ledger, reads
<1>. QED
  BY <1>1, <1>2

LEMMA TickInv ==
    ASSUME CacheInv, Tick
    PROVE  CacheInv'
<1>. USE DEF CacheInv
<1>1. now \in Nat /\ now' = now + 1 /\ UNCHANGED <<ledger, clears, caches, reads, close>>
  BY DEF Tick, TypeOK, Times
<1>2. TypeOK' /\ Counted'
  BY DEF Tick, TypeOK, Counted, Times, Revisions, ledger, caches, reads
<1>3. BookSound' /\ ValuesSound' /\ AnalysesWhole'
  BY <1>1 DEF BookSound, ValuesSound, AnalysesWhole, ReadOf, IsCurrent, ledger, caches
<1>4. ASSUME NEW i \in Threads
      PROVE  Sound(thread[i])'
  <2>1. thread[i].at \in Nat /\ thread[i].clock \in Nat
    BY DEF TypeOK, ThreadState, Times
  <2>. QED
    BY <1>1, <2>1 DEF Sound, Half, Priced, Built, ReadOf, IsCurrent, ledger, reads
<1>. QED
  BY <1>2, <1>3, <1>4

-----------------------------------------------------------------------------
(* The steps of a read.                                                    *)

\* What a step that moves one thread and no cache has to show.
LEMMA ThreadOnly ==
    ASSUME CacheInv, NEW i \in Threads, NEW s \in ThreadState, Sound(s),
           thread' = [thread EXCEPT ![i] = s], begun' \in 0..MaxReads,
           UNCHANGED <<now, ledger, clears, caches>>,
           close' \in [at : Times, asks : Revisions, expires : Nat]
    PROVE  CacheInv'
<1>. USE DEF CacheInv
<1>1. thread' \in [Threads -> ThreadState] /\ \A j \in Threads : Sound(thread[j])'
  BY OneThread
<1>2. TypeOK' /\ Counted'
  BY <1>1 DEF TypeOK, Counted, ledger, caches
<1>3. BookSound' /\ ValuesSound' /\ AnalysesWhole'
  BY DEF BookSound, ValuesSound, AnalysesWhole, ReadOf, IsCurrent, ledger, caches
<1>. QED
  BY <1>1, <1>2, <1>3

LEMMA BeginInv ==
    ASSUME CacheInv, BeginRecord \/ \E i \in Threads : BeginAnalysis(i)
    PROVE  CacheInv'
<1>. USE DEF CacheInv
<1>0. begun < MaxReads /\ begun' = begun + 1 => begun' \in 0..MaxReads
  BY DEF TypeOK
<1>1. CASE BeginRecord
  <2>. DEFINE s == [Idle EXCEPT !.step = "prices", !.at = now]
  <2>1. s \in ThreadState
    BY IdleTyped DEF TypeOK, ThreadState, Steps
  <2>2. s.step = "prices" /\ s.at = now /\ s.key = 0
    BY IdleTyped DEF ThreadState
  <2>3. Sound(s)
    BY <2>2 DEF TypeOK, Sound, Half, Priced, Built, Times, Revisions
  <2>4. worker \in Threads
    BY DEF Threads
  <2>. QED
    BY <1>0, <1>1, <2>1, <2>3, <2>4, ThreadOnly DEF BeginRecord, Starts, TypeOK
<1>2. ASSUME NEW i \in Threads, BeginAnalysis(i)
      PROVE  CacheInv'
  <2>1. AskValue(1) \in ThreadState /\ Sound(AskValue(1))
    BY AskSound
  <2>. QED
    BY <1>0, <1>2, <2>1, ThreadOnly DEF BeginAnalysis, Starts, TypeOK
<1>. QED
  BY <1>1, <1>2

\* Book.prices: a cached price of this revision, or the quotes read now.
LEMMA QuotesInv ==
    ASSUME CacheInv, NEW i \in Threads, ReadQuotes(i)
    PROVE  CacheInv'
<1>. USE DEF CacheInv
<1>. DEFINE t == thread[i]
            e == bookCache[revision]
            found == [t EXCEPT !.step = "priced", !.price = e.price]
            price == [revision |-> revision, asks |-> asks, expires |-> expires,
                      sales |-> sales, windows |-> 0, priced |-> now < expires]
            read == [t EXCEPT !.step = "windows", !.clock = now, !.price = price]
<1>1. t \in ThreadState /\ Sound(t) /\ t.at \in Nat /\ t.key \in Nat /\ now \in Nat /\ revision \in Nat
  BY DEF TypeOK, ThreadState, Times, Revisions
<1>2. CASE BookHit
  <2>1. e \in Cached /\ e.price \in Price /\ ReadOf(e.price) /\ e.price.revision = revision
        /\ now < e.until /\ e.until \in Nat /\ e.price.expires \in Nat
        /\ (e.price.priced => e.until <= e.price.expires)
    BY <1>2 DEF BookHit, BookSound, TypeOK, Cached, Price
  <2>2. found \in ThreadState
    BY <1>1, <2>1 DEF ThreadState, Steps
  <2>3. Sound(found)
    BY <1>1, <2>1 DEF ThreadState, Sound, Half, Priced, Built
  <2>4. thread' = [thread EXCEPT ![i] = found] /\ UNCHANGED <<begun, now, ledger, clears, caches, close>>
    BY <1>2 DEF ReadQuotes, Goes
  <2>. QED
    BY <2>2, <2>3, <2>4, ThreadOnly DEF TypeOK
<1>3. CASE ~BookHit
  <2>1. price \in Price
    BY DEF TypeOK, Price, Revisions
  <2>2. read \in ThreadState
    BY <1>1, <2>1 DEF TypeOK, ThreadState, Steps
  <2>3. /\ read.step = "windows" /\ read.at = t.at /\ read.key = t.key /\ read.clock = now
        /\ read.price = price
    BY <1>1 DEF ThreadState
  <2>4. Half(read)
    <3>1. price.revision = revision /\ price.asks = asks /\ price.sales = sales /\ price.expires = expires
      OBVIOUS
    <3>2. price.priced => now < expires
      OBVIOUS
    <3>. HIDE DEF price
    <3>. QED
      BY <1>1, <2>3, <3>1, <3>2 DEF Sound, Half
  <2>5. Sound(read)
    BY <1>1, <2>3, <2>4 DEF Sound, Priced, Built
  <2>6. thread' = [thread EXCEPT ![i] = read] /\ UNCHANGED <<begun, now, ledger, clears, caches, close>>
    BY <1>3 DEF ReadQuotes, Goes
  <2>. QED
    BY <2>2, <2>5, <2>6, ThreadOnly DEF TypeOK
<1>. QED
  BY <1>2, <1>3

\* Book.prices: what was read of two revisions is stored under the first, and
\* is whole if that is still the ledger's.
LEMMA WindowsInv ==
    ASSUME CacheInv, NEW i \in Threads, ReadWindows(i)
    PROVE  CacheInv'
<1>. USE DEF CacheInv
<1>. DEFINE t == thread[i]
            price == [t.price EXCEPT !.windows = sales]
            entry == [until |-> KeptUntil(price, t.clock, PriceRest), price |-> price]
            moved == [t EXCEPT !.step = "priced", !.price = price, !.clock = 0]
<1>0. t \in ThreadState /\ Sound(t) /\ t.step = "windows"
  BY DEF TypeOK, ReadWindows, At
<1>1. /\ t.at \in Nat /\ t.key \in Nat /\ t.clock \in Nat /\ t.price \in Price
      /\ sales \in Revisions /\ 0 \in Times
  BY <1>0 DEF TypeOK, ThreadState, Times, Revisions
<1>a. /\ bookCache' = With(bookCache, price.revision, entry)
      /\ thread' = [thread EXCEPT ![i] = moved]
      /\ UNCHANGED <<begun, now, ledger, clears, valueCache, analysisCache, close>>
  BY DEF ReadWindows, Goes
<1>b. /\ DOMAIN bookCache' = DOMAIN bookCache \cup {price.revision}
      /\ bookCache'[price.revision] = entry
      /\ \A r \in DOMAIN bookCache \ {price.revision} : bookCache'[r] = bookCache[r]
  BY <1>a DEF With
<1>2. /\ price \in Price /\ price.revision = t.price.revision /\ price.asks = t.price.asks
      /\ price.sales = t.price.sales /\ price.windows = sales /\ price.expires = t.price.expires
      /\ price.priced = t.price.priced
  BY <1>1 DEF Price
<1>3. price.revision \in Revisions /\ price.revision \in Nat /\ price.expires \in Nat
      /\ revision \in Nat
  BY <1>2 DEF Price, Revisions, TypeOK
<1>. HIDE DEF price
<1>4. ReadOf(price)
  BY <1>0, <1>2 DEF Sound, Half, ReadOf, IsCurrent
<1>c. price.priced => t.clock < price.expires /\ t.at <= t.clock
  BY <1>0, <1>2 DEF Sound, Half
<1>d. /\ KeptUntil(price, t.clock, PriceRest) \in Nat
      /\ t.clock < price.expires => KeptUntil(price, t.clock, PriceRest) <= price.expires
  BY <1>1, <1>2, KeptNat
<1>5. entry \in Cached /\ entry.price = price
      /\ (price.priced => entry.until <= price.expires /\ t.at < price.expires)
  BY <1>1, <1>2, <1>3, <1>c, <1>d DEF Cached
<1>. HIDE DEF entry
<1>6. moved \in ThreadState
  BY <1>0, <1>1, <1>2 DEF ThreadState, Steps
<1>7. Sound(moved)
  BY <1>0, <1>1, <1>2, <1>4, <1>5 DEF ThreadState, Sound, Half, Priced, Built
<1>. HIDE DEF moved
<1>8. thread' \in [Threads -> ThreadState] /\ \A j \in Threads : Sound(thread[j])'
  BY <1>a, <1>6, <1>7, OneThread
<1>9. BookSound'
  <2>1. ASSUME NEW r \in DOMAIN bookCache'
        PROVE  LET e == bookCache'[r] IN
               e \in Cached /\ e.price.revision = r /\ ReadOf(e.price)
               /\ (e.price.priced => e.until <= e.price.expires)
    BY <1>b, <1>2, <1>4, <1>5 DEF BookSound, TypeOK
  <2>. QED
    BY <1>a, <2>1 DEF BookSound, ReadOf, IsCurrent, ledger
<1>10. TypeOK' /\ Counted'
  <2>1. DOMAIN bookCache' \subseteq Revisions /\ \A r \in DOMAIN bookCache' : bookCache'[r] \in Cached
    BY <1>b, <1>3, <1>5 DEF TypeOK
  <2>. QED
    BY <1>a, <1>8, <2>1 DEF TypeOK, Counted, ledger
<1>11. ValuesSound' /\ AnalysesWhole'
  BY <1>a DEF ValuesSound, AnalysesWhole, ReadOf, IsCurrent, ledger
<1>. QED
  BY <1>8, <1>9, <1>10, <1>11

\* Pipeline.value: what it stores is of the revision it asked for, or newer.
LEMMA StoreInv ==
    ASSUME CacheInv, NEW i \in Threads, StoreValue(i)
    PROVE  CacheInv'
<1>. USE DEF CacheInv
<1>. DEFINE t == thread[i]
            entry == [until |-> KeptUntil(t.price, t.at, ValueRest), price |-> t.price]
            moved == [t EXCEPT !.step = "valued", !.key = 0]
<1>1. /\ t \in ThreadState /\ Sound(t) /\ t.step = "priced" /\ t.at \in Nat /\ t.key \in Nat
      /\ t.price \in Price /\ t.key \in Revisions /\ revision \in Nat /\ 0 \in Revisions
      /\ valueCache' = With(valueCache, t.key, entry)
      /\ thread' = [thread EXCEPT ![i] = moved]
      /\ UNCHANGED <<begun, now, ledger, clears, bookCache, analysisCache, close>>
  BY DEF TypeOK, StoreValue, At, Goes, ThreadState, Times, Revisions
<1>a. /\ DOMAIN valueCache' = DOMAIN valueCache \cup {t.key}
      /\ valueCache'[t.key] = entry
      /\ \A r \in DOMAIN valueCache \ {t.key} : valueCache'[r] = valueCache[r]
  BY <1>1 DEF With
<1>2. entry \in Cached /\ entry.price = t.price
      /\ (t.price.priced => entry.until <= t.price.expires)
  BY <1>1, KeptNat DEF Cached, Sound, Priced
<1>. HIDE DEF entry
<1>3. moved \in ThreadState
  BY <1>1 DEF ThreadState, Steps
<1>4. Sound(moved)
  BY <1>1 DEF ThreadState, Sound, Half, Priced, Built
<1>. HIDE DEF moved
<1>5. thread' \in [Threads -> ThreadState] /\ \A j \in Threads : Sound(thread[j])'
  BY <1>1, <1>3, <1>4, OneThread
<1>6. ValuesSound'
  <2>1. ASSUME NEW r \in DOMAIN valueCache'
        PROVE  LET e == valueCache'[r] IN
               r <= e.price.revision /\ ReadOf(e.price)
               /\ (e.price.priced => e.until <= e.price.expires)
    BY <1>1, <1>a, <1>2 DEF ValuesSound, Sound, Priced
  <2>. QED
    BY <1>1, <2>1 DEF ValuesSound, ReadOf, IsCurrent, ledger
<1>7. TypeOK' /\ Counted'
  <2>1. DOMAIN valueCache' \subseteq Revisions /\ \A r \in DOMAIN valueCache' : valueCache'[r] \in Cached
    BY <1>1, <1>a, <1>2 DEF TypeOK
  <2>. QED
    BY <1>1, <1>5, <2>1 DEF TypeOK, Counted, ledger
<1>8. BookSound' /\ AnalysesWhole'
  BY <1>1 DEF BookSound, AnalysesWhole, ReadOf, IsCurrent, ledger
<1>. QED
  BY <1>5, <1>6, <1>7, <1>8

\* Analysis.read looks up, Analysis.build reads the rest in one transaction.
LEMMA BuildInv ==
    ASSUME CacheInv, NEW i \in Threads, LookUpAnalysis(i) \/ Build(i)
    PROVE  CacheInv'
<1>. USE DEF CacheInv
<1>. DEFINE t == thread[i]
<1>1. t \in ThreadState /\ Sound(t) /\ t.at \in Nat /\ now \in Times /\ revision \in Nat
      /\ asks \in Revisions /\ sales \in Revisions
      /\ t.price \in Price /\ t.key \in Nat /\ t.price.revision \in Nat
  BY DEF TypeOK, ThreadState, Times, Revisions, Price
<1>2. Idle \in ThreadState /\ Sound(Idle)
  BY IdleTyped DEF TypeOK, Sound, Half, Priced, Built, Idle, Times, Revisions
<1>3. CASE LookUpAnalysis(i)
  <2>. DEFINE s == [t EXCEPT !.step = "build", !.clock = now]
  <2>1. s \in ThreadState
    BY <1>1 DEF ThreadState, Steps
  <2>2. Sound(s)
    BY <1>1, <1>3 DEF LookUpAnalysis, At, ThreadState, Sound, Half, Priced, Built
  <2>. QED
    BY <1>2, <1>3, <2>1, <2>2, ThreadOnly DEF LookUpAnalysis, Goes, TypeOK
<1>4. CASE Build(i)
  <2>. DEFINE a == IF revision = t.price.revision
                   THEN [price |-> t.price, offers |-> asks, references |-> sales, whole |-> TRUE]
                   ELSE NoAnalysis
              s == [t EXCEPT !.step = "check", !.analysis = a]
  <2>1. a \in AnalysisOf
    BY <1>1, IdleTyped DEF AnalysisOf, ThreadState, Idle
  <2>2. revision = t.price.revision =>
           a.whole /\ a.price = t.price /\ a.offers = asks /\ a.references = sales
    OBVIOUS
  <2>. HIDE DEF a
  <2>3. s \in ThreadState
    BY <1>1, <2>1 DEF ThreadState, Steps
  <2>4. /\ s.step = "check" /\ s.price = t.price /\ s.analysis = a /\ s.at = t.at /\ s.key = t.key
    BY <1>1 DEF ThreadState
  <2>5. Sound(s)
    BY <1>1, <1>4, <2>2, <2>4 DEF Build, At, Sound, Half, Priced, Built, ReadOf, IsCurrent
  <2>6. thread' = [thread EXCEPT ![i] = s] /\ UNCHANGED <<begun, now, ledger, clears, caches, close>>
    BY <1>4 DEF Build, Goes, a
  <2>. QED
    BY <2>3, <2>5, <2>6, ThreadOnly DEF TypeOK
<1>. QED
  BY <1>3, <1>4

\* Analysis.read keeps an analysis only if the ledger is where its price was read.
LEMMA CheckInv ==
    ASSUME CacheInv, NEW i \in Threads, CheckAnalysis(i)
    PROVE  CacheInv'
<1>. USE DEF CacheInv
<1>. DEFINE t == thread[i]
            k == Slot(i, t.clock)
<1>1. t \in ThreadState /\ Sound(t) /\ t.step = "check" /\ t.analysis \in AnalysisOf
  BY DEF TypeOK, CheckAnalysis, At, ThreadState
<1>2. Idle \in ThreadState /\ Sound(Idle)
  BY IdleTyped DEF TypeOK, Sound, Half, Priced, Built, Idle, Times, Revisions
<1>3. AskValue(2) \in ThreadState /\ Sound(AskValue(2))
  BY AskSound
<1>4. CASE ~Unmoved(i)
  <2>1. PICK s \in {Idle, AskValue(2)} : thread' = [thread EXCEPT ![i] = s]
    BY <1>4 DEF CheckAnalysis, Goes
  <2>2. UNCHANGED <<begun, now, ledger, clears, caches, close>>
    BY <1>4 DEF CheckAnalysis, Goes, caches
  <2>. QED
    BY <1>2, <1>3, <2>1, <2>2, ThreadOnly DEF TypeOK
<1>5. CASE Unmoved(i)
  <2>1. /\ analysisCache' = With(analysisCache, k, t.analysis)
        /\ thread' = [thread EXCEPT ![i] = Idle]
        /\ UNCHANGED <<begun, now, ledger, clears, bookCache, valueCache, close>>
    BY <1>5 DEF CheckAnalysis, Goes
  <2>a. /\ DOMAIN analysisCache' = DOMAIN analysisCache \cup {k}
        /\ analysisCache'[k] = t.analysis
        /\ \A x \in DOMAIN analysisCache \ {k} : analysisCache'[x] = analysisCache[x]
    BY <2>1 DEF With
  <2>2. thread' \in [Threads -> ThreadState] /\ \A j \in Threads : Sound(thread[j])'
    BY <1>2, <2>1, OneThread
  <2>3. /\ t.analysis.whole /\ t.analysis.price.revision = k[1]
        /\ t.analysis.offers = t.analysis.price.asks /\ t.analysis.references = t.analysis.price.sales
    BY <1>1, <1>5 DEF Unmoved, Sound, Built, Slot
  <2>4. AnalysesWhole'
    BY <2>a, <2>3 DEF AnalysesWhole
  <2>5. TypeOK' /\ Counted'
    <3>1. \A x \in DOMAIN analysisCache' : analysisCache'[x] \in AnalysisOf
      BY <1>1, <2>a DEF TypeOK
    <3>. QED
      BY <2>1, <2>2, <3>1 DEF TypeOK, Counted, ledger
  <2>6. BookSound' /\ ValuesSound'
    BY <2>1 DEF BookSound, ValuesSound, ReadOf, IsCurrent, ledger
  <2>. QED
    BY <2>2, <2>4, <2>5, <2>6
<1>. QED
  BY <1>4, <1>5

\* Features.record
LEMMA RecordInv ==
    ASSUME CacheInv, Record
    PROVE  CacheInv'
<1>. USE DEF CacheInv
<1>1. Idle \in ThreadState /\ Sound(Idle) /\ worker \in Threads
  BY IdleTyped DEF TypeOK, Sound, Half, Priced, Built, Idle, Times, Revisions, Threads
<1>2. close' \in [at : Times, asks : Revisions, expires : Nat]
  BY <1>1 DEF Record, TypeOK, ThreadState, Price
<1>. QED
  BY <1>1, <1>2, ThreadOnly DEF Record, Goes, TypeOK

-----------------------------------------------------------------------------
LEMMA InitInv == Init => CacheInv
<1>. SUFFICES ASSUME Init PROVE CacheInv
  OBVIOUS
<1>1. 0 \in Times /\ 0 \in Revisions /\ 0 \in Nat
  BY DEF Times, Revisions
<1>2. TypeOK
  BY <1>1, IdleTyped DEF Init, TypeOK
<1>3. \A i \in Threads : Sound(thread[i])
  BY DEF Init, Sound, Half, Priced, Built, Idle
<1>. QED
  BY <1>2, <1>3 DEF Init, CacheInv, Counted, BookSound, ValuesSound, AnalysesWhole

LEMMA NextInv == CacheInv /\ [Next]_vars => CacheInv'
<1>. SUFFICES ASSUME CacheInv, [Next]_vars PROVE CacheInv'
  OBVIOUS
<1>1. CASE UNCHANGED vars
  BY <1>1 DEF CacheInv, TypeOK, Counted, BookSound, ValuesSound, AnalysesWhole, Sound, Half, Priced,
              Built, ReadOf, IsCurrent, vars, ledger, caches, reads
<1>2. CASE Next
  BY <1>2, PublishInv, ClearInv, BeginInv, QuotesInv, WindowsInv, StoreInv, BuildInv, CheckInv,
     RecordInv, TickInv DEF Next
<1>. QED
  BY <1>1, <1>2

LEMMA CacheInvariant == Spec => []CacheInv
BY InitInv, NextInv, PTL DEF Spec

\* quote_book.prices, Pipeline.value, Analysis.read: whatever is published
\* between the transactions of a read, what a cache offers for the ledger's
\* revision is what the ledger holds, and a kept analysis is of one revision.
THEOREM ReadsInvariant == Spec => []ReadsInv
<1>1. CacheInv => ReadsInv
  <2>. SUFFICES ASSUME CacheInv PROVE CachesCurrent
    BY DEF CacheInv, ReadsInv
  <2>1. ASSUME revision \in DOMAIN bookCache
        PROVE  IsCurrent(bookCache[revision].price)
    BY <2>1 DEF CacheInv, BookSound, ReadOf
  <2>2. ASSUME revision \in DOMAIN valueCache
        PROVE  IsCurrent(valueCache[revision].price)
    <3>1. valueCache[revision].price.revision \in Nat /\ revision \in Nat
      BY <2>2 DEF CacheInv, TypeOK, Cached, Price, Revisions
    <3>. QED
      BY <2>2, <3>1 DEF CacheInv, ValuesSound, ReadOf
  <2>. QED
    BY <2>1, <2>2 DEF CachesCurrent
<1>. QED
  BY <1>1, CacheInvariant, PTL

\* Pipeline.value: no valuation counts a price that had expired when it was
\* asked for, through however many caches the price came.
THEOREM FreshValues == Spec => []ValuesFresh
<1>1. CacheInv => ValuesFresh
  BY DEF CacheInv, ValuesFresh, At, Sound, Priced
<1>. QED
  BY <1>1, CacheInvariant, PTL

\* Features.record: a close is the ledger's ask when it is written, fresh at
\* the time it is dated, and closes are not dated back.
THEOREM TrueCloses == Spec => ClosesTrue
<1>. DEFINE Closed == close' # close =>
              close'.asks = asks /\ close'.at < close'.expires /\ close'.at >= close.at
<1>1. CacheInv /\ [Next]_vars => [Closed]_vars
  <2>. SUFFICES ASSUME CacheInv, Next, close' # close PROVE Closed
    OBVIOUS
  <2>1. Record
    BY DEF Next, PublishAsks, PublishSales, ClearCache, BeginAnalysis, BeginRecord, ReadQuotes,
           ReadWindows, StoreValue, LookUpAnalysis, Build, CheckAnalysis, Tick
  <2>. DEFINE t == thread[worker]
  <2>2. /\ t.step = "priced" /\ MayRecord(worker)
        /\ close' = [at |-> t.at, asks |-> t.price.asks, expires |-> t.price.expires]
    BY <2>1 DEF Record, At
  <2>3. Sound(t)
    BY DEF CacheInv, Threads
  <2>. QED
    BY <2>2, <2>3 DEF MayRecord, Sound, Priced, ReadOf, IsCurrent
<1>. QED
  BY <1>1, CacheInvariant, PTL DEF Spec, ClosesTrue
=============================================================================
