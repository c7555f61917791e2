---------------------------- MODULE LedgersProofs ----------------------------
(***************************************************************************)
(* Proofs about the three ledgers of prices, for any sources, items, names *)
(* and bounds: the tables of current quotes stay consistent and implement  *)
(* SourceObservations, the store of cash facts implements CashPromise, and *)
(* metrics that claim to be current are those of the inputs saved.         *)
(***************************************************************************)
EXTENDS MCLedgers, Sequences, TLAPS

\* A body lists some of the items and says a fact of each.
LEMMA BodyShape ==
    ASSUME NEW body \in Bodies
    PROVE  /\ DOMAIN body \subseteq Subjects
           /\ \A s \in DOMAIN body : body[s] \in Facts
BY DEF Bodies

\* Before anything is published the tables are empty and consistent.
LEMMA InitLedgerInv == Init => LedgerInv
BY DEF Init, LedgerInv, TypeOK, ReceiptsOnFile, HeadsNewest, Ids, NoCapture

\* A row that is not replaced keeps its fact; it is pinned exactly when it
\* was a member of the feed.
LEMMA UpsertedRows ==
    ASSUME TypeOK, HeadsNewest,
           NEW p \in Sources, NEW body \in Bodies, NEW cap \in Ids
    PROVE  LET rows == Upserted(p, cap, body)
           IN  /\ DOMAIN rows = DOMAIN quote[p] \cup DOMAIN body
               /\ rows \in [DOMAIN rows -> Row]
               /\ \A s \in DOMAIN body : rows[s] = Listed(p, cap, body[s])
               /\ \A s \in DOMAIN quote[p] \ DOMAIN body :
                     /\ rows[s].fact = quote[p][s].fact
                     /\ rows[s].membership # Member
                     /\ rows[s].capture = ReceiptId(p, quote[p][s])
                     /\ p \in Feeds => ~IsListed(p, rows[s])
                     /\ p \notin Feeds => rows[s] = quote[p][s]
<1> DEFINE rows == Upserted(p, cap, body)
<1>1. DOMAIN rows = DOMAIN quote[p] \cup DOMAIN body
  BY DEF Upserted
<1>2. ASSUME NEW s \in DOMAIN body
      PROVE  rows[s] = Listed(p, cap, body[s]) /\ rows[s] \in Row
  BY <1>2, BodyShape DEF Upserted, Listed, Row, Membership, Member, Single, Unlisted
<1>3. ASSUME NEW s \in DOMAIN quote[p], s \notin DOMAIN body
      PROVE  /\ rows[s] \in Row
             /\ rows[s].fact = quote[p][s].fact
             /\ rows[s].membership # Member
             /\ rows[s].capture = ReceiptId(p, quote[p][s])
             /\ p \in Feeds => ~IsListed(p, rows[s])
             /\ p \notin Feeds => rows[s] = quote[p][s]
  <2> DEFINE row == quote[p][s]
  <2>1. row \in Row /\ head[p] \in Ids \cup {NoCapture}
    BY <1>3 DEF TypeOK
  <2>2. rows[s] = Unseen(p, row, cap)
    BY <1>3 DEF Upserted
  <2>3. row.membership \in {Membership(p), Unlisted}
    BY <1>3 DEF HeadsNewest
  <2>4. p \in Feeds => p \notin OtherSources
    BY LedgerAssumption
  <2> HIDE DEF rows, row
  <2>5. CASE row.membership = Member
    <3>1. rows[s] = [fact |-> row.fact, membership |-> Unlisted, capture |-> head[p]]
      BY <2>1, <2>2, <2>3, <2>5 DEF Unseen, Pin, Row, Membership, Member, Single, Unlisted
    <3> QED
      BY <3>1, <2>1, <2>3, <2>4, <2>5
      DEF Row, Membership, ReceiptId, IsListed, Member, Single, Unlisted, row
  <2>6. CASE row.membership # Member
    <3>1. rows[s] = row
      BY <2>2, <2>6 DEF Unseen
    <3> QED
      BY <3>1, <2>1, <2>3, <2>4, <2>6
      DEF Row, Membership, ReceiptId, IsListed, Member, Single, Unlisted, row
  <2> QED BY <2>5, <2>6
<1>4. rows \in [DOMAIN rows -> Row]
  <2>1. \A s \in DOMAIN rows : rows[s] \in Row
    BY <1>1, <1>2, <1>3
  <2>2. rows = [s \in DOMAIN rows |-> rows[s]]
    BY DEF Upserted
  <2> QED BY <2>1, <2>2
<1> QED BY <1>1, <1>2, <1>3, <1>4

\* What a publication leaves of the capture table: every capture a row or a
\* head still refers to, unchanged, and the new one.
LEMMA CapturesKept ==
    ASSUME TypeOK,
           NEW p \in Sources, NEW at \in Times, NEW body \in Bodies, NEW cap \in Ids,
           IsNextId(cap),
           quote' = [quote EXCEPT ![p] = Upserted(p, cap, body)],
           head' = [head EXCEPT ![p] = cap],
           captures' =
              LET kept == (DOMAIN captures \cup {cap}) \cap InUse(quote', head')
              IN  [i \in kept |-> IF i = cap THEN [source |-> p, at |-> at, body |-> body]
                                             ELSE captures[i]]
    PROVE  /\ cap \notin DOMAIN captures
           /\ cap \in DOMAIN captures'
           /\ captures'[cap] = [source |-> p, at |-> at, body |-> body]
           /\ \A i \in DOMAIN captures' : i = cap \/ i \in DOMAIN captures
           /\ \A i \in DOMAIN captures :
                 i \in DOMAIN captures' => captures'[i] = captures[i]
           /\ \A i \in DOMAIN captures :
                 i \in InUse(quote', head') => i \in DOMAIN captures'
<1>1. cap \notin DOMAIN captures
  BY DEF IsNextId, Ids
<1>2. head'[p] = cap
  BY DEF TypeOK
<1>3. cap \in InUse(quote', head')
  BY <1>2 DEF InUse
<1> HIDE DEF InUse
<1> QED BY <1>1, <1>3

\* A publication keeps the tables consistent.
LEMMA PublishLedgerInv ==
    ASSUME LedgerInv,
           NEW p \in Sources, NEW at \in Times, NEW body \in Bodies, Publish(p, at, body)
    PROVE  LedgerInv'
<1>1. PICK cap \in Ids :
         /\ IsNewer(p, at)
         /\ IsNextId(cap)
         /\ quote' = [quote EXCEPT ![p] = Upserted(p, cap, body)]
         /\ head' = [head EXCEPT ![p] = cap]
         /\ lastReceived' = [lastReceived EXCEPT ![p] = at]
         /\ captures' =
               LET kept == (DOMAIN captures \cup {cap}) \cap InUse(quote', head')
               IN  [i \in kept |-> IF i = cap THEN [source |-> p, at |-> at, body |-> body]
                                              ELSE captures[i]]
         /\ revision' = revision + 1
  BY DEF Publish
<1> DEFINE rows == Upserted(p, cap, body)
<1>2. TypeOK /\ ReceiptsOnFile /\ HeadsNewest
  BY DEF LedgerInv
<1>3. /\ DOMAIN rows = DOMAIN quote[p] \cup DOMAIN body
      /\ rows \in [DOMAIN rows -> Row]
      /\ \A s \in DOMAIN body : rows[s] = Listed(p, cap, body[s])
      /\ \A s \in DOMAIN quote[p] \ DOMAIN body :
            /\ rows[s].fact = quote[p][s].fact
            /\ rows[s].membership # Member
            /\ rows[s].capture = ReceiptId(p, quote[p][s])
            /\ p \in Feeds => ~IsListed(p, rows[s])
            /\ p \notin Feeds => rows[s] = quote[p][s]
  BY <1>2, UpsertedRows
<1>4. /\ cap \notin DOMAIN captures
      /\ cap \in DOMAIN captures'
      /\ captures'[cap] = [source |-> p, at |-> at, body |-> body]
      /\ \A i \in DOMAIN captures' : i = cap \/ i \in DOMAIN captures
      /\ \A i \in DOMAIN captures : i \in DOMAIN captures' => captures'[i] = captures[i]
      /\ \A i \in DOMAIN captures : i \in InUse(quote', head') => i \in DOMAIN captures'
  BY <1>1, <1>2, CapturesKept
<1> HIDE DEF rows
<1>5. /\ quote'[p] = rows /\ head'[p] = cap /\ lastReceived'[p] = at
      /\ \A q \in Sources \ {p} : /\ quote'[q] = quote[q]
                                   /\ head'[q] = head[q]
                                   /\ lastReceived'[q] = lastReceived[q]
  BY <1>1, <1>2 DEF TypeOK, rows
<1>6. TypeOK'
  <2>1. DOMAIN quote' = Sources
    BY <1>1, <1>2 DEF TypeOK
  <2>2. ASSUME NEW q \in Sources
        PROVE  DOMAIN quote'[q] \subseteq Subjects /\ quote'[q] \in [DOMAIN quote'[q] -> Row]
    <3>1. CASE q = p
      BY <3>1, <1>2, <1>3, <1>5, BodyShape DEF TypeOK
    <3>2. CASE q # p
      BY <3>2, <1>2, <1>5 DEF TypeOK
    <3> QED BY <3>1, <3>2
  <2>3. DOMAIN captures' \subseteq Ids /\ captures' \in [DOMAIN captures' -> Capture]
    <3>1. [source |-> p, at |-> at, body |-> body] \in Capture
      BY DEF Capture
    <3>2. \A i \in DOMAIN captures' : i \in Ids /\ captures'[i] \in Capture
      BY <3>1, <1>2, <1>4 DEF TypeOK
    <3>3. captures' = [i \in DOMAIN captures' |-> captures'[i]]
      BY <1>1
    <3> QED BY <3>2, <3>3
  <2>4. /\ head' \in [Sources -> Ids \cup {NoCapture}]
        /\ lastReceived' \in [Sources -> Times \cup {0}]
        /\ revision' \in Nat
    BY <1>1, <1>2 DEF TypeOK
  <2> QED BY <2>1, <2>2, <2>3, <2>4 DEF TypeOK
<1>7. \A q \in Sources : \A s \in DOMAIN quote'[q] :
         quote'[q][s].capture \in InUse(quote', head') /\ head'[q] \in InUse(quote', head')
  BY DEF InUse
<1>8. ReceiptsOnFile'
  <2> SUFFICES ASSUME NEW q \in Sources, NEW s \in DOMAIN quote'[q]
               PROVE  LET row == quote'[q][s]
                          id == IF row.membership = Member THEN head'[q] ELSE row.capture
                      IN  /\ id \in DOMAIN captures'
                          /\ captures'[id].source = q
                          /\ s \in DOMAIN captures'[id].body
                          /\ captures'[id].body[s] = row.fact
    BY DEF ReceiptsOnFile, ReceiptId
  <2>1. CASE q # p
    BY <2>1, <1>2, <1>4, <1>5, <1>7 DEF ReceiptsOnFile, ReceiptId
  <2>2. CASE q = p /\ s \in DOMAIN body
    BY <2>2, <1>3, <1>4, <1>5
    DEF ReceiptId, Listed, Membership, Member, Single, Unlisted
  <2>3. CASE q = p /\ s \notin DOMAIN body
    <3>1. s \in DOMAIN quote[p] \ DOMAIN body
      BY <2>3, <1>3, <1>5
    <3>2. /\ quote'[q][s].membership # Member
          /\ quote'[q][s].capture = ReceiptId(p, quote[p][s])
          /\ quote'[q][s].fact = quote[p][s].fact
      BY <3>1, <2>3, <1>3, <1>5
    <3> QED
      BY <3>1, <3>2, <2>3, <1>2, <1>4, <1>7 DEF ReceiptsOnFile
  <2> QED BY <2>1, <2>2, <2>3
<1>9. HeadsNewest'
  <2>1. ASSUME NEW q \in Sources
        PROVE  IF head'[q] = NoCapture
               THEN lastReceived'[q] = 0 /\ quote'[q] = << >>
               ELSE /\ head'[q] \in DOMAIN captures'
                    /\ captures'[head'[q]].source = q
                    /\ captures'[head'[q]].at = lastReceived'[q]
    <3>1. CASE q = p
      BY <3>1, <1>4, <1>5 DEF Ids, NoCapture
    <3>2. CASE q # p
      <4>1. head'[q] \in InUse(quote', head')
        BY DEF InUse
      <4> QED BY <4>1, <3>2, <1>2, <1>4, <1>5 DEF HeadsNewest
    <3> QED BY <3>1, <3>2
  <2>2. ASSUME NEW i \in DOMAIN captures'
        PROVE  captures'[i].at <= lastReceived'[captures'[i].source]
    <3>1. CASE i = cap
      BY <3>1, <1>4, <1>5 DEF Times
    <3>2. CASE i # cap
      <4>1. i \in DOMAIN captures /\ captures'[i] = captures[i]
        BY <3>2, <1>4
      <4>2. captures[i] \in Capture /\ captures[i].at <= lastReceived[captures[i].source]
        BY <4>1, <1>2 DEF TypeOK, HeadsNewest
      <4>3. at > lastReceived[p] /\ lastReceived \in [Sources -> Times \cup {0}]
        BY <1>1, <1>2 DEF IsNewer, TypeOK
      <4> QED
        BY <4>1, <4>2, <4>3, <1>5, LedgerAssumption DEF Capture, Times
    <3> QED BY <3>1, <3>2
  <2>3. ASSUME NEW q \in Sources, NEW s \in DOMAIN quote'[q]
        PROVE  quote'[q][s].membership \in {Membership(q), Unlisted}
    <3>1. CASE q # p
      BY <3>1, <1>2, <1>5 DEF HeadsNewest
    <3>2. CASE q = p /\ s \in DOMAIN body
      BY <3>2, <1>3, <1>5 DEF Listed
    <3>3. CASE q = p /\ s \notin DOMAIN body
      <4>1. s \in DOMAIN quote[p] \ DOMAIN body
        BY <3>3, <1>3, <1>5
      <4>2. rows[s] \in Row /\ quote[p][s].membership \in {Membership(p), Unlisted}
        BY <4>1, <1>2, <1>3 DEF HeadsNewest
      <4>3. CASE p \in Feeds
        BY <4>1, <4>2, <4>3, <3>3, <1>3, <1>5 DEF IsListed
      <4>4. CASE p \notin Feeds
        BY <4>1, <4>2, <4>4, <3>3, <1>3, <1>5
      <4> QED BY <4>3, <4>4
    <3> QED BY <3>1, <3>2, <3>3
  <2> QED BY <2>1, <2>2, <2>3 DEF HeadsNewest
<1> QED BY <1>6, <1>8, <1>9 DEF LedgerInv

\* For all sources and bounds, the tables are consistent at all times: every
\* price can be traced to the capture that carried it.
THEOREM LedgerInvariant == Spec => []LedgerInv
<1>1. Init => LedgerInv
  BY InitLedgerInv
<1>2. LedgerInv /\ [Next]_ledger => LedgerInv'
  <2> SUFFICES ASSUME LedgerInv, [Next]_ledger PROVE LedgerInv'
    OBVIOUS
  <2>1. CASE Next
    BY <2>1, PublishLedgerInv DEF Next
  <2>2. CASE UNCHANGED ledger
    BY <2>2 DEF ledger, LedgerInv, TypeOK, ReceiptsOnFile, HeadsNewest, ReceiptId
  <2> QED BY <2>1, <2>2
<1> QED BY <1>1, <1>2, PTL DEF Spec

\* A publication is an observation of SourceObservations: of its source, at
\* its time, of its body, and of nothing else.
LEMMA PublishObserves ==
    ASSUME LedgerInv,
           NEW p \in Sources, NEW at \in Times, NEW body \in Bodies, Publish(p, at, body)
    PROVE  Promise!Observe(p, at, body)
<1>1. PICK cap \in Ids :
         /\ MayCarry(p, body)
         /\ IsNewer(p, at)
         /\ IsNextId(cap)
         /\ quote' = [quote EXCEPT ![p] = Upserted(p, cap, body)]
         /\ head' = [head EXCEPT ![p] = cap]
         /\ lastReceived' = [lastReceived EXCEPT ![p] = at]
         /\ captures' =
               LET kept == (DOMAIN captures \cup {cap}) \cap InUse(quote', head')
               IN  [i \in kept |-> IF i = cap THEN [source |-> p, at |-> at, body |-> body]
                                              ELSE captures[i]]
  BY DEF Publish
<1> DEFINE rows == Upserted(p, cap, body)
           After == [s \in DOMAIN Seen(p) \cup DOMAIN body |->
                       IF s \in DOMAIN body
                       THEN [fact |-> body[s], at |-> at, body |-> body, listed |-> TRUE]
                       ELSE [Seen(p)[s] EXCEPT !.listed = @ /\ p \notin Feeds]]
<1>2. TypeOK /\ ReceiptsOnFile /\ HeadsNewest
  BY DEF LedgerInv
<1>3. /\ DOMAIN rows = DOMAIN quote[p] \cup DOMAIN body
      /\ \A s \in DOMAIN body : rows[s] = Listed(p, cap, body[s])
      /\ \A s \in DOMAIN quote[p] \ DOMAIN body :
            /\ rows[s].fact = quote[p][s].fact
            /\ rows[s].membership # Member
            /\ rows[s].capture = ReceiptId(p, quote[p][s])
            /\ p \in Feeds => ~IsListed(p, rows[s])
            /\ p \notin Feeds => rows[s] = quote[p][s]
  BY <1>2, UpsertedRows
<1>4. /\ cap \in DOMAIN captures'
      /\ captures'[cap] = [source |-> p, at |-> at, body |-> body]
      /\ \A i \in DOMAIN captures : i \in DOMAIN captures' => captures'[i] = captures[i]
      /\ \A i \in DOMAIN captures : i \in InUse(quote', head') => i \in DOMAIN captures'
  BY <1>1, <1>2, CapturesKept
<1> HIDE DEF rows
<1>5. /\ quote'[p] = rows /\ head'[p] = cap
      /\ \A q \in Sources \ {p} : quote'[q] = quote[q] /\ head'[q] = head[q]
  BY <1>1, <1>2 DEF TypeOK, rows
<1>6. \A q \in Sources : \A s \in DOMAIN quote'[q] :
         quote'[q][s].capture \in InUse(quote', head') /\ head'[q] \in InUse(quote', head')
  BY DEF InUse
<1>7. \A q \in Sources \ {p} : Seen(q)' = Seen(q)
  <2> SUFFICES ASSUME NEW q \in Sources \ {p} PROVE Seen(q)' = Seen(q)
    OBVIOUS
  <2>1. \A s \in DOMAIN quote[q] :
           LET id == ReceiptId(q, quote[q][s])
           IN  id \in DOMAIN captures /\ id \in InUse(quote', head')
    BY <1>2, <1>5, <1>6 DEF ReceiptsOnFile, ReceiptId
  <2>2. \A s \in DOMAIN quote[q] :
           captures'[ReceiptId(q, quote[q][s])] = captures[ReceiptId(q, quote[q][s])]
    BY <2>1, <1>4
  <2> QED BY <2>2, <1>5 DEF Seen, ReceiptId, IsListed
<1>8. Seen(p)' = After
  <2>1. DOMAIN quote'[p] = DOMAIN Seen(p) \cup DOMAIN body
    BY <1>3, <1>5 DEF Seen
  <2>2. ASSUME NEW s \in DOMAIN body
        PROVE  Seen(p)'[s] = After[s]
    <3>1. s \in DOMAIN quote'[p] /\ quote'[p][s] = Listed(p, cap, body[s])
      BY <2>1, <2>2, <1>3, <1>5
    <3>2. /\ (IF Listed(p, cap, body[s]).membership = Member
              THEN head'[p] ELSE Listed(p, cap, body[s]).capture) = cap
          /\ IsListed(p, Listed(p, cap, body[s])) = TRUE
          /\ Listed(p, cap, body[s]).fact = body[s]
      BY <1>5, LedgerAssumption
      DEF IsListed, Listed, Membership, Member, Single, Unlisted, Sources
    <3>3. Seen(p)'[s] = [fact |-> body[s], at |-> captures'[cap].at,
                         body |-> captures'[cap].body, listed |-> TRUE]
      BY <3>1, <3>2 DEF Seen, ReceiptId, IsListed
    <3>4. After[s] = [fact |-> body[s], at |-> at, body |-> body, listed |-> TRUE]
      BY <2>2
    <3> QED BY <3>3, <3>4, <1>4
  <2>3. ASSUME NEW s \in DOMAIN quote[p], s \notin DOMAIN body
        PROVE  Seen(p)'[s] = After[s]
    <3> DEFINE id == ReceiptId(p, quote[p][s])
    <3>1. /\ rows[s].fact = quote[p][s].fact
          /\ rows[s].membership # Member
          /\ rows[s].capture = id
      BY <2>3, <1>3
    <3>2. s \in DOMAIN quote'[p] /\ quote'[p][s] = rows[s]
      BY <2>1, <2>3, <1>3, <1>5
    <3>3. id \in DOMAIN captures /\ id \in InUse(quote', head')
      BY <2>3, <3>1, <3>2, <1>2, <1>6 DEF ReceiptsOnFile
    <3>4. captures'[id] = captures[id]
      BY <3>3, <1>4
    <3>5. Seen(p)'[s] = [fact |-> quote[p][s].fact, at |-> captures[id].at,
                         body |-> captures[id].body, listed |-> IsListed(p, rows[s])]
      BY <3>1, <3>2, <3>4 DEF Seen, ReceiptId, IsListed
    <3>6. Seen(p)[s] = [fact |-> quote[p][s].fact, at |-> captures[id].at,
                        body |-> captures[id].body, listed |-> IsListed(p, quote[p][s])]
      BY <2>3 DEF Seen
    <3>7. After[s] = [Seen(p)[s] EXCEPT !.listed = @ /\ p \notin Feeds]
      BY <2>3 DEF Seen
    <3>8. IsListed(p, rows[s]) = (IsListed(p, quote[p][s]) /\ p \notin Feeds)
      BY <2>3, <1>3 DEF IsListed
    <3> HIDE DEF id
    <3> QED BY <3>5, <3>6, <3>7, <3>8
  <2>4. \A s \in DOMAIN quote'[p] : Seen(p)'[s] = After[s]
    BY <2>1, <2>2, <2>3 DEF Seen
  <2>5. /\ Seen(p)' = [s \in DOMAIN quote'[p] |-> Seen(p)'[s]]
        /\ After = [s \in DOMAIN quote'[p] |-> After[s]]
    BY <2>1 DEF Seen
  <2> QED BY <2>4, <2>5
<1> HIDE DEF After
<1>9. [q \in Sources |-> Seen(q)]' = [[q \in Sources |-> Seen(q)] EXCEPT ![p] = After]
  BY <1>7, <1>8
<1>10. [q \in Sources |-> Seen(q)][p] = Seen(p)
  OBVIOUS
<1> QED
  BY <1>1, <1>9, <1>10 DEF Promise!Observe, Promise!MayCarry, MayCarry, IsNewer, After

\* The ledger keeps the promise of SourceObservations, for all sources,
\* items, facts and bounds.
THEOREM LedgerKeepsPromise == Spec => KeepsPromise
<1>1. Init => Promise!Init
  BY DEF Init, Promise!Init, Seen
<1>2. LedgerInv /\ [Next]_ledger
        => [Promise!Next]_<<[p \in Sources |-> Seen(p)], lastReceived>>
  <2> SUFFICES ASSUME LedgerInv, [Next]_ledger
               PROVE  [Promise!Next]_<<[p \in Sources |-> Seen(p)], lastReceived>>
    OBVIOUS
  <2>1. CASE Next
    <3>1. PICK p \in Sources, at \in Times, body \in Bodies : Publish(p, at, body)
      BY <2>1 DEF Next
    <3>2. Promise!Observe(p, at, body)
      BY <3>1, PublishObserves
    <3> QED BY <3>2 DEF Promise!Next, Promise!Bodies, Bodies
  <2>2. CASE UNCHANGED ledger
    BY <2>2 DEF ledger, Seen, ReceiptId, IsListed
  <2> QED BY <2>1, <2>2
<1> QED
  BY <1>1, <1>2, LedgerInvariant, PTL DEF Spec, KeepsPromise, Promise!Spec

-----------------------------------------------------------------------------
(***************************************************************************)
(* Charts and metrics.  A batch carries what makes its rebuild enough: as  *)
(* long as its notes are of the current revision, every name it did not    *)
(* write has the metrics of the inputs saved.  A write by anybody else     *)
(* moves the revision on, and the notes with that fall out of date.        *)
(***************************************************************************)
Revs == 0 .. Revisions
ChartInputs == [quote : Revs, chart : Chart!Fetches \cup {None}]
Works == [pc : {"off", "next", "asked", "fetched", "saved", "rebuild"}, todo : SUBSET Charted,
          item : Charted \cup {None}, got : Chart!Fetches \cup {None}, spent : Nat,
          expected : (-1 .. Revisions) \cup {None}, complete : BOOLEAN, names : SUBSET ChartNames,
          failures : SUBSET Charted, done : SUBSET Charted]
ChartTyped ==
    /\ Chart!TypeOK /\ batch \in [Batches -> Works] /\ moves \in Nat /\ alone \subseteq Batches
    /\ metrics = [n \in ChartNames |-> metrics[n]]

\* A batch has the item, the chart and the note of it that its step works on.
Shape(s) ==
    /\ s.pc \in {"asked", "fetched", "saved"} => s.item \in Charted
    /\ s.pc = "fetched" => s.got \in Chart!Fetches
    /\ s.pc = "saved" => Chart!Wrote(s.item) \subseteq s.names

Metric(n) == Chart!Inputs(history, priced)[n]
Noted(s) ==
    s.complete /\ s.expected = source => \A n \in ChartNames \ s.names : metrics[n] = Metric(n)
Dated(s) == s.expected # None => s.expected <= source
AloneTrue(s) ==
    IF s.names = {} THEN s.expected = None /\ Chart!Current ELSE s.complete /\ s.expected = source
WorkKept(s) == Shape(s) /\ Noted(s) /\ Dated(s)

ReceiptsAgree ==
    /\ lookup.verified = receipt.complete /\ lookup.revision = receipt.revision
    /\ receipt.revision <= source
PointsOnFile == \A i \in Charted : points[i] # None => points[i] \in versions[i]
ChartKept ==
    /\ ChartTyped /\ Chart!MetricsTrue /\ ReceiptsAgree /\ Chart!PointsNewest /\ PointsOnFile
    /\ \A b \in Batches : WorkKept(batch[b])
    /\ \A b \in alone : AloneTrue(batch[b])

LEMMA ChartBounds ==
    /\ ListedAs \in [Charted -> ChartNames] /\ Charted \subseteq ChartNames /\ Warming \subseteq Batches
    /\ Limit \in Nat \ {0} /\ ChartTime \in Nat \ {0} /\ Revisions \in Nat /\ MaxMoves \in Nat
    /\ None \notin -1 .. Revisions /\ None \notin Chart!Fetches
BY LedgersAssumption DEF LedgersAssumption, Chart!HistoryAssumption, Chart!Fetches

LEMMA WroteNames == \A i \in Charted : Chart!Wrote(i) \subseteq ChartNames
BY ChartBounds DEF Chart!Wrote

LEMMA OffKept == Chart!Off \in Works /\ WorkKept(Chart!Off)
BY DEF Chart!Off, Works, WorkKept, Shape, Noted, Dated

LEMMA ChartsInit == Chart!Init => ChartKept
<1> SUFFICES ASSUME Chart!Init PROVE ChartKept
  OBVIOUS
<1>1. ChartTyped
  <2>1. batch \in [Batches -> Works] /\ \A b \in Batches : batch[b] = Chart!Off
    BY OffKept DEF Chart!Init
  <2>2. \A b \in Batches : /\ batch[b].pc \in {"off", "next", "asked", "fetched", "saved", "rebuild"}
                           /\ batch[b].todo \subseteq Charted /\ batch[b].names \subseteq ChartNames
    BY <2>1 DEF Works
  <2>3. Chart!TypeOK
    BY <2>2, ChartBounds DEF Chart!Init, Chart!TypeOK, Chart!Looked
  <2>4. metrics = [n \in ChartNames |-> metrics[n]]
    BY DEF Chart!Init, Chart!Inputs
  <2> QED
    BY <2>1, <2>3, <2>4 DEF ChartTyped, Chart!Init
<1>2. Chart!MetricsTrue /\ ReceiptsAgree
  <2>1. metrics = Chart!Inputs(history, priced) /\ source = 0 /\ receipt = [complete |-> TRUE, revision |-> 0]
        /\ lookup = Chart!Looked(metrics, priced, receipt, source)
    BY DEF Chart!Init
  <2>2. ReceiptsAgree
    <3>1. lookup.verified = (receipt.complete /\ receipt.revision = source) /\ lookup.revision = source
      BY <2>1 DEF Chart!Looked
    <3>2. receipt.complete = TRUE /\ receipt.revision = source /\ source <= source
      BY <2>1
    <3> QED
      BY <3>1, <3>2 DEF ReceiptsAgree
  <2>3. lookup.rows = [n \in ChartNames |-> [metric |-> metrics[n], quote |-> priced[n]]]
    BY <2>1 DEF Chart!Looked
  <2> QED
    BY <2>1, <2>2, <2>3 DEF Chart!MetricsTrue
<1>3. Chart!PointsNewest /\ PointsOnFile
  BY DEF Chart!Init, Chart!PointsNewest, PointsOnFile
<1>4. \A b \in Batches : WorkKept(batch[b])
  BY OffKept DEF Chart!Init
<1> QED
  BY <1>1, <1>2, <1>3, <1>4 DEF ChartKept, Chart!Init

\* What a step leaves that writes neither inputs nor what is built from them.
Unbuilt == UNCHANGED <<history, priced, points, versions, source, metrics, receipt, lookup>>
Around == clock' \in 1 .. ChartTime /\ deadline' \in 0 .. ChartTime + 1 /\ failed' \subseteq Charted /\ moves' \in Nat

LEMMA StillTyped ==
    ASSUME ChartKept, Around, batch' \in [Batches -> Works], alone' \subseteq Batches
    PROVE  /\ clock' \in 1 .. ChartTime /\ deadline' \in 0 .. ChartTime + 1
           /\ \A b \in Batches : /\ batch'[b].pc \in {"off", "next", "asked", "fetched", "saved", "rebuild"}
                                 /\ batch'[b].todo \subseteq Charted /\ batch'[b].names \subseteq ChartNames
BY DEF Around, Works

LEMMA UnbuiltKept ==
    ASSUME ChartKept, Unbuilt, Around, batch' \in [Batches -> Works], alone' \subseteq Batches,
           \A b \in Batches : WorkKept(batch'[b]), \A b \in alone' : AloneTrue(batch'[b])
    PROVE  ChartKept'
<1>1. ChartTyped'
  BY StillTyped DEF ChartKept, ChartTyped, Unbuilt, Around, Chart!TypeOK
<1>2. Chart!MetricsTrue' /\ ReceiptsAgree' /\ Chart!PointsNewest' /\ PointsOnFile'
  BY DEF ChartKept, Unbuilt, Chart!MetricsTrue, ReceiptsAgree, Chart!PointsNewest, PointsOnFile, Chart!Current,
     Chart!LookupCurrent
<1>3. ASSUME NEW b \in Batches PROVE WorkKept(batch[b])'
  BY DEF Unbuilt, WorkKept, Shape, Noted, Dated, Metric, Chart!Inputs
<1>4. ASSUME NEW b \in alone' PROVE AloneTrue(batch[b])'
  BY DEF Unbuilt, AloneTrue, Chart!Current
<1> QED
  BY <1>1, <1>2, <1>3, <1>4 DEF ChartKept

\* The same, of one batch.
LEMMA BatchGoesOn ==
    ASSUME ChartKept, Unbuilt, Around, NEW b \in Batches, NEW s \in Works, WorkKept(s),
           Chart!Then(b, s), alone' \subseteq alone \cup {b}, b \in alone' => AloneTrue(s)
    PROVE  ChartKept'
<1>1. /\ batch' \in [Batches -> Works] /\ batch'[b] = s
      /\ \A c \in Batches \ {b} : batch'[c] = batch[c]
  BY DEF Chart!Then, ChartKept, ChartTyped
<1>2. alone' \subseteq Batches
  BY DEF ChartKept, ChartTyped
<1>3. \A c \in Batches : WorkKept(batch'[c])
  BY <1>1 DEF ChartKept
<1>4. \A c \in alone' : AloneTrue(batch'[c])
  BY <1>1, <1>2 DEF ChartKept
<1> QED
  BY <1>1, <1>2, <1>3, <1>4, UnbuiltKept

SameNotes(s, t) == t.expected = s.expected /\ t.complete = s.complete /\ t.names = s.names
LEMMA SameNotesKept ==
    ASSUME NEW s \in Works, NEW t \in Works, WorkKept(s), SameNotes(s, t), Shape(t)
    PROVE  WorkKept(t) /\ (AloneTrue(s) => AloneTrue(t))
BY DEF SameNotes, WorkKept, Noted, Dated, AloneTrue

LEMMA BatchTyped ==
    ASSUME ChartKept, NEW b \in Batches
    PROVE  batch[b] \in Works /\ WorkKept(batch[b])
BY DEF ChartKept, ChartTyped

\* The item is done with, one way or another: the notes stay.
LEMMA DoneKept ==
    ASSUME NEW s \in Works, s.item \in Charted
    PROVE  LET t == Chart!Done(s) IN t \in Works /\ SameNotes(s, t) /\ t.pc = "next" /\ t.spent = s.spent
BY DEF Works, Chart!Done, SameNotes

LEMMA StoppedKept ==
    ASSUME NEW s \in Works, s.item \in Charted, NEW b \in Batches
    PROVE  LET t == Chart!Stopped(b, s) IN t \in Works /\ SameNotes(s, t) /\ t.pc = "next"
<1> DEFINE d == Chart!Done(s)
<1>1. d \in Works /\ SameNotes(s, d) /\ d.pc = "next"
  BY DoneKept
<1> HIDE DEF d
<1> DEFINE t == [d EXCEPT !.todo = {}]
<1>2. t \in Works /\ SameNotes(s, t) /\ t.pc = "next"
  BY <1>1 DEF Works, SameNotes
<1> QED
  BY <1>1, <1>2 DEF Chart!Stopped, d

LEMMA FailureKept ==
    ASSUME NEW s \in Works, s.item \in Charted, NEW b \in Batches
    PROVE  LET t == Chart!Failure(b, s) IN t \in Works /\ SameNotes(s, t) /\ t.pc = "next"
<1> DEFINE d == Chart!Done(s)
           n == IF history[s.item] = None THEN 0 ELSE 1
<1>1. d \in Works /\ SameNotes(s, d) /\ d.pc = "next"
  BY DoneKept
<1>2. n \in Nat
  OBVIOUS
<1> HIDE DEF d, n
<1> DEFINE u == [d EXCEPT !.failures = @ \cup {s.item}]
<1>3. u \in Works /\ SameNotes(s, u) /\ u.pc = "next" /\ u.spent = d.spent
  BY <1>1 DEF Works, SameNotes
<1> HIDE DEF u
<1> DEFINE t == [u EXCEPT !.spent = d.spent + n]
<1>4. t \in Works /\ SameNotes(s, t) /\ t.pc = "next"
  BY <1>1, <1>2, <1>3 DEF Works, SameNotes
<1> QED
  BY <1>1, <1>4 DEF Chart!Failure, d, n, u

LEMMA RefreshedKept ==
    ASSUME NEW s \in Works, s.item \in Charted, NEW b \in Batches
    PROVE  LET t == Chart!Refreshed(b, s) IN t \in Works /\ SameNotes(s, t) /\ t.pc = "next"
<1> DEFINE d == Chart!Done(s)
<1>1. d \in Works /\ SameNotes(s, d) /\ d.pc = "next"
  BY DoneKept
<1> HIDE DEF d
<1> DEFINE u == [d EXCEPT !.spent = @ + 1]
<1>2. u \in Works /\ SameNotes(s, u) /\ u.pc = "next" /\ u.done = d.done
  BY <1>1 DEF Works, SameNotes
<1> HIDE DEF u
<1> DEFINE t == [u EXCEPT !.done = d.done \cup {s.item}]
<1>3. t \in Works /\ SameNotes(s, t) /\ t.pc = "next"
  BY <1>1, <1>2 DEF Works, SameNotes
<1> QED
  BY <1>1, <1>3 DEF Chart!Refreshed, d, u

LEMMA NextShape == ASSUME NEW t, t.pc = "next" PROVE Shape(t)
BY DEF Shape

\* A step of a batch that leaves its notes alone.
LEMMA NotesStay ==
    ASSUME ChartKept, Unbuilt, Around, NEW b \in Batches, NEW s \in Works, SameNotes(batch[b], s), Shape(s),
           Chart!Then(b, s), alone' = alone
    PROVE  ChartKept'
<1>1. WorkKept(s) /\ (AloneTrue(batch[b]) => AloneTrue(s))
  BY BatchTyped, SameNotesKept
<1>2. b \in alone' => AloneTrue(s)
  BY <1>1 DEF ChartKept
<1> QED
  BY <1>1, <1>2, BatchGoesOn

LEMMA StartKept ==
    ASSUME ChartKept, NEW b \in Batches, Chart!Start(b)
    PROVE  ChartKept'
<1>1. PICK force, again \in BOOLEAN, some \in SUBSET Charted :
        LET items == IF b \in Warming THEN Chart!Candidates(force, again) ELSE some IN
        batch' = [batch EXCEPT ![b] = [Chart!Off EXCEPT !.pc = "next", !.todo = items]]
  BY DEF Chart!Start
<1> DEFINE items == IF b \in Warming THEN Chart!Candidates(force, again) ELSE some
           s == [Chart!Off EXCEPT !.pc = "next", !.todo = items]
<1>2. items \subseteq Charted
  BY DEF Chart!Candidates
<1>3. Chart!Then(b, s)
  BY <1>1 DEF Chart!Then
<1> HIDE DEF items
<1>4. s \in Works /\ s.names = {} /\ s.expected = None /\ s.complete = FALSE /\ s.pc = "next"
  BY <1>2, OffKept DEF Works, Chart!Off
<1> HIDE DEF s
<1>5. WorkKept(s)
  BY <1>4, NextShape DEF WorkKept, Noted, Dated
<1>6. alone' \subseteq alone \cup {b} /\ (b \in alone' => AloneTrue(s))
  BY <1>4 DEF Chart!Start, AloneTrue
<1>7. Unbuilt /\ Around
  BY DEF Chart!Start, Unbuilt, Around, Chart!inputs, Chart!derived, Chart!saved, ChartKept, ChartTyped, Chart!TypeOK
<1> QED
  BY <1>3, <1>4, <1>5, <1>6, <1>7, BatchGoesOn

LEMMA AskKept ==
    ASSUME ChartKept, NEW b \in Batches, Chart!Ask(b)
    PROVE  ChartKept'
<1>1. PICK i \in batch[b].todo :
        LET s == [batch[b] EXCEPT !.item = i] IN
        Chart!Then(b, IF deadline > clock THEN Chart!Stopped(b, s) ELSE [s EXCEPT !.pc = "asked"])
  BY DEF Chart!Ask
<1> DEFINE s == [batch[b] EXCEPT !.item = i]
<1>2. i \in Charted /\ batch[b] \in Works
  BY BatchTyped DEF Works
<1>3. s \in Works /\ SameNotes(batch[b], s) /\ s.item = i
  BY <1>2 DEF Works, SameNotes
<1>4. Chart!Then(b, IF deadline > clock THEN Chart!Stopped(b, s) ELSE [s EXCEPT !.pc = "asked"])
  BY <1>1
<1>5. Unbuilt /\ Around /\ alone' = alone
  BY DEF Chart!Ask, Unbuilt, Around, Chart!inputs, Chart!derived, Chart!saved, ChartKept, ChartTyped, Chart!TypeOK
<1> HIDE DEF s
<1> DEFINE t == Chart!Stopped(b, s)
           u == [s EXCEPT !.pc = "asked"]
<1>6. t \in Works /\ SameNotes(s, t) /\ t.pc = "next"
  BY <1>2, <1>3, StoppedKept
<1>7. u \in Works /\ SameNotes(s, u) /\ Shape(u)
  BY <1>2, <1>3 DEF Works, SameNotes, Shape
<1>8. SameNotes(batch[b], t) /\ SameNotes(batch[b], u)
  BY <1>3, <1>6, <1>7 DEF SameNotes
<1>9. Chart!Then(b, t) \/ Chart!Then(b, u)
  BY <1>4
<1> HIDE DEF t, u
<1> QED
  BY <1>5, <1>6, <1>7, <1>8, <1>9, NotesStay, NextShape

LEMMA ChartFetched ==
    ASSUME ChartKept, NEW b \in Batches, Chart!Chart(b)
    PROVE  ChartKept'
<1> DEFINE got == [at |-> clock, by |-> b]
           s == [batch[b] EXCEPT !.pc = "fetched", !.got = got]
<1>1. got \in Chart!Fetches
  BY DEF Chart!Fetches, ChartKept, ChartTyped, Chart!TypeOK
<1>2. Chart!Then(b, s) /\ batch[b].pc = "asked"
  BY DEF Chart!Chart
<1>3. batch[b] \in Works /\ batch[b].item \in Charted
  BY <1>2, BatchTyped DEF WorkKept, Shape
<1> HIDE DEF got
<1>4. s \in Works /\ SameNotes(batch[b], s) /\ Shape(s)
  BY <1>1, <1>3 DEF Works, SameNotes, Shape
<1>5. Unbuilt /\ Around /\ alone' = alone
  BY DEF Chart!Chart, Unbuilt, Around, Chart!inputs, Chart!derived, Chart!saved, ChartKept, ChartTyped, Chart!TypeOK
<1> HIDE DEF s
<1> QED
  BY <1>2, <1>4, <1>5, NotesStay

\* Fields of a batch that its step keeps.
SameWork(s, t) == t.pc = s.pc /\ t.item = s.item /\ t.got = s.got /\ t.names = s.names /\ t.todo = s.todo
LEMMA SameShape == ASSUME NEW s, NEW t, Shape(s), SameWork(s, t) PROVE Shape(t)
BY DEF Shape, SameWork

LEMMA SourceIs == ChartKept => source \in 0 .. Revisions /\ source # None /\ Chart!Current \in BOOLEAN
BY ChartBounds DEF ChartKept, ChartTyped, Chart!TypeOK, Chart!Current

LEMMA CurrentBuilt == ASSUME ChartKept, Chart!Current, NEW n \in ChartNames PROVE metrics[n] = Metric(n)
BY DEF ChartKept, Chart!MetricsTrue, Metric

\* begin_history_refresh_write: what a batch finds current it has noted.
LEMMA BegunKept ==
    ASSUME ChartKept, NEW s \in Works, WorkKept(s)
    PROVE  LET t == Chart!Begun(s)
           IN  /\ t \in Works /\ WorkKept(t) /\ SameWork(s, t) /\ t.expected = source
               /\ AloneTrue(s) => t.complete
<1> DEFINE whole == IF s.expected = None THEN Chart!Current ELSE s.complete /\ s.expected = source
           u == [s EXCEPT !.complete = whole]
           t == [u EXCEPT !.expected = source]
<1>1. whole \in BOOLEAN
  BY SourceIs
<1>2. whole /\ s.expected # None => s.complete /\ s.expected = source
  OBVIOUS
<1>3. whole /\ s.expected = None => Chart!Current
  OBVIOUS
<1>4. AloneTrue(s) => whole
  BY SourceIs DEF AloneTrue
<1>5. Chart!Begun(s) = t
  BY DEF Chart!Begun
<1> HIDE DEF whole
<1>6. u \in Works /\ SameWork(s, u) /\ u.complete = whole
  BY <1>1 DEF Works, SameWork
<1> HIDE DEF u
<1>7. t \in Works /\ SameWork(u, t) /\ t.complete = whole /\ t.expected = source
  BY <1>6, SourceIs DEF Works, SameWork
<1> HIDE DEF t
<1>8. SameWork(s, t) /\ Shape(t)
  BY <1>6, <1>7, SameShape DEF SameWork, WorkKept
<1>9. Noted(t)
  <2>1. SUFFICES ASSUME t.complete, NEW n \in ChartNames \ t.names PROVE metrics[n] = Metric(n)
    BY DEF Noted
  <2>2. CASE s.expected = None
    BY <1>3, <1>7, <2>1, <2>2, CurrentBuilt
  <2>3. CASE s.expected # None
    BY <1>2, <1>7, <1>8, <2>1, <2>3 DEF Noted, WorkKept, SameWork
  <2> QED
    BY <2>2, <2>3
<1>10. Dated(t)
  BY <1>7, SourceIs DEF Dated
<1> QED
  BY <1>4, <1>5, <1>7, <1>8, <1>9, <1>10 DEF WorkKept

\* A transaction that fails leaves the batch's own notes, of no revision perhaps.
LEMMA LeftKept ==
    ASSUME ChartKept, NEW s \in Works, WorkKept(s), NEW t \in Chart!Left(s)
    PROVE  t \in Works /\ WorkKept(t) /\ SameWork(s, t)
<1> DEFINE u == Chart!Begun(s)
           v == [u EXCEPT !.expected = Chart!Never]
<1>1. u \in Works /\ WorkKept(u) /\ SameWork(s, u)
  BY BegunKept
<1>2. t = s \/ t = u \/ t = v
  BY DEF Chart!Left
<1> HIDE DEF u
<1>3. v \in Works /\ SameWork(u, v) /\ v.expected = -1
  <2>1. Chart!Never = -1 /\ -1 \in (-1 .. Revisions) \cup {None}
    BY ChartBounds DEF Chart!Never
  <2> QED
    BY <1>1, <2>1 DEF Works, SameWork
<1>4. -1 # source /\ -1 <= source
  BY SourceIs
<1> HIDE DEF v
<1>5. WorkKept(v)
  BY <1>1, <1>3, <1>4, SameShape DEF WorkKept, Noted, Dated
<1>6. SameWork(s, s) /\ SameWork(s, v)
  BY <1>1, <1>3 DEF SameWork
<1> QED
  BY <1>1, <1>2, <1>3, <1>5, <1>6

\* A batch whose transaction failed is not alone any more.
LEMMA FailedWrite ==
    ASSUME ChartKept, Unbuilt, Around, NEW b \in Batches, NEW s \in Works, NEW t \in Works,
           WorkKept(s), SameNotes(s, t), t.pc = "next", Chart!Then(b, t), alone' = alone \ {b}
    PROVE  ChartKept'
<1>1. WorkKept(t)
  BY SameNotesKept, NextShape
<1> QED
  BY <1>1, BatchGoesOn

LEMMA AtItem ==
    ASSUME ChartKept, NEW b \in Batches, batch[b].pc \in {"asked", "fetched", "saved"}
    PROVE  batch[b] \in Works /\ WorkKept(batch[b]) /\ batch[b].item \in Charted
BY BatchTyped DEF WorkKept, Shape

LEMMA MovesOn == ChartKept /\ Chart!Move => moves' \in Nat /\ moves' # moves
BY DEF ChartKept, ChartTyped, Chart!Move

LEMMA UnansweredKept ==
    ASSUME ChartKept, NEW b \in Batches, Chart!NoChart(b) \/ Chart!Limited(b) \/ Chart!Deferred(b)
    PROVE  ChartKept'
<1> DEFINE s == batch[b]
           f == Chart!Failure(b, s)
<1>1. s \in Works /\ s.item \in Charted /\ alone' = alone /\ moves' \in Nat
  BY AtItem, MovesOn DEF Chart!NoChart, Chart!Limited, Chart!Deferred
<1>2. Unbuilt /\ clock' = clock /\ failed' = failed /\ deadline' \in 0 .. ChartTime + 1
  BY ChartBounds DEF Chart!NoChart, Chart!Limited, Chart!Deferred, Unbuilt, Chart!inputs, Chart!derived, Chart!saved,
     Chart!DeadlineAfter, Chart!RetryAt, ChartKept, ChartTyped, Chart!TypeOK
<1>3. Around
  BY <1>1, <1>2 DEF Around, ChartKept, ChartTyped, Chart!TypeOK
<1>4. f \in Works /\ SameNotes(s, f) /\ f.pc = "next"
  BY <1>1, FailureKept
<1>5. CASE Chart!NoChart(b)
  BY <1>1, <1>2, <1>3, <1>4, <1>5, NotesStay, NextShape DEF Chart!NoChart
<1>6. CASE Chart!Limited(b)
  <2> HIDE DEF f, s
  <2>0. s = batch[b]
    BY DEF s
  <2> DEFINE t == Chart!Stopped(b, f)
  <2>1. f.item \in Charted \/ f.item = None
    BY <1>4 DEF Works
  <2>2. t \in Works /\ SameNotes(f, t) /\ t.pc = "next"
    <3> DEFINE d == Chart!Done(f)
    <3>1. d \in Works /\ SameNotes(f, d) /\ d.pc = "next"
      BY <1>4 DEF Works, SameNotes, Chart!Done
    <3> HIDE DEF d
    <3> DEFINE e == [d EXCEPT !.todo = {}]
    <3>2. e \in Works /\ SameNotes(f, e) /\ e.pc = "next"
      BY <3>1 DEF Works, SameNotes
    <3> QED
      BY <3>1, <3>2 DEF Chart!Stopped, d
  <2>3. Chart!Then(b, t)
    BY <1>6 DEF Chart!Limited, t, f, s
  <2> HIDE DEF t
  <2>4. SameNotes(s, t)
    BY <1>4, <2>2 DEF SameNotes
  <2> QED
    BY <1>1, <1>2, <1>3, <2>0, <2>2, <2>3, <2>4, NotesStay, NextShape
<1>7. CASE Chart!Deferred(b)
  <2> DEFINE t == Chart!Stopped(b, s)
             u == [s EXCEPT !.pc = "next", !.item = None]
  <2>1. t \in Works /\ SameNotes(s, t) /\ t.pc = "next"
    BY <1>1, StoppedKept
  <2>2. u \in Works /\ SameNotes(s, u) /\ u.pc = "next"
    BY <1>1 DEF Works, SameNotes
  <2>3. Chart!Then(b, t) \/ Chart!Then(b, u)
    BY <1>7 DEF Chart!Deferred
  <2> HIDE DEF t, u
  <2> QED
    BY <1>1, <1>2, <1>3, <2>1, <2>2, <2>3, NotesStay, NextShape
<1> QED
  BY <1>5, <1>6, <1>7

LEMMA UnwrittenKept ==
    ASSUME ChartKept, NEW b \in Batches, Chart!HistoryLocked(b) \/ Chart!QuoteLocked(b) \/ Chart!NoQuote(b)
    PROVE  ChartKept'
<1> DEFINE s == batch[b]
<1>1. s \in Works /\ WorkKept(s) /\ s.item \in Charted
  BY AtItem DEF Chart!HistoryLocked, Chart!QuoteLocked, Chart!NoQuote
<1>2. Unbuilt /\ moves' \in Nat /\ UNCHANGED <<clock, failed, deadline>>
  BY MovesOn DEF Chart!HistoryLocked, Chart!QuoteLocked, Chart!NoQuote, Unbuilt, Chart!inputs, Chart!derived, Chart!saved,
     ChartKept, ChartTyped
<1>3. Around
  BY <1>2 DEF Around, ChartKept, ChartTyped, Chart!TypeOK
<1>4. CASE Chart!HistoryLocked(b)
  <2>1. PICK t \in Chart!Left(s) : Chart!Then(b, Chart!Failure(b, t))
    BY <1>4 DEF Chart!HistoryLocked
  <2>2. t \in Works /\ WorkKept(t) /\ t.item \in Charted
    BY <1>1, LeftKept DEF SameWork
  <2> DEFINE f == Chart!Failure(b, t)
  <2>3. f \in Works /\ SameNotes(t, f) /\ f.pc = "next"
    BY <2>2, FailureKept
  <2>4. Chart!Then(b, f) /\ alone' = alone \ {b}
    BY <1>4, <2>1 DEF Chart!HistoryLocked
  <2> HIDE DEF f
  <2> QED
    BY <1>2, <1>3, <2>2, <2>3, <2>4, FailedWrite
<1>5. CASE Chart!QuoteLocked(b)
  <2>1. PICK t \in Chart!Left(s) : Chart!Then(b, Chart!Refreshed(b, t))
    BY <1>5 DEF Chart!QuoteLocked
  <2>2. t \in Works /\ WorkKept(t) /\ t.item \in Charted
    BY <1>1, LeftKept DEF SameWork
  <2> DEFINE f == Chart!Refreshed(b, t)
  <2>3. f \in Works /\ SameNotes(t, f) /\ f.pc = "next"
    BY <2>2, RefreshedKept
  <2>4. Chart!Then(b, f) /\ alone' = alone \ {b}
    BY <1>5, <2>1 DEF Chart!QuoteLocked
  <2> HIDE DEF f
  <2> QED
    BY <1>2, <1>3, <2>2, <2>3, <2>4, FailedWrite
<1>6. CASE Chart!NoQuote(b)
  <2> DEFINE f == Chart!Refreshed(b, s)
  <2>1. f \in Works /\ SameNotes(s, f) /\ f.pc = "next"
    BY <1>1, RefreshedKept
  <2>2. Chart!Then(b, f) /\ alone' = alone
    BY <1>6 DEF Chart!NoQuote
  <2> HIDE DEF f
  <2> QED
    BY <1>2, <1>3, <2>1, <2>2, NotesStay, NextShape
<1> QED
  BY <1>4, <1>5, <1>6

LEMMA CloseKept ==
    ASSUME ChartKept, NEW b \in Batches, Chart!Close(b)
    PROVE  ChartKept'
<1> DEFINE t == [batch[b] EXCEPT !.pc = "rebuild"]
<1>1. batch[b] \in Works
  BY BatchTyped
<1>2. t \in Works /\ SameNotes(batch[b], t) /\ Shape(t)
  BY <1>1 DEF Works, SameNotes, Shape
<1>3. Chart!Then(b, t) /\ alone' = alone /\ Unbuilt /\ UNCHANGED <<clock, deadline, moves>>
      /\ failed' = (failed \cup batch[b].failures) \ batch[b].done
  BY DEF Chart!Close, Unbuilt, Chart!inputs, Chart!derived
<1>4. failed' \subseteq Charted
  BY <1>1, <1>3 DEF Works, ChartKept, ChartTyped, Chart!TypeOK
<1>5. Around
  BY <1>3, <1>4 DEF Around, ChartKept, ChartTyped, Chart!TypeOK
<1> HIDE DEF t
<1> QED
  BY <1>2, <1>3, <1>5, NotesStay

LEMMA RaiseKept ==
    ASSUME ChartKept, NEW b \in Batches, Chart!Raise(b)
    PROVE  ChartKept'
<1>1. Chart!Then(b, Chart!Off) /\ alone' = alone \ {b} /\ Unbuilt /\ UNCHANGED <<clock, deadline, failed>> /\ moves' \in Nat
  BY MovesOn DEF Chart!Raise, Unbuilt, Chart!inputs, Chart!derived, Chart!saved
<1>2. Around
  BY <1>1 DEF Around, ChartKept, ChartTyped, Chart!TypeOK
<1> QED
  BY <1>1, <1>2, OffKept, BatchGoesOn

LEMMA SurroundingsKept ==
    ASSUME ChartKept, (\E i \in Charted : Chart!Forget(i)) \/ Chart!Crash \/ Chart!Tick
    PROVE  ChartKept'
<1>1. Unbuilt /\ deadline' = deadline /\ failed' \subseteq failed
  BY DEF Chart!Forget, Chart!Crash, Chart!Tick, Unbuilt, Chart!inputs, Chart!derived, Chart!saved
<1>2. clock' \in 1 .. ChartTime /\ moves' \in Nat
  BY MovesOn, ChartBounds DEF Chart!Forget, Chart!Crash, Chart!Tick, ChartKept, ChartTyped, Chart!TypeOK
<1>3. Around
  BY <1>1, <1>2 DEF Around, ChartKept, ChartTyped, Chart!TypeOK
<1>4. \/ batch' = batch /\ alone' = alone
      \/ batch' = [b \in Batches |-> Chart!Off] /\ alone' = {}
  BY DEF Chart!Forget, Chart!Crash, Chart!Tick
<1>5. CASE batch' = batch /\ alone' = alone
  BY <1>1, <1>3, <1>5, UnbuiltKept DEF ChartKept, ChartTyped
<1>6. CASE batch' = [b \in Batches |-> Chart!Off] /\ alone' = {}
  <2>1. batch' \in [Batches -> Works] /\ \A b \in Batches : WorkKept(batch'[b])
    BY <1>6, OffKept
  <2> QED
    BY <1>1, <1>3, <1>6, <2>1, UnbuiltKept
<1> QED
  BY <1>4, <1>5, <1>6

\* A write of inputs: nothing that was built is current any more, nor any note
\* but those of the batch that wrote.
LEMMA WrittenKept ==
    ASSUME ChartKept, source' = source + 1, source' \in Revs, UNCHANGED <<metrics, receipt, lookup>>, Around,
           history' \in [Charted -> Chart!Fetches \cup {None}], points' \in [Charted -> Chart!Fetches \cup {None}],
           versions' \in [Charted -> SUBSET Chart!Fetches], priced' \in [ChartNames -> Revs],
           Chart!PointsNewest', PointsOnFile', batch' \in [Batches -> Works], alone' \subseteq Batches,
           \A c \in Batches : \/ batch'[c] = batch[c]
                              \/ Shape(batch'[c]) /\ Noted(batch[c])' /\ batch'[c].expected = source',
           \A c \in alone' : batch'[c].names # {} /\ batch'[c].complete /\ batch'[c].expected = source'
    PROVE  ChartKept'
<1>1. ChartTyped'
  BY StillTyped DEF ChartKept, ChartTyped, Around, Chart!TypeOK, Revs
<1>2. source \in Nat /\ receipt.revision \in Nat /\ receipt.revision <= source /\ lookup.revision = receipt.revision
  BY DEF ChartKept, ChartTyped, Chart!TypeOK, ReceiptsAgree
<1>3. receipt'.revision # source' /\ lookup'.revision # source' /\ receipt'.revision <= source'
  BY <1>2
<1>4. Chart!MetricsTrue' /\ ReceiptsAgree'
  BY <1>3 DEF ChartKept, Chart!MetricsTrue, ReceiptsAgree, Chart!Current, Chart!LookupCurrent
<1>5. ASSUME NEW c \in Batches PROVE WorkKept(batch[c])'
  <2>1. CASE batch'[c] = batch[c]
    <3> DEFINE s == batch[c]
    <3>1. s \in Works /\ WorkKept(s)
      BY BatchTyped
    <3>2. s.expected # None => s.expected <= source /\ s.expected \in -1 .. Revisions
      BY <3>1 DEF WorkKept, Dated, Works
    <3>3. source' # None
      BY ChartBounds DEF Revs
    <3> HIDE DEF s
    <3>4. s.expected # source' /\ (s.expected # None => s.expected <= source')
      BY <1>2, <3>2, <3>3
    <3>5. batch'[c] = s /\ Shape(s)
      BY <2>1, <3>1 DEF WorkKept, s
    <3> QED
      BY <3>4, <3>5 DEF WorkKept, Noted, Dated
  <2>2. CASE Shape(batch'[c]) /\ Noted(batch[c])' /\ batch'[c].expected = source'
    <3>1. source' <= source'
      BY DEF Revs
    <3> QED
      BY <2>2, <3>1 DEF WorkKept, Dated
  <2> QED
    BY <2>1, <2>2
<1>6. \A c \in alone' : AloneTrue(batch[c])'
  BY DEF AloneTrue
<1> QED
  BY <1>1, <1>4, <1>5, <1>6 DEF ChartKept

\* What a name's metrics are computed from changes with its price or its chart.
LEMMA MetricSame ==
    ASSUME NEW n \in ChartNames, n \in Charted => history'[n] = history[n], priced'[n] = priced[n]
    PROVE  Metric(n)' = Metric(n)
BY DEF Metric, Chart!Inputs

\* A batch writes inputs of one item, whose names are among those it will rebuild.
LEMMA BatchWrites ==
    ASSUME ChartKept, NEW b \in Batches, Chart!Written(batch[b]), NEW i \in Charted, NEW s \in Works,
           s.expected = source + 1, s.complete = Chart!Begun(batch[b]).complete, Shape(s),
           batch[b].names \cup Chart!Wrote(i) \subseteq s.names, Chart!Then(b, s), Chart!WroteAlone(b),
           UNCHANGED <<metrics, receipt, lookup>>, Around,
           history' \in [Charted -> Chart!Fetches \cup {None}], points' \in [Charted -> Chart!Fetches \cup {None}],
           versions' \in [Charted -> SUBSET Chart!Fetches], priced' \in [ChartNames -> Revs],
           Chart!PointsNewest', PointsOnFile',
           \A n \in ChartNames \ Chart!Wrote(i) : priced'[n] = priced[n] /\ (n \in Charted => history'[n] = history[n])
    PROVE  ChartKept'
<1> DEFINE u == Chart!Begun(batch[b])
<1>1. /\ batch' \in [Batches -> Works] /\ batch'[b] = s
      /\ \A c \in Batches \ {b} : batch'[c] = batch[c]
  BY DEF Chart!Then, ChartKept, ChartTyped
<1>2. source' = source + 1 /\ source' \in Revs /\ alone' = alone \cap {b} /\ alone \subseteq Batches
  BY SourceIs, ChartBounds DEF Chart!Written, Chart!WroteAlone, Revs, ChartKept, ChartTyped
<1>3. /\ u \in Works /\ WorkKept(u) /\ SameWork(batch[b], u) /\ u.expected = source
      /\ AloneTrue(batch[b]) => u.complete
  BY BatchTyped, BegunKept
<1>4. s.complete = u.complete
  OBVIOUS
<1> HIDE DEF u
<1>5. ASSUME s.complete, NEW n \in ChartNames \ s.names PROVE metrics'[n] = Metric(n)'
  <2>1. n \notin u.names /\ n \notin Chart!Wrote(i)
    BY <1>3, <1>5 DEF SameWork
  <2>2. metrics[n] = Metric(n)
    BY <1>3, <1>4, <1>5, <2>1 DEF WorkKept, Noted
  <2> QED
    BY <2>1, <2>2, MetricSame
<1>6. Noted(batch[b])'
  BY <1>1, <1>5 DEF Noted
<1>7. i \in s.names
  BY DEF Chart!Wrote
<1>8. ASSUME NEW c \in alone' PROVE batch'[c].names # {} /\ batch'[c].complete /\ batch'[c].expected = source'
  BY <1>1, <1>2, <1>3, <1>4, <1>7, <1>8 DEF ChartKept
<1>9. alone' \subseteq Batches
  BY <1>2
<1>10. ASSUME NEW c \in Batches
       PROVE  \/ batch'[c] = batch[c]
              \/ Shape(batch'[c]) /\ Noted(batch[c])' /\ batch'[c].expected = source'
  BY <1>1, <1>2, <1>6
<1> QED
  BY <1>1, <1>2, <1>8, <1>9, <1>10, WrittenKept

\* CatalogStore.save_point: the newest fetch is current, every version is kept.
LEMMA PointSaved ==
    ASSUME ChartKept, NEW i \in Charted, NEW got \in Chart!Fetches, history' = [history EXCEPT ![i] = got],
           points' = [points EXCEPT ![i] = Chart!Point(i, got)],
           versions' = [versions EXCEPT ![i] = Chart!Versions(i, got)]
    PROVE  /\ history' \in [Charted -> Chart!Fetches \cup {None}] /\ points' \in [Charted -> Chart!Fetches \cup {None}]
           /\ versions' \in [Charted -> SUBSET Chart!Fetches] /\ Chart!PointsNewest' /\ PointsOnFile'
<1>1. /\ history \in [Charted -> Chart!Fetches \cup {None}] /\ points \in [Charted -> Chart!Fetches \cup {None}]
      /\ versions \in [Charted -> SUBSET Chart!Fetches]
  BY DEF ChartKept, ChartTyped, Chart!TypeOK
<1> DEFINE point == Chart!Point(i, got)
           kept == Chart!Versions(i, got)
<1>2. \/ point = got /\ (points[i] = None \/ ~(points[i].at > got.at))
      \/ point = points[i] /\ points[i] # None /\ points[i].at > got.at
  BY DEF Chart!Point
<1>3. /\ history' = [history EXCEPT ![i] = got] /\ points' = [points EXCEPT ![i] = point]
      /\ versions' = [versions EXCEPT ![i] = kept]
  OBVIOUS
<1>4. kept = versions[i] \cup {got}
  BY DEF Chart!Versions
<1> HIDE DEF point, kept
<1>5. \A f \in Chart!Fetches : f.at \in Nat /\ f # None
  BY ChartBounds DEF Chart!Fetches
<1>6. /\ history' \in [Charted -> Chart!Fetches \cup {None}] /\ points' \in [Charted -> Chart!Fetches \cup {None}]
      /\ versions' \in [Charted -> SUBSET Chart!Fetches]
  BY <1>1, <1>2, <1>3, <1>4
<1>7. history'[i] = got /\ points'[i] = point /\ versions'[i] = kept
      /\ \A j \in Charted \ {i} : history'[j] = history[j] /\ points'[j] = points[j] /\ versions'[j] = versions[j]
  BY <1>1, <1>3
<1>8. points[i] # None => points[i] \in versions[i]
  BY DEF ChartKept, PointsOnFile
<1>9. versions[i] # {} => points[i] \in versions[i] /\ \A f \in versions[i] : f.at <= points[i].at
  BY DEF ChartKept, Chart!PointsNewest
<1>10. point \in kept
  BY <1>2, <1>4, <1>8
<1>11. ASSUME NEW f \in kept PROVE f.at <= point.at
  <2>1. CASE f = got
    BY <1>1, <1>2, <1>5, <2>1
  <2>2. CASE f \in versions[i]
    <3>1. points[i] \in Chart!Fetches /\ f \in Chart!Fetches /\ f.at <= points[i].at /\ points[i] # None
      BY <1>1, <1>5, <1>9, <2>2
    <3> QED
      BY <1>2, <1>5, <3>1
  <2> QED
    BY <1>4, <1>11, <2>1, <2>2
<1>12. ASSUME NEW j \in Charted
       PROVE  /\ history'[j] # None => history'[j] \in versions'[j]
              /\ versions'[j] # {} => points'[j] \in versions'[j] /\ \A f \in versions'[j] : f.at <= points'[j].at
              /\ points'[j] # None => points'[j] \in versions'[j]
  <2>1. CASE j = i
    BY <1>4, <1>7, <1>10, <1>11, <2>1
  <2>2. CASE j # i
    BY <1>7, <2>2 DEF ChartKept, Chart!PointsNewest, PointsOnFile
  <2> QED
    BY <2>1, <2>2
<1> QED
  BY <1>6, <1>12 DEF Chart!PointsNewest, PointsOnFile

\* finish_history_refresh_write
LEMMA FinishedKept ==
    ASSUME ChartKept, NEW s \in Works, WorkKept(s), source + 1 \in Revs
    PROVE  LET t == Chart!Finish(Chart!Begun(s))
           IN  /\ t \in Works /\ SameWork(s, t) /\ t.expected = source + 1
               /\ t.complete = Chart!Begun(s).complete
<1> DEFINE u == Chart!Begun(s)
           t == [u EXCEPT !.expected = source + 1]
<1>1. u \in Works /\ SameWork(s, u)
  BY BegunKept
<1>2. source + 1 \in (-1 .. Revisions) \cup {None}
  BY ChartBounds DEF Revs
<1> HIDE DEF u
<1>3. t \in Works /\ SameWork(u, t) /\ t.expected = source + 1 /\ t.complete = u.complete
  BY <1>1, <1>2 DEF Works, SameWork
<1>4. Chart!Finish(u) = t
  BY DEF Chart!Finish
<1> HIDE DEF t
<1>5. SameWork(s, t)
  BY <1>1, <1>3 DEF SameWork
<1> QED
  BY <1>3, <1>4, <1>5 DEF u

LEMMA SavedKept ==
    ASSUME ChartKept, NEW b \in Batches, Chart!SaveHistory(b)
    PROVE  ChartKept'
<1> DEFINE s == batch[b]
           i == s.item
           v == Chart!Finish(Chart!Begun(s))
           names == Chart!Recorded(s)
           w == [v EXCEPT !.pc = "saved"]
           t == [w EXCEPT !.names = names]
<1>1. s \in Works /\ WorkKept(s) /\ i \in Charted /\ s.got \in Chart!Fetches
  BY AtItem DEF Chart!SaveHistory, WorkKept, Shape
<1>2. Chart!Written(s) /\ source + 1 \in Revs
  BY SourceIs, ChartBounds DEF Chart!SaveHistory, Chart!Written, Revs
<1>3. v \in Works /\ SameWork(s, v) /\ v.expected = source + 1 /\ v.complete = Chart!Begun(s).complete
  BY <1>1, <1>2, FinishedKept
<1>4. names = s.names \cup Chart!Wrote(i) /\ names \subseteq ChartNames
  BY <1>1, WroteNames DEF Chart!Recorded, Works
<1>5. Chart!Then(b, t) /\ Chart!WroteAlone(b)
  BY DEF Chart!SaveHistory
<1>6. /\ history' = [history EXCEPT ![i] = s.got] /\ points' = [points EXCEPT ![i] = Chart!Point(i, s.got)]
      /\ versions' = [versions EXCEPT ![i] = Chart!Versions(i, s.got)]
      /\ UNCHANGED <<clock, priced, metrics, receipt, lookup, failed, deadline, moves>>
  BY DEF Chart!SaveHistory, Chart!derived, Chart!saved
<1> HIDE DEF v, names
<1>7. w \in Works /\ w.pc = "saved" /\ w.item = i /\ w.expected = source + 1 /\ w.complete = Chart!Begun(s).complete
  BY <1>3 DEF Works, SameWork
<1> HIDE DEF w
<1>8. t \in Works /\ t.pc = "saved" /\ t.item = i /\ t.names = names /\ t.expected = source + 1
      /\ t.complete = Chart!Begun(s).complete
  BY <1>4, <1>7 DEF Works
<1> HIDE DEF t
<1>9. Shape(t) /\ s.names \cup Chart!Wrote(i) \subseteq t.names
  BY <1>1, <1>4, <1>8 DEF Shape
<1>10. /\ history' \in [Charted -> Chart!Fetches \cup {None}] /\ points' \in [Charted -> Chart!Fetches \cup {None}]
       /\ versions' \in [Charted -> SUBSET Chart!Fetches] /\ Chart!PointsNewest' /\ PointsOnFile'
  BY <1>1, <1>6, PointSaved
<1>11. priced' \in [ChartNames -> Revs] /\ Around
  BY <1>6 DEF Around, Revs, ChartKept, ChartTyped, Chart!TypeOK
<1>12. \A n \in ChartNames \ Chart!Wrote(i) : priced'[n] = priced[n] /\ (n \in Charted => history'[n] = history[n])
  <2>1. history \in [Charted -> Chart!Fetches \cup {None}] /\ i \in Chart!Wrote(i)
    BY DEF ChartKept, ChartTyped, Chart!TypeOK, Chart!Wrote
  <2> QED
    BY <1>6, <2>1
<1> HIDE DEF i
<1> QED
  BY <1>1, <1>2, <1>5, <1>6, <1>8, <1>9, <1>10, <1>11, <1>12, BatchWrites

LEMMA QuotedKept ==
    ASSUME ChartKept, NEW b \in Batches, Chart!SaveQuote(b)
    PROVE  ChartKept'
<1> DEFINE s == batch[b]
           i == s.item
           v == Chart!Finish(Chart!Begun(s))
           t == Chart!Refreshed(b, v)
<1>1. s \in Works /\ WorkKept(s) /\ i \in Charted /\ Chart!Wrote(i) \subseteq s.names
  BY AtItem DEF Chart!SaveQuote, WorkKept, Shape
<1>2. Chart!Written(s) /\ source + 1 \in Revs
  BY SourceIs, ChartBounds DEF Chart!SaveQuote, Chart!Written, Revs
<1>3. v \in Works /\ SameWork(s, v) /\ v.expected = source + 1 /\ v.complete = Chart!Begun(s).complete
  BY <1>1, <1>2, FinishedKept
<1>4. Chart!Then(b, t) /\ Chart!WroteAlone(b)
  BY DEF Chart!SaveQuote
<1>5. /\ priced' = [n \in ChartNames |-> IF n \in Chart!Wrote(i) THEN source + 1 ELSE priced[n]]
      /\ UNCHANGED <<clock, history, points, versions, metrics, receipt, lookup, failed, deadline, moves>>
  BY DEF Chart!SaveQuote, Chart!derived, Chart!saved
<1> HIDE DEF v
<1>6. t \in Works /\ SameNotes(v, t) /\ t.pc = "next"
  BY <1>1, <1>3, RefreshedKept DEF SameWork
<1> HIDE DEF t
<1>7. t.expected = source + 1 /\ t.complete = Chart!Begun(s).complete /\ Shape(t)
      /\ s.names \cup Chart!Wrote(i) \subseteq t.names
  BY <1>1, <1>3, <1>6, NextShape DEF SameWork, SameNotes
<1>8. /\ history' \in [Charted -> Chart!Fetches \cup {None}] /\ points' \in [Charted -> Chart!Fetches \cup {None}]
      /\ versions' \in [Charted -> SUBSET Chart!Fetches] /\ priced \in [ChartNames -> Revs]
  BY <1>5 DEF ChartKept, ChartTyped, Chart!TypeOK, Revs
<1>9. Chart!PointsNewest' /\ PointsOnFile'
  BY <1>5 DEF ChartKept, Chart!PointsNewest, PointsOnFile
<1>10. priced' \in [ChartNames -> Revs]
  BY <1>2, <1>5, <1>8
<1>11. Around
  BY <1>5 DEF Around, ChartKept, ChartTyped, Chart!TypeOK
<1>12. \A n \in ChartNames \ Chart!Wrote(i) : priced'[n] = priced[n] /\ (n \in Charted => history'[n] = history[n])
  BY <1>5
<1> HIDE DEF i
<1> QED
  BY <1>1, <1>2, <1>4, <1>5, <1>6, <1>7, <1>8, <1>9, <1>10, <1>11, <1>12, BatchWrites

LEMMA RowsBuilt ==
    ASSUME NEW m, m = [n \in ChartNames |-> m[n]], \A n \in ChartNames : m[n] = Metric(n)
    PROVE  m = Chart!Inputs(history, priced)
<1>1. Chart!Inputs(history, priced) = [n \in ChartNames |-> Metric(n)]
  BY DEF Metric, Chart!Inputs
<1> QED
  BY <1>1

\* A transaction that rebuilds: its receipts are of the revision it leaves, and
\* metrics it calls complete are of the inputs of every name.
LEMMA RebuiltKept ==
    ASSUME ChartKept, NEW whole \in BOOLEAN, source' \in Revs, source <= source', Around,
           UNCHANGED <<history, points, versions>>, priced' \in [ChartNames -> Revs],
           metrics' = [n \in ChartNames |-> metrics'[n]],
           whole => \A n \in ChartNames : metrics'[n] = Metric(n)',
           receipt' = [complete |-> whole, revision |-> source'],
           lookup' = Chart!Looked(metrics', priced', receipt', source'),
           batch' \in [Batches -> Works], alone' = {},
           \A c \in Batches : Shape(batch'[c]) /\ Noted(batch[c])' /\ (batch'[c].expected # None => batch'[c].expected <= source)
    PROVE  ChartKept'
<1>1. receipt'.complete = whole /\ receipt'.revision = source'
  OBVIOUS
<1>2. lookup'.verified = (receipt'.complete /\ receipt'.revision = source') /\ lookup'.revision = source'
      /\ lookup'.rows = [n \in ChartNames |-> [metric |-> metrics'[n], quote |-> priced'[n]]]
  BY DEF Chart!Looked
<1>3. lookup'.verified = whole
  BY <1>1, <1>2
<1>4. ChartTyped'
  <2>1. receipt' \in [complete : BOOLEAN, revision : 0 .. Revisions]
    BY DEF Revs
  <2>2. lookup'.verified \in BOOLEAN /\ lookup'.revision \in 0 .. Revisions
    BY <1>2, <1>3 DEF Revs
  <2> QED
    BY <2>1, <2>2, StillTyped DEF ChartKept, ChartTyped, Around, Chart!TypeOK, Revs
<1>5. ReceiptsAgree'
  <2>1. source' <= source'
    BY DEF Revs
  <2> QED
    BY <1>1, <1>2, <1>3, <2>1 DEF ReceiptsAgree
<1>6. Chart!MetricsTrue'
  <2>1. whole => metrics' = Chart!Inputs(history', priced')
    <3>1. Chart!Inputs(history', priced') = [n \in ChartNames |-> Metric(n)']
      BY DEF Metric, Chart!Inputs
    <3> QED
      BY <3>1
  <2>2. whole => lookup'.rows = [n \in ChartNames |-> [metric |-> Chart!Inputs(history', priced')[n], quote |-> priced'[n]]]
    BY <1>2, <2>1
  <2> QED
    BY <1>1, <1>3, <2>1, <2>2 DEF Chart!MetricsTrue, Chart!Current, Chart!LookupCurrent
<1>7. Chart!PointsNewest' /\ PointsOnFile'
  BY DEF ChartKept, Chart!PointsNewest, PointsOnFile
<1>8. ASSUME NEW c \in Batches PROVE WorkKept(batch[c])'
  <2>1. batch'[c] \in Works /\ source \in Nat /\ source' \in Nat
    BY SourceIs DEF Revs
  <2>2. batch'[c].expected # None => batch'[c].expected \in -1 .. Revisions
    BY <2>1 DEF Works
  <2>3. batch'[c].expected # None => batch'[c].expected <= source'
    BY <2>1, <2>2
  <2> QED
    BY <2>3 DEF WorkKept, Dated
<1>9. \A c \in alone' : AloneTrue(batch[c])'
  OBVIOUS
<1> QED
  BY <1>4, <1>5, <1>6, <1>7, <1>8, <1>9 DEF ChartKept

LEMMA RebuildKept ==
    ASSUME ChartKept, NEW b \in Batches, Chart!Rebuild(b)
    PROVE  ChartKept'
<1> DEFINE s == Chart!Begun(batch[b])
<1>1. /\ s \in Works /\ WorkKept(s) /\ SameWork(batch[b], s) /\ s.expected = source
  BY BatchTyped, BegunKept
<1>2. Chart!Then(b, Chart!Off) /\ UNCHANGED <<clock, history, priced, points, versions, source, failed, deadline, moves>>
  BY DEF Chart!Rebuild, Chart!inputs, Chart!saved
<1>3. Around
  BY <1>2 DEF Around, ChartKept, ChartTyped, Chart!TypeOK
<1>4. CASE s.names = {}
  <2>1. Unbuilt /\ alone' = alone \ {b}
    BY <1>2, <1>4 DEF Chart!Rebuild, Unbuilt, Chart!derived
  <2> QED
    BY <1>2, <1>3, <2>1, OffKept, BatchGoesOn
<1>5. CASE s.names # {}
  <2>1. /\ metrics' = [n \in ChartNames |-> IF n \in s.names THEN Metric(n) ELSE metrics[n]]
        /\ receipt' = [complete |-> s.complete, revision |-> source]
        /\ lookup' = Chart!Looked(metrics', priced, receipt', source) /\ alone' = {}
    BY <1>5 DEF Chart!Rebuild, Metric
  <2> HIDE DEF s
  <2>2. \A n \in ChartNames : Metric(n)' = Metric(n)
    BY <1>2, MetricSame
  <2>3. s.complete \in BOOLEAN
    BY <1>1 DEF Works
  <2>4. s.complete => \A n \in ChartNames : metrics'[n] = Metric(n)'
    BY <1>1, <2>1, <2>2 DEF WorkKept, Noted
  <2>5. batch' \in [Batches -> Works] /\ batch'[b] = Chart!Off /\ \A c \in Batches \ {b} : batch'[c] = batch[c]
    BY <1>2, OffKept DEF Chart!Then, ChartKept, ChartTyped
  <2>6. ASSUME NEW c \in Batches
        PROVE  Shape(batch'[c]) /\ Noted(batch[c])' /\ (batch'[c].expected # None => batch'[c].expected <= source)
    <3>1. WorkKept(batch'[c])
      BY <2>5, OffKept DEF ChartKept
    <3>2. ASSUME NEW n \in ChartNames, metrics[n] = Metric(n) PROVE metrics'[n] = Metric(n)'
      BY <2>1, <2>2, <3>2
    <3>3. Noted(batch[c])'
      BY <1>2, <3>1, <3>2 DEF WorkKept, Noted
    <3> QED
      BY <3>1, <3>3 DEF WorkKept, Dated
  <2>7. source' = source /\ source' \in Revs /\ source <= source' /\ priced' = priced /\ priced' \in [ChartNames -> Revs]
        /\ UNCHANGED <<history, points, versions>>
    BY <1>2, SourceIs DEF ChartKept, ChartTyped, Chart!TypeOK, Revs
  <2>8. metrics' = [n \in ChartNames |-> metrics'[n]]
    BY <2>1
  <2>9. receipt' = [complete |-> s.complete, revision |-> source']
        /\ lookup' = Chart!Looked(metrics', priced', receipt', source')
    BY <2>1, <2>7
  <2> QED
    BY <1>3, <2>1, <2>3, <2>4, <2>5, <2>6, <2>7, <2>8, <2>9, RebuiltKept
<1> QED
  BY <1>4, <1>5

LEMMA PriceKept ==
    ASSUME ChartKept, NEW n \in ChartNames, Chart!Price(n)
    PROVE  ChartKept'
<1>1. /\ source' = source + 1 /\ source' \in Revs /\ alone' = {} /\ moves' \in Nat
      /\ UNCHANGED <<clock, history, points, versions, metrics, receipt, lookup, failed, deadline, batch>>
      /\ priced' = [m \in ChartNames |-> IF m \in {n} THEN source + 1 ELSE priced[m]]
  BY SourceIs, ChartBounds, MovesOn DEF Chart!Price, Chart!Priced, Chart!derived, Chart!saved, Revs
<1>2. /\ history' \in [Charted -> Chart!Fetches \cup {None}] /\ points' \in [Charted -> Chart!Fetches \cup {None}]
      /\ versions' \in [Charted -> SUBSET Chart!Fetches] /\ priced \in [ChartNames -> Revs]
      /\ batch' \in [Batches -> Works]
  BY <1>1 DEF ChartKept, ChartTyped, Chart!TypeOK, Revs
<1>3. priced' \in [ChartNames -> Revs]
  BY <1>1, <1>2
<1>4. Chart!PointsNewest' /\ PointsOnFile'
  BY <1>1 DEF ChartKept, Chart!PointsNewest, PointsOnFile
<1>5. Around
  BY <1>1 DEF Around, ChartKept, ChartTyped, Chart!TypeOK
<1> QED
  BY <1>1, <1>2, <1>3, <1>4, <1>5, WrittenKept

LEMMA SyncKept ==
    ASSUME ChartKept, NEW some \in SUBSET ChartNames, Chart!Sync(some)
    PROVE  ChartKept'
<1>1. /\ source < Revisions /\ source' = IF some = {} THEN source ELSE source + 1
      /\ alone' = {} /\ moves' \in Nat
      /\ UNCHANGED <<clock, history, points, versions, failed, deadline, batch>>
      /\ priced' = [m \in ChartNames |-> IF m \in some THEN source + 1 ELSE priced[m]]
      /\ metrics' = Chart!Inputs(history, priced') /\ receipt' = [complete |-> TRUE, revision |-> source']
      /\ lookup' = Chart!Looked(metrics', priced', receipt', source')
  BY MovesOn DEF Chart!Sync, Chart!Priced, Chart!saved
<1>2. source' \in Revs /\ source + 1 \in Revs /\ source <= source'
  BY <1>1, SourceIs, ChartBounds DEF Revs
<1>3. priced \in [ChartNames -> Revs] /\ batch' \in [Batches -> Works]
  BY <1>1 DEF ChartKept, ChartTyped, Chart!TypeOK, Revs
<1>4. priced' \in [ChartNames -> Revs]
  BY <1>1, <1>2, <1>3
<1>5. Around
  BY <1>1 DEF Around, ChartKept, ChartTyped, Chart!TypeOK
<1>6. metrics' = [n \in ChartNames |-> metrics'[n]]
  BY <1>1 DEF Chart!Inputs
<1>7. \A n \in ChartNames : metrics'[n] = Metric(n)'
  BY <1>1 DEF Metric
<1>8. ASSUME NEW c \in Batches
      PROVE  Shape(batch'[c]) /\ Noted(batch[c])' /\ (batch'[c].expected # None => batch'[c].expected <= source)
  <2>1. WorkKept(batch[c]) /\ batch' = batch
    BY <1>1 DEF ChartKept
  <2> QED
    BY <1>7, <2>1 DEF WorkKept, Noted, Dated
<1> DEFINE whole == TRUE
<1>9. whole \in BOOLEAN /\ receipt' = [complete |-> whole, revision |-> source']
      /\ (whole => \A n \in ChartNames : metrics'[n] = Metric(n)')
  BY <1>1, <1>7
<1>10. UNCHANGED <<history, points, versions>> /\ lookup' = Chart!Looked(metrics', priced', receipt', source') /\ alone' = {}
  BY <1>1
<1> HIDE DEF whole
<1> QED
  BY <1>2, <1>3, <1>4, <1>5, <1>6, <1>8, <1>9, <1>10, RebuiltKept

LEMMA ChartsStep == ChartKept /\ [Chart!Next]_(Chart!vars) => ChartKept'
<1> SUFFICES ASSUME ChartKept, [Chart!Next]_(Chart!vars) PROVE ChartKept'
  OBVIOUS
<1>1. CASE UNCHANGED Chart!vars
  <2>1. Unbuilt /\ UNCHANGED <<clock, failed, deadline, batch, alone, moves>>
    BY <1>1 DEF Chart!vars, Unbuilt
  <2>2. Around
    BY <2>1 DEF Around, ChartKept, ChartTyped, Chart!TypeOK
  <2> QED
    BY <2>1, <2>2, UnbuiltKept DEF ChartKept, ChartTyped
<1>2. ASSUME NEW b \in Batches,
             \/ Chart!Start(b) \/ Chart!Ask(b) \/ Chart!Chart(b) \/ Chart!NoChart(b) \/ Chart!Limited(b) \/ Chart!Deferred(b)
             \/ Chart!SaveHistory(b) \/ Chart!HistoryLocked(b) \/ Chart!SaveQuote(b) \/ Chart!NoQuote(b)
             \/ Chart!QuoteLocked(b) \/ Chart!Close(b) \/ Chart!Rebuild(b) \/ Chart!Raise(b)
      PROVE  ChartKept'
  BY <1>2, StartKept, AskKept, ChartFetched, UnansweredKept, SavedKept, QuotedKept, UnwrittenKept, CloseKept, RebuildKept,
     RaiseKept
<1>3. ASSUME NEW n \in ChartNames, Chart!Price(n) PROVE ChartKept'
  BY <1>3, PriceKept
<1>4. ASSUME NEW some \in SUBSET ChartNames, Chart!Sync(some) PROVE ChartKept'
  BY <1>4, SyncKept
<1>5. CASE (\E i \in Charted : Chart!Forget(i)) \/ Chart!Crash \/ Chart!Tick
  BY <1>5, SurroundingsKept
<1> QED
  BY <1>1, <1>2, <1>3, <1>4, <1>5 DEF Chart!Next

LEMMA ChartsHold == Chart!Spec => []ChartKept
BY ChartsInit, ChartsStep, PTL DEF Chart!Spec

(***************************************************************************)
(* HistoryInv of every behaviour: metrics and lookups whose receipts say   *)
(* so are those of the inputs saved, of every name, although each batch    *)
(* rebuilds only the names it wrote, and the newest fetch of a chart stays *)
(* current (rebuild_metrics_for_names, CatalogStore.save_point).           *)
(***************************************************************************)
THEOREM HistoryHolds == Chart!Spec => []HistoryInv
<1>1. ChartKept => HistoryInv
  BY DEF ChartKept, ChartTyped, HistoryInv, Chart!HistoryInv
<1> QED
  BY <1>1, ChartsHold, PTL

LEMMA AloneEnds ==
    ASSUME ChartKept, [Chart!Next]_(Chart!vars), NEW b \in Batches,
           batch[b].pc = "rebuild", batch'[b].pc = "off", moves' = moves, b \in alone
    PROVE  Chart!Current' /\ Chart!LookupCurrent'
<1>1. batch \in [Batches -> Works] /\ moves \in Nat /\ AloneTrue(batch[b]) /\ ReceiptsAgree
  BY DEF ChartKept, ChartTyped
<1>2. Chart!Rebuild(b)
  <2>1. ~Chart!Move
    BY <1>1 DEF Chart!Move
  <2>2. batch'[b] # batch[b]
    OBVIOUS
  <2>3. ASSUME NEW c \in Batches, NEW s, Chart!Then(c, s) PROVE c = b
    BY <1>1, <2>2, <2>3 DEF Chart!Then
  <2>4. ASSUME NEW c \in Batches, Chart!Start(c) PROVE FALSE
    BY <1>1, <2>2, <2>4 DEF Chart!Start
  <2>5. ASSUME NEW c \in Batches,
               \/ Chart!Ask(c) \/ Chart!Chart(c) \/ Chart!SaveHistory(c) \/ Chart!SaveQuote(c) \/ Chart!NoQuote(c) \/ Chart!Close(c)
        PROVE  FALSE
    <3>1. \E s : Chart!Then(c, s)
      BY <2>5 DEF Chart!Ask, Chart!Chart, Chart!SaveHistory, Chart!SaveQuote, Chart!NoQuote, Chart!Close
    <3>2. c = b
      BY <2>3, <3>1
    <3>3. Chart!Close(b)
      BY <2>5, <3>2 DEF Chart!Ask, Chart!Chart, Chart!SaveHistory, Chart!SaveQuote, Chart!NoQuote
    <3>4. batch'[b].pc = "rebuild"
      BY <1>1, <3>3 DEF Chart!Close, Chart!Then
    <3> QED
      BY <3>4
  <2>6. ASSUME NEW c \in Batches,
               \/ Chart!NoChart(c) \/ Chart!Limited(c) \/ Chart!Deferred(c) \/ Chart!HistoryLocked(c) \/ Chart!QuoteLocked(c)
               \/ Chart!Raise(c)
        PROVE  FALSE
    BY <2>1, <2>6 DEF Chart!NoChart, Chart!Limited, Chart!Deferred, Chart!HistoryLocked, Chart!QuoteLocked, Chart!Raise
  <2>7. ASSUME \/ \E n \in ChartNames : Chart!Price(n)
               \/ \E some \in SUBSET ChartNames : Chart!Sync(some)
               \/ \E i \in Charted : Chart!Forget(i)
               \/ Chart!Crash \/ Chart!Tick \/ UNCHANGED Chart!vars
        PROVE  FALSE
    BY <2>1, <2>2, <2>7 DEF Chart!Price, Chart!Sync, Chart!Forget, Chart!Crash, Chart!Tick, Chart!vars
  <2>8. ASSUME NEW c \in Batches, Chart!Rebuild(c) PROVE Chart!Rebuild(b)
    BY <2>3, <2>8 DEF Chart!Rebuild
  <2> QED
    BY <2>4, <2>5, <2>6, <2>7, <2>8 DEF Chart!Next
<1> DEFINE s == Chart!Begun(batch[b])
<1>3. s.names = batch[b].names /\ s.complete
  BY <1>1, BatchTyped, BegunKept DEF SameWork
<1>4. source' = source /\ source \in Nat
  BY <1>2, SourceIs DEF Chart!Rebuild, Chart!inputs
<1>5. CASE s.names = {}
  <2>1. UNCHANGED <<receipt, lookup>>
    BY <1>2, <1>5 DEF Chart!Rebuild, Chart!derived
  <2>2. Chart!Current
    BY <1>1, <1>3, <1>5 DEF AloneTrue
  <2>3. receipt.complete /\ receipt.revision = source /\ lookup.verified = receipt.complete /\ lookup.revision = receipt.revision
    BY <1>1, <2>2 DEF Chart!Current, ReceiptsAgree
  <2> QED
    BY <1>4, <2>1, <2>3 DEF Chart!Current, Chart!LookupCurrent
<1>6. CASE s.names # {}
  <2>1. receipt' = [complete |-> s.complete, revision |-> source] /\ lookup' = Chart!Looked(metrics', priced, receipt', source)
    BY <1>2, <1>6 DEF Chart!Rebuild
  <2>2. receipt'.complete /\ receipt'.revision = source
    BY <1>3, <2>1
  <2>3. lookup'.verified = (receipt'.complete /\ receipt'.revision = source) /\ lookup'.revision = source
    BY <2>1 DEF Chart!Looked
  <2> QED
    BY <1>4, <2>2, <2>3 DEF Chart!Current, Chart!LookupCurrent
<1> QED
  BY <1>5, <1>6

(***************************************************************************)
(* KeptCurrent of every behaviour: a batch that met current metrics, was   *)
(* the only writer and had no transaction fail leaves metrics and lookup   *)
(* current (finish_history_refresh_write, rebuild_metrics_for_names).      *)
(***************************************************************************)
THEOREM AloneStaysCurrent == Chart!Spec => KeptCurrent
<1>1. ChartKept /\ [Chart!Next]_(Chart!vars) =>
        [\A b \in Batches : batch[b].pc = "rebuild" /\ batch'[b].pc = "off" /\ moves' = moves /\ b \in alone
                              => Chart!Current' /\ Chart!LookupCurrent']_(Chart!vars)
  BY AloneEnds
<1> QED
  BY <1>1, ChartsHold, PTL DEF Chart!Spec, KeptCurrent, Chart!KeptCurrent

-----------------------------------------------------------------------------
(***************************************************************************)
(* The store of cash facts.  A subject's own capture is never later than   *)
(* the head, so the capture a complete response advances is the later one  *)
(* for every name, the rewritten and the untouched.                        *)
(***************************************************************************)
CashKept ==
    /\ Cash!FactsInv
    /\ top = [latest |-> top.latest, full |-> top.full, rows |-> top.rows, names |-> top.names]
    /\ \A n \in Names : /\ facts[n].scoped <= top.latest
                        /\ facts[n].outcome = None => facts[n].scoped = 0

LEMMA CashBounds == /\ MaxTime \in Nat \ {0} /\ None \notin Outcomes /\ None # Cash!Missing
                    /\ \A o \in Outcomes \cup {Cash!Missing} : Cash!Semantic(o) # None
BY LedgersAssumption DEF LedgersAssumption, Cash!FactsAssumption, Cash!Missing, Cash!Semantic

LEMMA CashInit == Cash!Init => CashKept
<1> SUFFICES ASSUME Cash!Init PROVE CashKept
  OBVIOUS
<1>1. \A n \in Names : facts[n] = [outcome |-> None, scoped |-> 0] /\ changes[n] = <<>>
  BY DEF Cash!Init, Cash!Unknown
<1>2. top.latest = 0 /\ top.full = 0
      /\ top = [latest |-> top.latest, full |-> top.full, rows |-> top.rows, names |-> top.names]
  BY DEF Cash!Init
<1>3. Cash!TypeOK
  BY <1>2, CashBounds DEF Cash!Init, Cash!TypeOK, Cash!Unknown
<1>4. \A n \in Names : n \notin Cash!Known /\ Len(changes[n]) = 0
  BY <1>1 DEF Cash!Known, Cash!Unknown
<1> QED
  BY <1>1, <1>2, <1>3, <1>4 DEF CashKept, Cash!FactsInv

Outs == Outcomes \cup {Cash!Missing}
CashFact == [outcome : Outs \cup {None}, scoped : 0 .. MaxTime]

LEMMA CashTyped == CashKept => /\ facts \in [Names -> CashFact] /\ changes \in [Names -> Seq(Outs)]
                               /\ top.latest \in 0 .. MaxTime /\ top.full \in 0 .. MaxTime /\ top.full <= top.latest
                               /\ reading \in 0 .. MaxTime
BY DEF CashKept, Cash!FactsInv, Cash!TypeOK, CashFact, Outs

LEMMA KnownIs == ASSUME CashKept, NEW n \in Names PROVE (n \in Cash!Known) = (facts[n].outcome # None)
<1>1. facts[n] \in CashFact /\ (facts[n].outcome = None => facts[n].scoped = 0)
  BY CashTyped DEF CashKept
<1>2. facts[n] = Cash!Unknown <=> facts[n].outcome = None
  BY <1>1 DEF CashFact, Cash!Unknown
<1> QED
  BY <1>2 DEF Cash!Known

\* What an answer says, and what a complete one says of the names it lacks.
LEMMA SaidTyped ==
    ASSUME NEW requested \in SUBSET Names, NEW feed \in Cash!Answers, NEW transported \in BOOLEAN
    PROVE  LET said == Cash!Said(requested, feed, transported)
           IN  /\ said = [n \in DOMAIN said |-> said[n]] /\ DOMAIN said \subseteq Names
               /\ \A n \in DOMAIN said : said[n] \in Outs
<1> DEFINE said == Cash!Said(requested, feed, transported)
<1>1. DOMAIN feed \subseteq Names /\ \A n \in DOMAIN feed : feed[n] \in Outcomes
  BY DEF Cash!Answers
<1>2. /\ said = [n \in DOMAIN said |-> said[n]]
      /\ DOMAIN said = requested \cup (IF transported THEN DOMAIN feed ELSE {})
      /\ \A n \in DOMAIN said : said[n] = IF n \in DOMAIN feed THEN feed[n] ELSE Cash!Missing
  BY DEF Cash!Said
<1> HIDE DEF said
<1> QED
  BY <1>1, <1>2 DEF Outs, said

LEMMA ClassifiedIs ==
    ASSUME NEW said, NEW whole \in BOOLEAN, DOMAIN said \subseteq Names, \A n \in DOMAIN said : said[n] \in Outs
    PROVE  LET c == Cash!Classified(said, whole)
           IN  /\ \A n \in DOMAIN said : n \in DOMAIN c /\ c[n] = said[n]
               /\ \A n \in Names \ DOMAIN said : /\ (n \in DOMAIN c) = (whole /\ n \in Cash!Known)
                                                 /\ n \in DOMAIN c => c[n] = Cash!Missing
               /\ \A n \in DOMAIN c : c[n] \in Outs
<1> DEFINE c == Cash!Classified(said, whole)
<1>1. /\ DOMAIN c = DOMAIN said \cup (IF whole THEN Cash!Known ELSE {})
      /\ \A n \in DOMAIN c : c[n] = IF n \in DOMAIN said THEN said[n] ELSE Cash!Missing
  BY DEF Cash!Classified
<1> HIDE DEF c
<1> QED
  BY <1>1 DEF Outs, c

\* A fact after what was said of it: the common head or its own capture dates it.
LEMMA FactIs ==
    ASSUME NEW old \in CashFact, NEW outcome \in Outs, NEW whole \in BOOLEAN, NEW at \in 0 .. MaxTime
    PROVE  LET new == Cash!FactAfter(old, outcome, whole, at)
           IN  /\ new \in CashFact /\ new.outcome = outcome
               /\ ~whole => new.scoped = at
               /\ whole => new.scoped \in {0, old.scoped}
BY CashBounds DEF Cash!FactAfter, CashFact, Outs

LEMMA NewsIs ==
    ASSUME NEW old, NEW outcome
    PROVE  /\ Cash!News(old, outcome) => Cash!Semantic(old.outcome) # Cash!Semantic(outcome)
           /\ ~Cash!News(old, outcome) => Cash!Semantic(old.outcome) = Cash!Semantic(outcome)
BY DEF Cash!News

\* One name's log of changes.
LogKept(fact, log) ==
    /\ (fact.outcome # None) = (log # <<>>)
    /\ fact.outcome # None => Cash!Semantic(log[Len(log)]) = Cash!Semantic(fact.outcome)
    /\ \A i \in 1 .. Len(log) - 1 : Cash!Semantic(log[i]) # Cash!Semantic(log[i + 1])

LEMMA LogsKept == ASSUME CashKept, NEW n \in Names PROVE LogKept(facts[n], changes[n])
BY KnownIs DEF CashKept, Cash!FactsInv, LogKept

LEMMA LogGrows ==
    ASSUME NEW old \in CashFact, NEW log \in Seq(Outs), LogKept(old, log), NEW outcome \in Outs,
           NEW new \in CashFact, new.outcome = outcome
    PROVE  LET longer == IF Cash!News(old, outcome) THEN Append(log, outcome) ELSE log
           IN  longer \in Seq(Outs) /\ LogKept(new, longer)
<1>1. outcome # None /\ Cash!Semantic(outcome) # None /\ Cash!Semantic(None) = None
  BY CashBounds DEF Outs, Cash!Semantic
<1>2. Len(log) \in Nat /\ \A i \in 1 .. Len(log) : log[i] \in Outs
  OBVIOUS
<1>3. CASE Cash!News(old, outcome)
  <2> DEFINE longer == Append(log, outcome)
  <2>1. /\ longer \in Seq(Outs) /\ Len(longer) = Len(log) + 1 /\ longer[Len(longer)] = outcome
        /\ longer # <<>> /\ \A i \in 1 .. Len(log) : longer[i] = log[i]
    OBVIOUS
  <2>2. Cash!Semantic(old.outcome) # Cash!Semantic(outcome)
    BY <1>3, NewsIs
  <2> HIDE DEF longer
  <2>3. ASSUME NEW i \in 1 .. Len(longer) - 1 PROVE Cash!Semantic(longer[i]) # Cash!Semantic(longer[i + 1])
    <3>1. CASE i = Len(log)
      <4>1. log # <<>> /\ longer[i] = log[Len(log)] /\ longer[i + 1] = outcome
        BY <1>2, <2>1, <3>1
      <4>2. Cash!Semantic(log[Len(log)]) = Cash!Semantic(old.outcome)
        BY <4>1 DEF LogKept
      <4> QED
        BY <2>2, <4>1, <4>2
    <3>2. CASE i # Len(log)
      <4>1. i \in 1 .. Len(log) - 1 /\ longer[i] = log[i] /\ longer[i + 1] = log[i + 1]
        BY <1>2, <2>1, <2>3, <3>2
      <4> QED
        BY <4>1 DEF LogKept
    <3> QED
      BY <3>1, <3>2
  <2>4. LogKept(new, longer)
    BY <1>1, <2>1, <2>3 DEF LogKept
  <2> QED
    BY <1>3, <2>1, <2>4 DEF longer
<1>4. CASE ~Cash!News(old, outcome)
  <2>1. Cash!Semantic(old.outcome) = Cash!Semantic(outcome)
    BY <1>4, NewsIs
  <2>2. old.outcome # None
    BY <1>1, <2>1
  <2>3. LogKept(new, log)
    BY <1>1, <2>1, <2>2 DEF LogKept
  <2> QED
    BY <1>4, <2>3
<1> QED
  BY <1>3, <1>4

\* What a capture leaves of one name.
NameAfter(n, said, whole, at) ==
    /\ facts'[n] \in CashFact /\ changes'[n] \in Seq(Outs) /\ LogKept(facts'[n], changes'[n])
    /\ facts'[n].scoped <= at /\ (facts'[n].outcome = None => facts'[n].scoped = 0)
    /\ n \in DOMAIN said => facts'[n].outcome = said[n] /\ (~whole => facts'[n].scoped = at)
    /\ n \notin DOMAIN said /\ whole /\ facts[n].outcome # None => facts'[n].outcome = Cash!Missing
    /\ n \notin DOMAIN said /\ ~(whole /\ facts[n].outcome # None) => facts'[n] = facts[n]

LEMMA NameIs ==
    ASSUME CashKept, NEW n \in Names, NEW said, NEW whole \in BOOLEAN, DOMAIN said \subseteq Names,
           \A m \in DOMAIN said : said[m] \in Outs, NEW at \in 0 .. MaxTime, top.latest < at,
           NEW counts, Cash!Ingest(said, whole, at, counts)
    PROVE  NameAfter(n, said, whole, at)
<1> DEFINE c == Cash!Classified(said, whole)
           old == facts[n]
<1>1. /\ facts'[n] = IF n \in DOMAIN c THEN Cash!FactAfter(old, c[n], whole, at) ELSE old
      /\ changes'[n] = IF n \in DOMAIN c /\ Cash!News(old, c[n]) THEN Append(changes[n], c[n]) ELSE changes[n]
  BY DEF Cash!Ingest
<1>2. /\ n \in DOMAIN said => n \in DOMAIN c /\ c[n] = said[n]
      /\ n \notin DOMAIN said => /\ (n \in DOMAIN c) = (whole /\ n \in Cash!Known)
                                 /\ n \in DOMAIN c => c[n] = Cash!Missing
      /\ n \in DOMAIN c => c[n] \in Outs
  BY ClassifiedIs
<1>3. /\ old \in CashFact /\ changes[n] \in Seq(Outs) /\ LogKept(old, changes[n]) /\ top.latest \in 0 .. MaxTime
      /\ old.scoped <= top.latest /\ (old.outcome = None => old.scoped = 0)
      /\ (n \in Cash!Known) = (old.outcome # None)
  BY CashTyped, LogsKept, KnownIs DEF CashKept
<1> HIDE DEF c, old
<1>4. CASE n \in DOMAIN c
  <2> DEFINE new == Cash!FactAfter(old, c[n], whole, at)
             log == IF Cash!News(old, c[n]) THEN Append(changes[n], c[n]) ELSE changes[n]
  <2>1. c[n] \in Outs
    BY <1>2, <1>4
  <2>2. /\ new \in CashFact /\ new.outcome = c[n] /\ (~whole => new.scoped = at)
        /\ (whole => new.scoped \in {0, old.scoped})
    BY <1>3, <2>1, FactIs
  <2>3. facts'[n] = new /\ changes'[n] = log
    BY <1>1, <1>4
  <2> HIDE DEF new
  <2>4. log \in Seq(Outs) /\ LogKept(new, log)
    BY <1>3, <2>1, <2>2, LogGrows
  <2> HIDE DEF log
  <2>5. new.scoped <= at
    BY <1>3, <2>2 DEF CashFact
  <2>6. new.outcome # None
    BY <2>1, <2>2, CashBounds DEF Outs
  <2> QED
    BY <1>2, <1>3, <1>4, <2>2, <2>3, <2>4, <2>5, <2>6 DEF NameAfter, old
<1>5. CASE n \notin DOMAIN c
  <2>1. facts'[n] = old /\ changes'[n] = changes[n] /\ n \notin DOMAIN said /\ ~(whole /\ old.outcome # None)
    BY <1>1, <1>2, <1>3, <1>5
  <2>2. old.scoped <= at
    BY <1>3 DEF CashFact
  <2> QED
    BY <1>3, <2>1, <2>2 DEF NameAfter, old
<1> QED
  BY <1>4, <1>5

LEMMA HeadAfter ==
    ASSUME CashKept, NEW said, NEW whole \in BOOLEAN, NEW at, NEW counts, Cash!Ingest(said, whole, at, counts)
    PROVE  /\ top' = [latest |-> top'.latest, full |-> top'.full, rows |-> top'.rows, names |-> top'.names]
           /\ top'.latest = at /\ top'.full = IF whole THEN at ELSE top.full
<1>1. CASE whole
  BY <1>1 DEF Cash!Ingest
<1>2. CASE ~whole
  <2>1. top' = [top EXCEPT !.latest = at]
    BY <1>2 DEF Cash!Ingest
  <2>2. top = [latest |-> top.latest, full |-> top.full, rows |-> top.rows, names |-> top.names]
    BY DEF CashKept
  <2> QED
    BY <1>2, <2>1, <2>2
<1> QED
  BY <1>1, <1>2

\* A capture, as far as the store is concerned.
Captures(said, whole) ==
    /\ top.latest < reading /\ DOMAIN said \subseteq Names /\ \A n \in DOMAIN said : said[n] \in Outs
    /\ \E counts : Cash!Ingest(said, whole, reading, counts)
    /\ last' = [whole |-> whole, said |-> said] /\ reading' = reading

LEMMA CaptureIs ==
    ASSUME NEW requested \in SUBSET Names, NEW feed \in Cash!Answers, NEW transported \in BOOLEAN,
           Cash!Capture(requested, feed, transported)
    PROVE  \E said, whole : whole \in BOOLEAN /\ Captures(said, whole)
<1> DEFINE said == Cash!Said(requested, feed, transported)
           whole == Cash!Admitted(feed, transported)
           counts == [rows |-> Cash!Rows(feed), names |-> Cash!Cardinality(DOMAIN feed)]
<1>1. DOMAIN said \subseteq Names /\ \A n \in DOMAIN said : said[n] \in Outs
  BY SaidTyped
<1>2. whole \in BOOLEAN
  BY DEF Cash!Admitted
<1>3. top.latest < reading /\ Cash!Ingest(said, whole, reading, counts) /\ last' = [whole |-> whole, said |-> said]
      /\ reading' = reading
  BY DEF Cash!Capture
<1> HIDE DEF said, whole, counts
<1> QED
  BY <1>1, <1>2, <1>3 DEF Captures

LEMMA CapturedNames ==
    ASSUME CashKept, NEW said, NEW whole \in BOOLEAN, Captures(said, whole)
    PROVE  /\ \A n \in Names : NameAfter(n, said, whole, reading)
           /\ top' = [latest |-> top'.latest, full |-> top'.full, rows |-> top'.rows, names |-> top'.names]
           /\ top'.latest = reading /\ top'.full = IF whole THEN reading ELSE top.full
<1>1. PICK counts : Cash!Ingest(said, whole, reading, counts)
  BY DEF Captures
<1>2. reading \in 0 .. MaxTime
  BY CashTyped
<1> QED
  BY <1>1, <1>2, NameIs, HeadAfter DEF Captures

LEMMA CaptureKept ==
    ASSUME CashKept, NEW said, NEW whole \in BOOLEAN, Captures(said, whole)
    PROVE  CashKept'
<1>1. /\ top.latest \in 0 .. MaxTime /\ top.full \in 0 .. MaxTime /\ top.full <= top.latest /\ reading \in 0 .. MaxTime
      /\ top.latest < reading
  BY CashTyped DEF Captures
<1>2. top'.latest \in 0 .. MaxTime /\ top'.full \in 0 .. MaxTime /\ top'.full <= top'.latest
  BY <1>1, CapturedNames
<1>3. facts' = [n \in Names |-> facts'[n]] /\ changes' = [n \in Names |-> changes'[n]]
  BY DEF Captures, Cash!Ingest
<1>4. \A n \in Names : /\ facts'[n] \in CashFact /\ changes'[n] \in Seq(Outs) /\ LogKept(facts'[n], changes'[n])
                       /\ facts'[n].scoped <= reading /\ (facts'[n].outcome = None => facts'[n].scoped = 0)
  BY CapturedNames DEF NameAfter
<1>5. facts' \in [Names -> CashFact] /\ changes' \in [Names -> Seq(Outs)]
  BY <1>3, <1>4
<1>6. Cash!TypeOK'
  BY <1>1, <1>2, <1>5 DEF Cash!TypeOK, Captures, CashFact, Outs
<1>7. ASSUME NEW n \in Names PROVE (n \in Cash!Known') = (facts'[n].outcome # None)
  <2>1. facts'[n] = Cash!Unknown <=> facts'[n].outcome = None
    BY <1>4 DEF CashFact, Cash!Unknown
  <2> QED
    BY <2>1 DEF Cash!Known, Cash!Unknown
<1>8. Cash!FactsInv'
  BY <1>4, <1>6, <1>7 DEF Cash!FactsInv, LogKept
<1> QED
  BY <1>4, <1>8, CapturedNames DEF CashKept

LEMMA CashStep == CashKept /\ [Cash!Next]_(Cash!vars) => CashKept'
<1> SUFFICES ASSUME CashKept, [Cash!Next]_(Cash!vars) PROVE CashKept'
  OBVIOUS
<1>1. CASE Cash!Tick \/ Cash!SetBack \/ UNCHANGED Cash!vars
  <2>1. reading' \in 0 .. MaxTime /\ UNCHANGED <<facts, top, changes, last>>
    BY <1>1, CashTyped, CashBounds DEF Cash!Tick, Cash!SetBack, Cash!vars
  <2> QED
    BY <2>1 DEF CashKept, Cash!FactsInv, Cash!TypeOK, Cash!Known, Cash!Unknown
<1>2. ASSUME NEW requested \in SUBSET Names, NEW feed \in Cash!Answers, NEW transported \in BOOLEAN,
             Cash!Capture(requested, feed, transported)
      PROVE  CashKept'
  BY <1>2, CaptureIs, CaptureKept
<1> QED
  BY <1>1, <1>2 DEF Cash!Next

LEMMA CashHolds == Cash!Spec => []CashKept
BY CashInit, CashStep, PTL DEF Cash!Spec

(***************************************************************************)
(* FactsInv of every behaviour: the log of changes ends with what the      *)
(* store says now and repeats nothing, whatever answers come, complete or  *)
(* not, and whatever the clock does (ingest, _semantic).                   *)
(***************************************************************************)
THEOREM FactsHold == Cash!Spec => []FactsInv
<1>1. CashKept => FactsInv
  BY DEF CashKept, FactsInv
<1> QED
  BY <1>1, CashHolds, PTL

\* What the view shows of a name.
LEMMA ShownIs ==
    ASSUME CashKept, NEW n \in Names
    PROVE  /\ Cash!Shown[n].outcome = facts[n].outcome
           /\ facts[n].outcome # None => Cash!Shown[n] = [outcome |-> facts[n].outcome, at |-> Cash!CapturedAt(n)]
           /\ facts[n].outcome = None => Cash!Shown[n] = [outcome |-> None, at |-> 0]
BY KnownIs DEF Cash!Shown

LEMMA CaptureShows ==
    ASSUME CashKept, NEW said, NEW whole \in BOOLEAN, Captures(said, whole)
    PROVE  /\ top'.latest > top.latest
           /\ Cash!Shown' = [n \in Names |->
                IF n \in DOMAIN said THEN [outcome |-> said[n], at |-> reading]
                ELSE IF whole /\ Cash!Shown[n].outcome # None THEN [outcome |-> Cash!Missing, at |-> reading]
                ELSE Cash!Shown[n]]
<1>1. CashKept'
  BY CaptureKept
<1>2. /\ top.latest \in 0 .. MaxTime /\ top.full \in 0 .. MaxTime /\ top.full <= top.latest /\ reading \in 0 .. MaxTime
      /\ top.latest < reading /\ DOMAIN said \subseteq Names /\ (\A n \in DOMAIN said : said[n] \in Outs)
  BY CashTyped DEF Captures
<1>3. top'.latest = reading /\ top'.full = IF whole THEN reading ELSE top.full
  BY CapturedNames
<1>4. ASSUME NEW n \in Names
      PROVE  Cash!Shown'[n] = IF n \in DOMAIN said THEN [outcome |-> said[n], at |-> reading]
                              ELSE IF whole /\ Cash!Shown[n].outcome # None THEN [outcome |-> Cash!Missing, at |-> reading]
                              ELSE Cash!Shown[n]
  <2>1. NameAfter(n, said, whole, reading)
    BY CapturedNames
  <2>2. Cash!Shown[n].outcome = facts[n].outcome
    BY ShownIs
  <2>3. /\ Cash!Shown'[n].outcome = facts'[n].outcome
        /\ facts'[n].outcome # None => Cash!Shown'[n] = [outcome |-> facts'[n].outcome, at |-> Cash!CapturedAt(n)']
        /\ facts'[n].outcome = None => Cash!Shown'[n] = [outcome |-> None, at |-> 0]
    <3>1. n \in Cash!Known' <=> facts'[n].outcome # None
      <4>1. facts'[n] \in CashFact /\ (facts'[n].outcome = None => facts'[n].scoped = 0)
        BY <2>1 DEF NameAfter
      <4>2. facts'[n] = Cash!Unknown <=> facts'[n].outcome = None
        BY <4>1 DEF CashFact, Cash!Unknown
      <4> QED
        BY <4>2 DEF Cash!Known, Cash!Unknown
    <3> QED
      BY <3>1 DEF Cash!Shown
  <2>4. facts'[n].scoped \in 0 .. MaxTime /\ facts'[n].scoped <= reading
    BY <2>1 DEF NameAfter, CashFact
  <2>5. CASE n \in DOMAIN said
    <3>1. facts'[n].outcome = said[n] /\ said[n] # None /\ (~whole => facts'[n].scoped = reading)
      BY <1>2, <2>1, <2>5, CashBounds DEF NameAfter, Outs
    <3>2. Cash!CapturedAt(n)' = reading
      BY <1>2, <1>3, <2>4, <3>1 DEF Cash!CapturedAt
    <3> QED
      BY <2>3, <2>5, <3>1, <3>2
  <2>6. CASE n \notin DOMAIN said /\ whole /\ facts[n].outcome # None
    <3>1. facts'[n].outcome = Cash!Missing /\ Cash!Missing # None
      BY <2>1, <2>6, CashBounds DEF NameAfter
    <3>2. Cash!CapturedAt(n)' = reading
      BY <1>2, <1>3, <2>4, <2>6 DEF Cash!CapturedAt
    <3> QED
      BY <2>2, <2>3, <2>6, <3>1, <3>2
  <2>7. CASE n \notin DOMAIN said /\ ~(whole /\ facts[n].outcome # None)
    <3>1. facts'[n] = facts[n]
      BY <2>1, <2>7 DEF NameAfter
    <3>2. ~whole => Cash!CapturedAt(n)' = Cash!CapturedAt(n)
      BY <1>3, <3>1 DEF Cash!CapturedAt
    <3>3. Cash!Shown'[n] = Cash!Shown[n]
      BY <2>3, <2>7, <3>1, <3>2, ShownIs
    <3> QED
      BY <2>2, <2>7, <3>3
  <2> QED
    BY <2>5, <2>6, <2>7
<1>5. Cash!Shown' = [n \in Names |-> Cash!Shown'[n]]
  BY DEF Cash!Shown
<1> QED
  BY <1>2, <1>3, <1>4, <1>5

(***************************************************************************)
(* Honest of every behaviour: the store, which rewrites only what changed  *)
(* and dates the rest by a common head, implements the store that shows of *)
(* every name what the latest capture covering it said (the view           *)
(* cash_current_receipts).  A capture is a capture, a clock a stutter.     *)
(***************************************************************************)
THEOREM CashKeepsPromise == Cash!Spec => Honest
<1>1. Cash!Init => Cash!P!Init
  <2> SUFFICES ASSUME Cash!Init PROVE Cash!P!Init
    OBVIOUS
  <2>1. \A n \in Names : n \notin Cash!Known
    BY DEF Cash!Init, Cash!Known, Cash!Unknown
  <2>2. Cash!Shown = [n \in Names |-> [outcome |-> None, at |-> 0]]
    BY <2>1 DEF Cash!Shown
  <2> QED
    BY <2>2 DEF Cash!Init, Cash!P!Init
<1>2. CashKept /\ [Cash!Next]_(Cash!vars) => [Cash!P!Capture]_<<[at |-> top.latest, whole |-> last.whole, said |-> last.said], Cash!Shown>>
  <2> SUFFICES ASSUME CashKept, [Cash!Next]_(Cash!vars)
               PROVE  \/ Cash!P!Capture
                      \/ UNCHANGED <<[at |-> top.latest, whole |-> last.whole, said |-> last.said], Cash!Shown>>
    OBVIOUS
  <2>1. CASE Cash!Tick \/ Cash!SetBack \/ UNCHANGED Cash!vars
    <3>1. UNCHANGED <<facts, top, changes, last>>
      BY <2>1 DEF Cash!Tick, Cash!SetBack, Cash!vars
    <3> QED
      BY <3>1 DEF Cash!Shown, Cash!Known, Cash!Unknown, Cash!CapturedAt
  <2>2. ASSUME NEW requested \in SUBSET Names, NEW feed \in Cash!Answers, NEW transported \in BOOLEAN,
               Cash!Capture(requested, feed, transported)
        PROVE  Cash!P!Capture
    <3>1. PICK said, whole : whole \in BOOLEAN /\ Captures(said, whole)
      BY <2>2, CaptureIs
    <3>2. last'.whole = whole /\ last'.said = said /\ top'.latest = reading
      BY <3>1, CapturedNames DEF Captures
    <3> QED
      BY <3>1, <3>2, CaptureShows DEF Cash!P!Capture
  <2> QED
    BY <2>1, <2>2 DEF Cash!Next
<1> QED
  BY <1>1, <1>2, CashHolds, PTL DEF Cash!Spec, Honest, Cash!Honest, Cash!P!Spec

LEMMA MissingIs == Cash!Missing \notin Outcomes
BY LedgersAssumption DEF LedgersAssumption, Cash!FactsAssumption, Cash!Missing

\* What a complete answer says of the names it lists is the answer.
LEMMA ListingIs ==
    ASSUME NEW requested \in SUBSET Names, NEW feed \in Cash!Answers, NEW transported \in BOOLEAN, transported
    PROVE  LET said == Cash!Said(requested, feed, transported)
               listed == {m \in DOMAIN said : said[m] # Cash!Missing}
           IN  listed = DOMAIN feed /\ [m \in listed |-> said[m]] = feed
<1> DEFINE said == Cash!Said(requested, feed, transported)
           listed == {m \in DOMAIN said : said[m] # Cash!Missing}
<1>1. /\ feed = [n \in DOMAIN feed |-> feed[n]] /\ \A n \in DOMAIN feed : feed[n] \in Outcomes
  BY DEF Cash!Answers
<1>2. /\ DOMAIN said = requested \cup DOMAIN feed
      /\ \A n \in DOMAIN said : said[n] = IF n \in DOMAIN feed THEN feed[n] ELSE Cash!Missing
  BY DEF Cash!Said
<1> HIDE DEF said
<1>3. listed = DOMAIN feed
  BY <1>1, <1>2, MissingIs
<1>4. \A n \in listed : said[n] = feed[n]
  BY <1>2, <1>3
<1>5. [m \in listed |-> said[m]] = feed
  BY <1>1, <1>3, <1>4
<1> QED
  BY <1>3, <1>5 DEF said

LEMMA NothingShrinks ==
    ASSUME CashKept, [Cash!Next]_(Cash!vars), NEW n \in Names, n \notin DOMAIN last'.said,
           Cash!Shown[n].outcome \notin {None, Cash!Missing}, Cash!Shown'[n].outcome = Cash!Missing
    PROVE  LET listed == {m \in DOMAIN last'.said : last'.said[m] # Cash!Missing}
               listing == [m \in listed |-> last'.said[m]]
           IN  Cash!Rows(listing) >= top.rows /\ Cash!Cardinality(listed) >= top.names
<1>1. CASE Cash!Tick \/ Cash!SetBack \/ UNCHANGED Cash!vars
  <2>1. UNCHANGED <<facts, top>>
    BY <1>1 DEF Cash!Tick, Cash!SetBack, Cash!vars
  <2>2. Cash!Shown' = Cash!Shown
    BY <2>1 DEF Cash!Shown, Cash!Known, Cash!Unknown, Cash!CapturedAt
  <2> QED
    BY <2>2
<1>2. ASSUME NEW requested \in SUBSET Names, NEW feed \in Cash!Answers, NEW transported \in BOOLEAN,
             Cash!Capture(requested, feed, transported)
      PROVE  LET listed == {m \in DOMAIN last'.said : last'.said[m] # Cash!Missing}
                 listing == [m \in listed |-> last'.said[m]]
             IN  Cash!Rows(listing) >= top.rows /\ Cash!Cardinality(listed) >= top.names
  <2> DEFINE said == Cash!Said(requested, feed, transported)
             whole == Cash!Admitted(feed, transported)
             counts == [rows |-> Cash!Rows(feed), names |-> Cash!Cardinality(DOMAIN feed)]
  <2>1. DOMAIN said \subseteq Names /\ \A m \in DOMAIN said : said[m] \in Outs
    BY SaidTyped
  <2>2. whole \in BOOLEAN
    BY DEF Cash!Admitted
  <2>3. top.latest < reading /\ Cash!Ingest(said, whole, reading, counts) /\ last' = [whole |-> whole, said |-> said]
        /\ reading' = reading
    BY <1>2 DEF Cash!Capture
  <2>4. whole => transported /\ Cash!Rows(feed) >= top.rows /\ Cash!Cardinality(DOMAIN feed) >= top.names
    BY DEF Cash!Admitted
  <2>5. transported => LET listed == {m \in DOMAIN said : said[m] # Cash!Missing}
                       IN  listed = DOMAIN feed /\ [m \in listed |-> said[m]] = feed
    BY ListingIs
  <2> HIDE DEF said, whole, counts
  <2>6. Captures(said, whole) /\ last'.said = said
    BY <2>1, <2>2, <2>3 DEF Captures
  <2>7. whole
    <3>1. n \notin DOMAIN said
      BY <2>6
    <3>2. ~whole => Cash!Shown'[n] = Cash!Shown[n]
      BY <2>2, <2>6, <3>1, CaptureShows
    <3> QED
      BY <2>2, <3>2
  <2> QED
    BY <2>4, <2>5, <2>6, <2>7
<1> QED
  BY <1>1, <1>2 DEF Cash!Next

(***************************************************************************)
(* Unshrunk of every behaviour: a price nobody asked about is withdrawn    *)
(* only by an answer that lists as many rows and names as the last         *)
(* complete one (the count floor of CompactCash._run).                     *)
(***************************************************************************)
THEOREM NothingCleared == Cash!Spec => Unshrunk
<1>1. CashKept /\ [Cash!Next]_(Cash!vars) =>
        [\A n \in Names \ DOMAIN last'.said :
            Cash!Shown[n].outcome \notin {None, Cash!Missing} /\ Cash!Shown'[n].outcome = Cash!Missing
              => LET listed == {m \in DOMAIN last'.said : last'.said[m] # Cash!Missing}
                     listing == [m \in listed |-> last'.said[m]]
                 IN  Cash!Rows(listing) >= top.rows /\ Cash!Cardinality(listed) >= top.names]_(Cash!vars)
  BY NothingShrinks
<1> QED
  BY <1>1, CashHolds, PTL DEF Cash!Spec, Unshrunk, Cash!Unshrunk
=============================================================================
