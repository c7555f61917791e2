----------------------------- MODULE QuoteLedger -----------------------------
(***************************************************************************)
(* The quotes of the current-price ledger (quote_book.py, Book.publish).   *)
(*                                                                         *)
(* A full feed has tens of thousands of rows and most do not change from   *)
(* one capture to the next, so a row of a full feed does not name its      *)
(* capture: while it is a member of the feed it shares the provider's      *)
(* head, and only when a later capture leaves it out is it pinned to the   *)
(* head it was last seen under.  Captures nothing refers to are deleted.   *)
(*                                                                         *)
(* A capture's digest is modelled by the body it identifies.               *)
(***************************************************************************)
EXTENDS Integers, FiniteSets

CONSTANTS
    Subjects, Facts,
    Feeds,          \* cash_ask sources that send their whole offer
    ItemSources,    \* csfloat: one requested item a capture
    OtherSources,   \* steam: another kind of price, no membership
    MaxTime,        \* bound: receipt times are 1..MaxTime
    MaxRevision,    \* bound: publications
    MaxCaptures     \* bound: capture ids

Sources == Feeds \cup ItemSources \cup OtherSources

ASSUME LedgerAssumption ==
    /\ Feeds \cap (ItemSources \cup OtherSources) = {}
    /\ ItemSources \cap OtherSources = {}
    /\ MaxTime \in Nat /\ MaxRevision \in Nat /\ MaxCaptures \in Nat

VARIABLES
    quote,          \* per source: item |-> [fact, membership, capture]
    captures,       \* id |-> [source, at, body]: the capture table
    head,           \* provider.last_capture
    lastReceived,   \* provider.last_received_us
    revision        \* meta.revision

ledger == <<quote, captures, head, lastReceived, revision>>

NoCapture == 0
Ids == 1..MaxCaptures
Times == 1..MaxTime

\* quote.active: withdrawn (and every row of another kind), member of the
\* latest full capture, individually captured.
Unlisted == 0
Member == 1
Single == 2

Row == [fact : Facts, membership : {Unlisted, Member, Single}, capture : Ids \cup {NoCapture}]
Partial(S, T) == UNION {[D -> T] : D \in SUBSET S}
Bodies == UNION {[D -> Facts] : D \in (SUBSET Subjects) \ {{}}}
Capture == [source : Sources, at : Times, body : Bodies]

TypeOK ==
    /\ DOMAIN quote = Sources
    /\ \A p \in Sources : /\ DOMAIN quote[p] \subseteq Subjects
                          /\ quote[p] \in [DOMAIN quote[p] -> Row]
    /\ DOMAIN captures \subseteq Ids
    /\ captures \in [DOMAIN captures -> Capture]
    /\ head \in [Sources -> Ids \cup {NoCapture}]
    /\ lastReceived \in [Sources -> Times \cup {0}]
    /\ revision \in Nat

Init ==
    /\ quote = [p \in Sources |-> << >>]
    /\ captures = << >>
    /\ head = [p \in Sources |-> NoCapture]
    /\ lastReceived = [p \in Sources |-> 0]
    /\ revision = 0

-----------------------------------------------------------------------------
\* CSFloat publication must contain exactly its requested item.
MayCarry(p, body) == p \in ItemSources => \E s \in Subjects : DOMAIN body = {s}

\* The rowid SQLite gives a new capture: one more than the largest in use.
IsNextId(cap) ==
    /\ cap \in Ids
    /\ \A i \in DOMAIN captures : i < cap
    /\ cap = 1 \/ cap - 1 \in DOMAIN captures

\* "Older/conflicting capture cannot replace current quotes".
IsNewer(p, at) == at > lastReceived[p]

Membership(p) ==
    IF p \in Feeds THEN Member ELSE IF p \in ItemSources THEN Single ELSE Unlisted

\* The row a capture writes for an item it lists.
Listed(p, cap, fact) ==
    [fact |-> fact, membership |-> Membership(p),
     capture |-> IF p \in Feeds THEN NoCapture ELSE cap]

\* As if a withdrawn row were pinned to the capture that dropped it.
Pin_NewHead(p, row, cap) ==
    [fact |-> row.fact, membership |-> Unlisted, capture |-> cap]

\* A member of the feed that the new capture leaves out keeps the receipt it
\* was last seen under.
Pin(p, row, cap) ==
    [fact |-> row.fact, membership |-> Unlisted, capture |-> head[p]]

Unseen(p, row, cap) ==
    IF p \in Feeds /\ row.membership = Member THEN Pin(p, row, cap) ELSE row

Upserted(p, cap, body) ==
    [s \in DOMAIN quote[p] \cup DOMAIN body |->
        IF s \in DOMAIN body THEN Listed(p, cap, body[s]) ELSE Unseen(p, quote[p][s], cap)]

\* As if only the providers' heads kept a capture alive.
InUse_HeadsOnly(quotes, heads) == {heads[p] : p \in Sources}

InUse(quotes, heads) ==
    {heads[p] : p \in Sources}
        \cup UNION {{quotes[p][s].capture : s \in DOMAIN quotes[p]} : p \in Sources}

\* Book.publish of a capture that is new.
Publish(p, at, body) ==
    \E cap \in Ids :
        /\ revision < MaxRevision
        /\ MayCarry(p, body)
        /\ IsNewer(p, at)
        /\ IsNextId(cap)
        /\ quote' = [quote EXCEPT ![p] = Upserted(p, cap, body)]
        /\ head' = [head EXCEPT ![p] = cap]
        /\ lastReceived' = [lastReceived EXCEPT ![p] = at]
        /\ captures' =
              LET kept == (DOMAIN captures \cup {cap}) \cap InUse(quote', head')
              IN  [i \in kept |-> IF i = cap THEN [source |-> p, at |-> at, body |-> body]
                                             ELSE captures[i]]
        /\ revision' = revision + 1

Next == \E p \in Sources, at \in Times, body \in Bodies : Publish(p, at, body)

Spec == Init /\ [][Next]_ledger

-----------------------------------------------------------------------------
(* What a reader makes of the rows: the join of Book.prices.               *)

ReceiptId(p, row) == IF row.membership = Member THEN head[p] ELSE row.capture

\* A withdrawn row counts as absent among cash prices only.
IsListed(p, row) == p \in OtherSources \/ row.membership # Unlisted

Seen(p) ==
    [s \in DOMAIN quote[p] |->
        LET row == quote[p][s]
            receipt == captures[ReceiptId(p, row)]
        IN  [fact |-> row.fact, at |-> receipt.at, body |-> receipt.body,
             listed |-> IsListed(p, row)]]

Promise == INSTANCE SourceObservations WITH
    observed <- [p \in Sources |-> Seen(p)],
    newest <- lastReceived

\* quote_book.publish/prices: each row's receipt is on file, is this
\* source's, and says of the item just what the row says -- shared heads,
\* withdrawals and the deletion of unused captures notwithstanding.
ReceiptsOnFile ==
    \A p \in Sources : \A s \in DOMAIN quote[p] :
        LET row == quote[p][s]
            id == ReceiptId(p, row)
        IN  /\ id \in DOMAIN captures
            /\ captures[id].source = p
            /\ s \in DOMAIN captures[id].body
            /\ captures[id].body[s] = row.fact

\* The head of a source is its newest capture, no row of a source is newer,
\* and a row is listed the way its kind of source lists items.
HeadsNewest ==
    /\ \A p \in Sources :
          IF head[p] = NoCapture
          THEN lastReceived[p] = 0 /\ quote[p] = << >>
          ELSE /\ head[p] \in DOMAIN captures
               /\ captures[head[p]].source = p
               /\ captures[head[p]].at = lastReceived[p]
    /\ \A i \in DOMAIN captures : captures[i].at <= lastReceived[captures[i].source]
    /\ \A p \in Sources : \A s \in DOMAIN quote[p] :
          quote[p][s].membership \in {Membership(p), Unlisted}

\* quote_book.publish: the tables are well formed, every price shown can be
\* traced to the capture that carried it, and heads are what is newest.
LedgerInv == TypeOK /\ ReceiptsOnFile /\ HeadsNewest

\* quote_book.publish: the ledger with shared heads, pinned withdrawals and
\* deleted captures shows exactly what a ledger would that stored every
\* item's observation with it: an old capture never replaces a newer one, and
\* a capture that leaves an item out never makes its price look fresher.
KeepsPromise == Promise!Spec
=============================================================================
