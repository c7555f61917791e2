----------------------------- MODULE CashFacts ------------------------------
(***************************************************************************)
(* The store of cash prices (compact_cash_store.py) and the admission of a *)
(* feed to it (compact_cash_service.py, skinport_cash_capture.py).  An     *)
(* unchanged fact is not rewritten: a complete capture advances one common *)
(* head, a selected one the fact's own, and the view takes the later.      *)
(* Publication is one transaction, of the worker that owns the job         *)
(* (CashLane), so a capture is one step.                                   *)
(***************************************************************************)
EXTENDS Integers, Sequences, FiniteSets, FiniteSetsExt

CONSTANTS
    Names,                \* exact market hash names
    Outcomes,             \* what a feed says of a listed name: say, stamp (upstream clock), rows
    None,
    Floor,                \* row and name counts handed over by the migration
    MaxTime

FactsAssumption ==
    /\ \A o \in Outcomes : DOMAIN o = {"say", "stamp", "rows"} /\ o.rows > 0 /\ o.say # "missing"
    /\ Floor.rows \in Nat /\ Floor.names \in Nat /\ MaxTime \in Nat \ {0}
    /\ None \notin Outcomes \cup {[o EXCEPT !.stamp = None] : o \in Outcomes}
    /\ None # [say |-> "missing", stamp |-> None, rows |-> 0]

VARIABLES
    now,
    facts,                \* cash_facts: outcome and scoped capture of each subject
    head,                 \* cash_heads: the latest capture, the latest complete one and its counts
    changes,              \* cash_changes: the outcomes of each subject worth keeping
    last                  \* history: what the latest capture said, and whether it was complete

vars == <<now, facts, head, changes, last>>

Missing == [say |-> "missing", stamp |-> None, rows |-> 0]
Unknown == [outcome |-> None, scoped |-> 0]
Known == {n \in Names : facts[n] # Unknown}
Answers == UNION {[listed -> Outcomes] : listed \in SUBSET Names}
Rows(feed) == MapThenSumSet(LAMBDA n : feed[n].rows, DOMAIN feed)

TypeOK ==
    /\ now \in 0 .. MaxTime
    /\ facts \in [Names -> [outcome : Outcomes \cup {Missing, None}, scoped : 0 .. MaxTime]]
    /\ head.latest \in 0 .. MaxTime /\ head.full \in 0 .. MaxTime /\ head.full <= head.latest
    /\ changes \in [Names -> Seq(Outcomes \cup {Missing})]

Init ==
    /\ now = 1 /\ facts = [n \in Names |-> Unknown]
    /\ head = [latest |-> 0, full |-> 0, rows |-> Floor.rows, names |-> Floor.names]
    /\ changes = [n \in Names |-> <<>>]
    /\ last = [whole |-> FALSE, said |-> <<>>]

(* CompactCash._run: may this response speak of names it does not list?    *)

Admitted_ByNames(feed, transported) ==
    transported /\ head.names > 0 /\ Cardinality(DOMAIN feed) >= head.names
Admitted(feed, transported) ==
    /\ transported
    /\ head.rows > 0 /\ head.names > 0
    /\ Rows(feed) >= head.rows /\ Cardinality(DOMAIN feed) >= head.names

\* qualify_capture: the outcomes of the names asked for, and of all that are listed if the whole feed came.
Said(requested, feed, transported) ==
    [n \in requested \cup (IF transported THEN DOMAIN feed ELSE {}) |->
       IF n \in DOMAIN feed THEN feed[n] ELSE Missing]

(* ingest. *)

\* A complete capture classifies every subject seen before.
Classified(said, whole) ==
    [n \in DOMAIN said \cup (IF whole THEN Known ELSE {}) |-> IF n \in DOMAIN said THEN said[n] ELSE Missing]

FactAfter(old, outcome, whole, at) ==
    IF old.outcome # outcome THEN [outcome |-> outcome, scoped |-> IF whole THEN 0 ELSE at]
    ELSE IF whole THEN old ELSE [old EXCEPT !.scoped = at]

\* _semantic: the upstream clock alone is no news.
Semantic(outcome) == IF outcome = None THEN None ELSE [outcome EXCEPT !.stamp = None]
News_Outcome(old, outcome) == old.outcome # outcome
News(old, outcome) == old.outcome # outcome /\ Semantic(old.outcome) # Semantic(outcome)

Ingest(said, whole, at, counts) ==
    LET classified == Classified(said, whole) IN
    /\ facts' = [n \in Names |-> IF n \in DOMAIN classified THEN FactAfter(facts[n], classified[n], whole, at)
                                 ELSE facts[n]]
    /\ changes' = [n \in Names |-> IF n \in DOMAIN classified /\ News(facts[n], classified[n])
                                     THEN Append(changes[n], classified[n]) ELSE changes[n]]
    /\ head' = IF whole THEN [latest |-> at, full |-> at, rows |-> counts.rows, names |-> counts.names]
               ELSE [head EXCEPT !.latest = at]

Capture(requested, feed, transported) ==
    LET whole == Admitted(feed, transported)
        said == Said(requested, feed, transported) IN
    /\ head.latest < now                              \* an older capture conflicts
    /\ requested # {} /\ ~(transported /\ DOMAIN feed = {})
    /\ Ingest(said, whole, now, [rows |-> Rows(feed), names |-> Cardinality(DOMAIN feed)])
    /\ last' = [whole |-> whole, said |-> said]
    /\ UNCHANGED now

Tick == now < MaxTime /\ now' = now + 1 /\ UNCHANGED <<facts, head, changes, last>>
SetBack == now > 1 /\ now' = now - 1 /\ UNCHANGED <<facts, head, changes, last>>

Next ==
    \/ \E requested \in SUBSET Names, feed \in Answers, transported \in BOOLEAN :
         Capture(requested, feed, transported)
    \/ Tick \/ SetBack

Spec == Init /\ [][Next]_vars

----------------------------------------------------------------------------
(* The view cash_current_receipts.                                         *)

CapturedAt_OwnFirst(n) == IF facts[n].scoped > 0 THEN facts[n].scoped ELSE head.full
CapturedAt(n) == IF head.full > 0 /\ head.full >= facts[n].scoped THEN head.full ELSE facts[n].scoped
Shown == [n \in Names |-> IF n \in Known THEN [outcome |-> facts[n].outcome, at |-> CapturedAt(n)]
                          ELSE [outcome |-> None, at |-> 0]]

(* FactsInv: the log of changes ends with what the store says now, and no  *)
(* two entries in a row say the same (ingest, _semantic).                  *)
FactsInv ==
    /\ TypeOK
    /\ \A n \in Names :
         /\ (n \in Known) = (changes[n] # <<>>)
         /\ n \in Known => Semantic(changes[n][Len(changes[n])]) = Semantic(facts[n].outcome)
         /\ \A i \in 1 .. Len(changes[n]) - 1 : Semantic(changes[n][i]) # Semantic(changes[n][i + 1])

(* Honest: the store shows of every name what the latest capture covering  *)
(* it said, and when, although it rewrites only what changed (the view     *)
(* cash_current_receipts over heads and scoped captures).                  *)
P == INSTANCE CashPromise WITH
       latest <- [at |-> head.latest, whole |-> last.whole, said |-> last.said], shown <- Shown
Honest == P!Spec

(* Unshrunk: a price that nobody asked about is never withdrawn by a feed  *)
(* that lists less than the last complete one (the count floor of          *)
(* CompactCash._run): a truncated answer clears nothing.                   *)
Unshrunk ==
    [][\A n \in Names \ DOMAIN last'.said :
         Shown[n].outcome \notin {None, Missing} /\ Shown'[n].outcome = Missing
           => LET listed == {m \in DOMAIN last'.said : last'.said[m] # Missing}
                  listing == [m \in listed |-> last'.said[m]]
              IN  Rows(listing) >= head.rows /\ Cardinality(listed) >= head.names]_vars
=============================================================================
