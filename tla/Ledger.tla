------------------------------- MODULE Ledger -------------------------------
(***************************************************************************)
(* The performance ledger (internal/performance) and the loss counter of   *)
(* the risk manager it drives, within the tick of internal/app: fills are  *)
(* read back from the exchange, each is marked as seen, appended to        *)
(* fills.jsonl and applied to the open trade; closed trades are appended   *)
(* to trades.jsonl, the ledger is saved, and only then are the closed      *)
(* trades counted and risk_state.json saved.  Every write may fail and the *)
(* process may crash between any two of them.                              *)
(*                                                                         *)
(* Fills are numbered in the order the exchange made them.  Prices, fees   *)
(* in USD, funding and the excursions of a trade are left out; net is the  *)
(* sign of what the trade that a fill closes came to.                      *)
(***************************************************************************)
EXTENDS Integers, Sequences, FiniteSetsExt, SequencesExt

CONSTANTS
    Amounts,                    \* signed sizes of a fill
    Fees,                       \* what a spot buy may pay in XAUT
    SeenCap,                    \* identifiers kept by a save
    MaximumConsecutiveLosses,
    MaxFills, MaxFailures, MaxCrashes   \* bounds of a run

ASSUME LedgerAssumption ==
    /\ Amounts \subseteq Int \ {0}
    /\ Fees \subseteq Nat
    /\ SeenCap \in Nat \ {0}
    /\ MaximumConsecutiveLosses \in Nat
    /\ MaxFills \in Nat
    /\ MaxFailures \in Nat
    /\ MaxCrashes \in Nat

VARIABLES
    history,   \* fills of the account, oldest first
    held,      \* the XAUT they leave in the account, negative when short
    book,      \* the ledger in memory ...
    saved,     \* ... and in performance_state.json
    risk,      \* loss counter and latched halt in memory ...
    riskSaved, \* ... and in risk_state.json
    pc, batch, closed,         \* where the tick is: fills to do, trades closed
    counted,   \* closing fills of the trades counted so far, in order
    exposed,   \* closing fills of trades counted before a save held them
    failures, crashes

vars == <<history, held, book, saved, risk, riskSaved, pc, batch, closed, counted,
          exposed, failures, crashes>>

exchange == <<history, held>>

-----------------------------------------------------------------------------
Fill == [t : Nat, amt : Amounts, net : {-1, 0, 1}]

Traded(ids) == MapThenSumSet(LAMBDA i : history[i].amt, ids)

(* Times count half the second that Since looks back.                      *)
Since(b) == b.last - 2

(* Mutant: fills of the last time seen are not asked for again.            *)
UnseenAfter(b) == {i \in DOMAIN history : history[i].t > b.last}

Unseen(b) == {i \in DOMAIN history : history[i].t >= Since(b) /\ i \notin b.seen}

SameSign(p, q) == (p > 0 /\ q > 0) \/ (p < 0 /\ q < 0)

Size(q) == IF q < 0 THEN -q ELSE q

Closes(b, i) ==
    LET a == history[i].amt
    IN  b.open # 0 /\ ~SameSign(b.open, a) /\ Size(a) >= Size(b.open)

MarkSeen(b, i) ==
    [b EXCEPT !.seen = @ \union {i},
              !.last = IF history[i].t > @ THEN history[i].t ELSE @]

(* Mutant: a fill that crosses zero ends the trade and its excess is lost. *)
ApplyUpToZero(b, i) ==
    [b EXCEPT !.open = IF Closes(b, i) THEN 0 ELSE @ + history[i].amt,
              !.lost = @ \ {i}]

(* applyFill: a fill opens a trade, adds to it, reduces it, ends it, or    *)
(* ends it and opens the next one with the excess.                         *)
ApplyFill(b, i) == [b EXCEPT !.open = @ + history[i].amt, !.lost = @ \ {i}]

(* Mutant: it keeps the lowest.                                            *)
TrimmedLow(b) ==
    [b EXCEPT !.seen = {i \in @ : Cardinality({j \in @ : j < i}) < SeenCap}]

(* A save keeps the highest identifiers only.                              *)
Trimmed(b) ==
    [b EXCEPT !.seen = {i \in @ : Cardinality({j \in @ : j > i}) < SeenCap}]

(* Mutant: the halt follows the counter instead of being latched.          *)
RecordUnlatched(r, net) ==
    LET n == IF net < 0 THEN r.losses + 1 ELSE IF net > 0 THEN 0 ELSE r.losses
    IN  [losses |-> n, halted |-> n >= MaximumConsecutiveLosses]

(* A halt is latched: only the counter starts again.                       *)
RecordClosedTrade(r, net) ==
    LET n == IF net < 0 THEN r.losses + 1 ELSE IF net > 0 THEN 0 ELSE r.losses
    IN  [losses |-> n,
         halted |-> r.halted \/ (MaximumConsecutiveLosses > 0 /\ n >= MaximumConsecutiveLosses)]

-----------------------------------------------------------------------------
(* The exchange fills an order of the bot.  No order of the bot crosses    *)
(* zero, and no more fills than a save keeps fall into one look back.      *)
Now == IF history = <<>> THEN 2 ELSE Last(history).t

ExchangeFills ==
    \E amt \in Amounts, fee \in Fees, later \in {0, 3}, net \in {-1, 0, 1} :
        /\ Len(history) < MaxFills
        /\ held # 0 /\ ~SameSign(held, amt) => Size(amt) <= Size(held)
        /\ fee > 0 => held >= 0 /\ amt > fee
        /\ (net # 0) <=> SameSign(Traded(DOMAIN history), -amt)
        /\ Cardinality({i \in DOMAIN history : history[i].t >= Now + later - 2}) < SeenCap
        /\ history' = Append(history, [t |-> Now + later, amt |-> amt, net |-> net])
        /\ held' = held + amt - fee
    /\ UNCHANGED <<book, saved, risk, riskSaved, pc, batch, closed, counted, exposed,
                   failures, crashes>>

-----------------------------------------------------------------------------
Fails ==
    /\ failures < MaxFailures
    /\ failures' = failures + 1

(* A tick with no fill to process and no open trade changes nothing.       *)
QuietTick ==
    /\ pc = "idle"
    /\ Unseen(book) = {}
    /\ book.open = 0
    /\ UNCHANGED vars

(* Fills and the start of Process, which takes the oldest fill first.      *)
StartTick ==
    /\ pc = "idle"
    /\ Unseen(book) # {} \/ book.open # 0
    /\ pc' = "fills"
    /\ batch' = Unseen(book)
    /\ UNCHANGED <<exchange, book, saved, risk, riskSaved, closed, counted, exposed,
                   failures, crashes>>

FetchFails ==
    /\ pc = "idle"
    /\ book.open # 0
    /\ Fails
    /\ pc' = "fills"
    /\ UNCHANGED <<exchange, book, saved, risk, riskSaved, batch, closed, counted, exposed,
                   crashes>>

StoreFill ==
    /\ pc = "fills"
    /\ batch # {}
    /\ LET i == Min(batch)
       IN  /\ book' = ApplyFill(MarkSeen(book, i), i)
           /\ IF Closes(book, i)
              THEN pc' = "trade" /\ closed' = Append(closed, i)
              ELSE UNCHANGED <<pc, closed>>
           /\ batch' = batch \ {i}
    /\ UNCHANGED <<exchange, saved, risk, riskSaved, counted, exposed, failures, crashes>>

(* Mutant: the trades closed before the failure wait for the next tick.    *)
GiveUpTick ==
    /\ Fails
    /\ pc' = "idle"
    /\ batch' = {}
    /\ exposed' = exposed \union Range(closed)
    /\ UNCHANGED <<exchange, saved, risk, riskSaved, closed, counted, crashes>>

(* Process gives up, without a save, once a write fails or the save itself *)
(* does; the trades closed so far are returned and counted all the same.   *)
GiveUp ==
    /\ Fails
    /\ pc' = IF closed = <<>> THEN "idle" ELSE "record"
    /\ batch' = {}
    /\ exposed' = exposed \union Range(closed)
    /\ UNCHANGED <<exchange, saved, risk, riskSaved, closed, counted, crashes>>

(* The fill stays marked as seen and is never applied.                     *)
StoreFillFails ==
    /\ pc = "fills"
    /\ batch # {}
    /\ LET i == Min(batch)
       IN  book' = [MarkSeen(book, i) EXCEPT !.lost = @ \union {i}]
    /\ GiveUp

StoreTrade ==
    /\ pc = "trade"
    /\ pc' = "fills"
    /\ UNCHANGED <<exchange, book, saved, risk, riskSaved, batch, closed, counted, exposed,
                   failures, crashes>>

StoreTradeFails ==
    /\ pc = "trade"
    /\ GiveUp
    /\ UNCHANGED book

Save ==
    /\ pc = "fills"
    /\ batch = {}
    /\ saved' = Trimmed(book)
    /\ pc' = IF closed = <<>> THEN "idle" ELSE "record"
    /\ UNCHANGED <<exchange, book, risk, riskSaved, batch, closed, counted, exposed,
                   failures, crashes>>

SaveFails ==
    /\ pc = "fills"
    /\ batch = {}
    /\ GiveUp
    /\ UNCHANGED book

(* RecordClosedTrade, once per closed trade; a failed save is logged.      *)
Record ==
    /\ pc = "record"
    /\ risk' = RecordClosedTrade(risk, history[Head(closed)].net)
    /\ \/ riskSaved' = risk' /\ UNCHANGED failures
       \/ Fails /\ UNCHANGED riskSaved
    /\ counted' = Append(counted, Head(closed))
    /\ closed' = Tail(closed)
    /\ pc' = IF Len(closed) = 1 THEN "idle" ELSE "record"
    /\ UNCHANGED <<exchange, book, saved, batch, exposed, crashes>>

(* The process stops at any point and starts from what is saved.           *)
Crash ==
    /\ crashes < MaxCrashes
    /\ crashes' = crashes + 1
    /\ book' = saved
    /\ risk' = riskSaved
    /\ pc' = "idle"
    /\ batch' = {}
    /\ closed' = <<>>
    /\ UNCHANGED <<exchange, saved, riskSaved, counted, exposed, failures>>

-----------------------------------------------------------------------------
NoTrade == [seen |-> {}, last |-> 0, open |-> 0, lost |-> {}]

Init ==
    /\ history = <<>>
    /\ held = 0
    /\ book = NoTrade
    /\ saved = NoTrade
    /\ risk = [losses |-> 0, halted |-> FALSE]
    /\ riskSaved = risk
    /\ pc = "idle"
    /\ batch = {}
    /\ closed = <<>>
    /\ counted = <<>>
    /\ exposed = {}
    /\ failures = 0
    /\ crashes = 0

Step == StartTick \/ StoreFill \/ StoreTrade \/ Save \/ Record

Next ==
    \/ ExchangeFills
    \/ QuietTick
    \/ Step
    \/ FetchFails \/ StoreFillFails \/ StoreTradeFails \/ SaveFails
    \/ Crash

(* The loop keeps ticking; fills, failures and crashes are no obligation.  *)
Spec == Init /\ [][Next]_vars /\ WF_vars(Step)

-----------------------------------------------------------------------------
BookType == [seen : SUBSET (1 .. MaxFills), last : Nat, open : Int, lost : SUBSET (1 .. MaxFills)]

TypeOK ==
    /\ history \in Seq(Fill)
    /\ held \in Int
    /\ book \in BookType
    /\ saved \in BookType
    /\ {risk, riskSaved} \subseteq [losses : Nat, halted : BOOLEAN]
    /\ pc \in {"idle", "fills", "trade", "record"}
    /\ {closed, counted} \subseteq Seq(1 .. MaxFills)
    /\ batch \union exposed \subseteq 1 .. MaxFills
    /\ failures \in 0 .. MaxFailures
    /\ crashes \in 0 .. MaxCrashes
    /\ pc = "idle" => batch = {} /\ closed = <<>>

(* Whatever failed or crashed on the way, a ledger that finds nothing more *)
(* to process has every fill of the account in its open trade exactly      *)
(* once, but for those whose append to fills.jsonl failed.                 *)
Reconciled ==
    pc = "idle" /\ Unseen(book) = {} =>
        book.open = Traded(DOMAIN history \ book.lost)

(* A trade is counted by the loss counter once, through crashes that make  *)
(* the ledger read fills again; only a failed write exposes it to being    *)
(* counted twice.                                                          *)
CountedOnce ==
    \A m, n \in DOMAIN counted :
        counted[m] = counted[n] => m = n \/ counted[m] \in exposed

(* ARCHITECTURE: "risk_state.json: loss counters, equity anchors, latched  *)
(* hard halt".  A halt on disk outlives wins, failed saves and restarts.   *)
HaltLatched == [][riskSaved.halted => riskSaved'.halted]_vars

(* Every fill the exchange makes reaches the open trade in the end.        *)
Settles == <>[](book.open = Traded(DOMAIN history \ book.lost))

(* README: "completed trades are stored in data/trades.jsonl".  A position *)
(* that is closed is no open trade any more.                               *)
FlatMeansClosed ==
    pc = "idle" /\ Unseen(book) = {} /\ book.lost = {} /\ held = 0 => book.open = 0
=============================================================================
