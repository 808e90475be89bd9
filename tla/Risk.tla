-------------------------------- MODULE Risk --------------------------------
(***************************************************************************)
(* internal/risk: the equity anchors, the hard halt and the decision of    *)
(* every tick, over days on which prices move, trades close, writes of     *)
(* risk_state.json fail and the process crashes.                           *)
(*                                                                         *)
(* The account holds XAUT against dollars.  The equity the manager sees    *)
(* values that XAUT at the fair price, which is 0 while fewer than two     *)
(* routes are fresh (fairvalue.Engine.Estimate, Adapter.Account).          *)
(***************************************************************************)
EXTENDS Sizing

CONSTANTS
    DailyHardLoss, WeeklyHardLoss, MaximumDrawdown, MaximumConsecutiveLosses,
    FlattenOnHardHalt,
    Prices,
    FairStates,     \* subset of {"valid", "dispersed", "none"}
    Exposures,      \* what a signal asks for, in percent
    Gaps,           \* stop distances
    Depths,         \* liquidity caps
    DaysPerWeek,
    MaxDays, MaxMoves, MaxFailures, MaxCrashes   \* bounds

ASSUME RiskAssumption ==
    /\ {DailyHardLoss, WeeklyHardLoss, MaximumDrawdown, DaysPerWeek} \subseteq Nat \ {0}
    /\ MaximumConsecutiveLosses \in Nat
    /\ FlattenOnHardHalt \in BOOLEAN
    /\ Prices \subseteq Nat \ {0} /\ Gaps \subseteq Nat \ {0}
    /\ FairStates \subseteq {"valid", "dispersed", "none"} /\ "valid" \in FairStates
    /\ Exposures \subseteq Int
    /\ Depths \subseteq Nat
    /\ MaxDays \in Nat \ {0}
    /\ {MaxMoves, MaxFailures, MaxCrashes} \subseteq Nat

VARIABLES
    day,         \* the current day, from 1
    price,       \* the price of XAUT
    cash, held,  \* the account
    target,      \* the quantity of the last decision
    mem,         \* the manager's PersistentState
    disk,        \* risk_state.json
    moves, failures, crashes

(* History: what truly happened, whatever the manager remembers of it.     *)
VARIABLES
    seen,        \* the first equity of the day and of the week, 0 before it,
                 \* and the highest
    losses,      \* losing trades in a row
    earned,      \* a limit has been reached
    forgot       \* a crash lost a change whose write had failed

world == <<day, price, cash, held>>
history == <<seen, losses, earned, forgot>>
vars == <<world, target, mem, disk, moves, failures, crashes, history>>

-----------------------------------------------------------------------------
Week(d) == (d - 1) \div DaysPerWeek

(* What the fair-value estimate f is worth in a tick.                      *)
FairPrice(f) == IF f = "none" THEN 0 ELSE price

(* A short's profit is the exchange's own figure, at its own price.        *)
EquityUSD(f) == cash + held * IF held > 0 THEN FairPrice(f) ELSE price
TrueEquity == EquityUSD("valid")

(* What tick hands to ObserveEquity.                                       *)
Observed(f) == IF EquityUSD(f) <= 0 THEN CapitalBase ELSE EquityUSD(f)

NoState ==
    [day |-> 0, dayStart |-> 0, week |-> -1, weekStart |-> 0, high |-> 0,
     losses |-> 0, halt |-> FALSE]

(* Mutant: the day's first equity is kept when the day is over.            *)
AnchoredOnce(m, e) ==
    [day |-> day,
     dayStart |-> IF m.dayStart <= 0 THEN e ELSE m.dayStart,
     week |-> Week(day),
     weekStart |-> IF m.week # Week(day) \/ m.weekStart <= 0 THEN e ELSE m.weekStart,
     high |-> Greater(m.high, e), losses |-> m.losses, halt |-> m.halt]

Anchored(m, e) ==
    [day |-> day,
     dayStart |-> IF m.day # day \/ m.dayStart <= 0 THEN e ELSE m.dayStart,
     week |-> Week(day),
     weekStart |-> IF m.week # Week(day) \/ m.weekStart <= 0 THEN e ELSE m.weekStart,
     high |-> Greater(m.high, e), losses |-> m.losses, halt |-> m.halt]

TooManyLosses(n) == MaximumConsecutiveLosses > 0 /\ n >= MaximumConsecutiveLosses

LimitReached(m, e) ==
    \/ m.dayStart - e >= DailyHardLoss
    \/ m.weekStart - e >= WeeklyHardLoss
    \/ m.high - e >= MaximumDrawdown
    \/ TooManyLosses(m.losses)

(* A hard halt stays until an operator edits the file.                     *)
Latched(m, n, reached) ==
    [day |-> m.day, dayStart |-> m.dayStart, week |-> m.week, weekStart |-> m.weekStart,
     high |-> m.high, losses |-> n, halt |-> m.halt \/ reached]

ObserveEquity(m, e) ==
    LET a == Anchored(m, e) IN Latched(a, a.losses, LimitReached(a, e))

(* Mutant: the anchors are written with the next halt.                     *)
SaveHalts(m) ==
    IF m.halt # mem.halt THEN disk' = m /\ UNCHANGED failures ELSE UNCHANGED <<disk, failures>>

(* A write that is called for, and may fail.                               *)
Save(m) ==
    \/ disk' = m /\ UNCHANGED failures
    \/ /\ failures < MaxFailures
       /\ failures' = failures + 1
       /\ UNCHANGED disk

-----------------------------------------------------------------------------
(* What is left of an entry is at work.                                    *)
AtWork ==
    IF Sign(target) * Sign(held) >= 0 /\ Abs(target) > Abs(held) THEN target - held ELSE 0

Request(m, exposure, gap, depth, entry) ==
    [equity |-> Observed("valid"), dayLoss |-> Greater(0, m.dayStart - Observed("valid")),
     exposure |-> exposure, price |-> price, gap |-> gap, depth |-> depth,
     net |-> held, pending |-> AtWork, entry |-> entry]

(* Evaluate: the targets a tick may settle on, and what is held when it is *)
(* not allowed one or the signal takes no new entries.                     *)
Targets(m, f, haltFile) ==
    IF m.halt \/ haltFile THEN {IF FlattenOnHardHalt THEN 0 ELSE held}
    ELSE IF f # "valid" THEN {held}
    ELSE {held} \union
         {d.qty : d \in {c \in {Size(Request(m, x, g, l, p)) :
                                  x \in Exposures, g \in Gaps, l \in Depths, p \in Prices} :
                         c.allowed}}

FirstSeen(same, e) == IF same /\ e > 0 THEN e ELSE TrueEquity

(* The fair value and the operator's HALT file are what they are just now. *)
Tick ==
    \E f \in FairStates, haltFile \in BOOLEAN :
        LET m == ObserveEquity(mem, Observed(f))
            s == [day |-> day, week |-> Week(day),
                  dayStart |-> FirstSeen(seen.day = day, seen.dayStart),
                  weekStart |-> FirstSeen(seen.week = Week(day), seen.weekStart),
                  high |-> Greater(seen.high, TrueEquity), losses |-> losses]
        IN  /\ mem' = m
            /\ IF m # mem THEN Save(m) ELSE UNCHANGED <<disk, failures>>
            /\ target' \in Targets(m, f, haltFile)
            /\ seen' = s
            /\ earned' = (earned \/ LimitReached(s, TrueEquity))
            /\ UNCHANGED <<world, moves, crashes, losses, forgot>>

(* Mutant: a win takes back one loss.                                      *)
CountedDown(n, pnl) == IF pnl < 0 THEN n + 1 ELSE n - 1

Counted(n, pnl) == IF pnl < 0 THEN n + 1 ELSE IF pnl > 0 THEN 0 ELSE n

(* RecordClosedTrade: the ledger's closed trades, before equity is seen.   *)
TradeCloses ==
    /\ moves < MaxMoves
    /\ moves' = moves + 1
    /\ \E pnl \in {-1, 1} :
         LET n == Counted(mem.losses, pnl)
             m == Latched(mem, n, TooManyLosses(n))
         IN  /\ mem' = m
             /\ Save(m)
             /\ losses' = Counted(losses, pnl)
             /\ earned' = (earned \/ TooManyLosses(losses'))
    /\ UNCHANGED <<world, target, crashes, seen, forgot>>

-----------------------------------------------------------------------------
(* The exchange closes a margin position before all is lost.               *)
Solvent(p) == cash + held * p > 0

(* The planner works towards the target, the exchange fills it in parts.   *)
Trades ==
    /\ \E h \in Lesser(held, target) .. Greater(held, target) :
         /\ h # held
         /\ h > held => cash >= (h - held) * price
         /\ held' = h
         /\ cash' = cash - (h - held) * price
    /\ UNCHANGED <<day, price, target, mem, disk, moves, failures, crashes, history>>

PriceMoves ==
    /\ moves < MaxMoves
    /\ moves' = moves + 1
    /\ price' \in Prices \ {price}
    /\ Solvent(price')
    /\ UNCHANGED <<day, cash, held, target, mem, disk, failures, crashes, history>>

DayEnds ==
    /\ day < MaxDays
    /\ day' = day + 1
    /\ UNCHANGED <<price, cash, held, target, mem, disk, moves, failures, crashes, history>>

(* Manager.load after a crash or a restart.                                *)
Restart ==
    /\ crashes < MaxCrashes
    /\ crashes' = crashes + 1
    /\ mem' = disk
    /\ target' = held
    /\ forgot' = IF failures > 0 /\ mem # disk THEN TRUE ELSE forgot
    /\ UNCHANGED <<world, disk, moves, failures, seen, losses, earned>>

-----------------------------------------------------------------------------
Init ==
    /\ day = 1
    /\ price \in Prices
    /\ cash = CapitalBase
    /\ held = 0
    /\ target = 0
    /\ mem = NoState
    /\ disk = NoState
    /\ moves = 0 /\ failures = 0 /\ crashes = 0
    /\ seen = [day |-> 0, dayStart |-> 0, week |-> -1, weekStart |-> 0, high |-> 0, losses |-> 0]
    /\ losses = 0
    /\ earned = FALSE
    /\ forgot = FALSE

Next ==
    \/ Tick \/ TradeCloses \/ Trades \/ Restart
    \/ PriceMoves \/ DayEnds

Spec == Init /\ [][Next]_vars

-----------------------------------------------------------------------------
StateType ==
    [day : 0 .. MaxDays, dayStart : Nat, week : Int, weekStart : Nat, high : Nat,
     losses : Nat, halt : BOOLEAN]

TypeOK ==
    /\ day \in 1 .. MaxDays
    /\ price \in Prices
    /\ {cash, losses} \subseteq Nat
    /\ {held, target} \subseteq Int
    /\ {mem, disk} \subseteq StateType
    /\ moves \in 0 .. MaxMoves /\ failures \in 0 .. MaxFailures /\ crashes \in 0 .. MaxCrashes
    /\ earned \in BOOLEAN /\ forgot \in BOOLEAN

-----------------------------------------------------------------------------
(* README: "daily hard loss", "weekly hard loss", "maximum high-water      *)
(* drawdown", "three consecutive realized losing trades: hard halt".  A    *)
(* limit that the account has reached at a tick halts trading for good,    *)
(* measured from the first equity of the day and of the week and from the  *)
(* highest equity there was, through restarts within the day and failing   *)
(* writes; only a crash after a failed write can hide it.                  *)
LossHalts == earned => mem.halt \/ forgot

(* README: "drawdown monitoring uses actual uncapped account equity".  A   *)
(* hard halt, which only an operator undoes, is latched by a loss that the *)
(* account has made.                                                       *)
HaltEarned == mem.halt => earned \/ forgot

(* A request as it is when the manager knows what truly happened.          *)
InTruth(r) ==
    [r EXCEPT !.equity = TrueEquity,
              !.dayLoss = Greater(0, FirstSeen(seen.day = day, seen.dayStart) - TrueEquity)]

(* README: "Target sizing is validated against the simulated dollar loss   *)
(* at the active stop" and "absolute gross exposure ceiling: 1.00x".  What *)
(* a tick may let the position grow to stays within the gross exposure of  *)
(* the true equity, and loses at its stop no more than the budget of one   *)
(* trade after the throttle of the day's true loss, unless what is held    *)
(* has already lost against its entry.                                     *)
GrowthWithinRisk ==
    \A x \in Exposures, g \in Gaps, l \in Depths, p \in Prices :
        LET m == ObserveEquity(mem, Observed("valid"))
            r == Request(m, x, g, l, p)
            t == InTruth(r)
            d == Size(r)
        IN  ~m.halt /\ ~forgot /\ d.allowed /\ Abs(d.qty) > Abs(held) =>
               /\ Abs(d.qty) * price <= AbsoluteCap(t)
               /\ Sign(held) * (price - p) >= 0 =>
                     10000 * StopLoss(t, Sign(d.qty), Abs(d.qty))
                        <= RiskPerTradeFraction * Throttle(t) * EffectiveEquity(t)
=============================================================================
