------------------------------- MODULE Reentry -------------------------------
(***************************************************************************)
(* The whole tick of internal/app around the re-entry block: tracker,      *)
(* strategy, ledger, risk manager, planner and exchange, in the order of   *)
(* the code.  A stop-out is learned in two ways, from the software stop    *)
(* before the signal is computed and from the ledger after it.             *)
(*                                                                         *)
(* The target is the side the signal wants at a size the risk manager is   *)
(* free to choose among Targets.  A trade of the ledger is a period with   *)
(* inventory: fees are in USD here, what fees in XAUT do is in Ledger.     *)
(***************************************************************************)
EXTENDS SyncLoop, Strategy, Sequences

CONSTANT Features   \* what the market can look like to a tick

ASSUME ReentryAssumption ==
    Features \subseteq [market : {"bad", "rough", "calm"}, trend : Int, z : Int,
                        agree : BOOLEAN, raw : {-1, 0, 1}, confident : BOOLEAN,
                        edge : BOOLEAN, funded : BOOLEAN]

VARIABLES
    block,     \* the strategy's blockedLongAt and blockedShortAt, as ages
    closings,  \* trades closed at the exchange that the ledger has yet to see
    reason,    \* lastExitReason: "none", "stop" or "other"
    reset      \* whether the last tick saw a reset thesis

reentryVars == <<vars, block, closings, reason, reset>>

-----------------------------------------------------------------------------
(* A fill that leaves the account flat closes a trade.                     *)
Closing(stop) ==
    closings' = IF spot + margin # 0 /\ spot' + margin' = 0
                THEN Append(closings, [side |-> Side(spot + margin), stop |-> stop,
                                       elapsed |-> 0])
                ELSE closings

WorkingFills == FillWorking /\ Closing(FALSE) /\ UNCHANGED <<block, reason, reset>>

StopFills == StopTriggers /\ Closing(TRUE) /\ UNCHANGED <<block, reason, reset>>

-----------------------------------------------------------------------------
Older(elapsed) == IF elapsed \in 0 .. Cooldown - 1 THEN elapsed + 1 ELSE elapsed

(* The trades a tick could not read are a tick further back at the next.   *)
OlderClosings ==
    [n \in DOMAIN closings |-> [closings[n] EXCEPT !.elapsed = Older(@)]]

(* What the fills of the ledger do to the block: a trade closed by a STOP  *)
(* order, or while the last exit was a stop, blocks its side from the time *)
(* of that fill; the trades are taken in their order, so the last one      *)
(* counts.                                                                 *)
Stopouts(seen, why, side) ==
    {n \in DOMAIN seen : seen[n].side = side /\ (seen[n].stop \/ why = "stop")}

AfterFills(b, seen, why) ==
    [side \in {-1, 1} |->
        IF Stopouts(seen, why, side) = {} THEN b[side]
        ELSE seen[Max(Stopouts(seen, why, side))].elapsed]

(* Evaluate, when nothing is wrong with the account or the market: the     *)
(* target can only shrink on its way through the risk manager.             *)
Sized(want, net) ==
    CASE want = "flat"  -> {0}
      [] want = "long"  -> {q \in Targets : q >= 0}
      [] want = "short" -> {q \in Targets : q <= 0}
      [] want = "hold"  -> {net} \union {q \in Targets : q * net >= 0 /\ Abs(q) <= Abs(net)}

TradingTick ==
    \E f \in Features, level \in Levels, aged \in SUBSET Ids(WithGid(orders, "work")),
       bookOk \in BOOLEAN, allowed \in BOOLEAN, fetched \in BOOLEAN :
        LET t     == IF bookOk THEN Observe(tracker, account, level) ELSE tracker
            exit  == bookOk /\ ExitRequired(t, account)
            stop  == exit /\ ~Simultaneous(account) /\ t.hit
            older == [s \in {-1, 1} |-> Older(block[s])]
            known == IF stop THEN MarkStopped(older, Side(t.qty), 0) ELSE older
            why   == IF ~exit THEN reason ELSE IF stop THEN "stop" ELSE "other"
            held  == Side(NetXAUT(account))
            s     == Signal(f, held, known)
            seen  == IF fetched THEN closings ELSE <<>>
            after == IF seen = <<>> THEN why ELSE "none"
            refused == s.noNew \/ ~allowed \/ ~bookOk
        IN  \E q \in IF refused THEN {NetXAUT(account)} ELSE Sized(s.want, NetXAUT(account)) :
                /\ fetched \/ closings = <<>> \/ changes < MaxChanges
                /\ changes' = IF fetched \/ closings = <<>> THEN changes ELSE changes + 1
                /\ tracker' = t
                /\ target' = q
                /\ blocked' = refused
                /\ block' = AfterFills(BlockAfter(f, held, known), seen, why)
                /\ closings' = IF fetched THEN <<>> ELSE OlderClosings
                /\ reason' = IF ~refused /\ Abs(NetXAUT(account)) > Tol
                                /\ (Abs(q) <= Tol \/ q * NetXAUT(account) < 0)
                             THEN "other" ELSE after
                /\ reset' = ThesisReset(f)
                /\ Execute(TickPlan(account, t, q, exit, refused, cap, aged, bookOk))
                /\ UNCHANGED <<spot, margin, cap>>

-----------------------------------------------------------------------------
StopIsHit == PriceMoves /\ UNCHANGED <<block, closings, reason, reset>>

ReentryInit ==
    /\ Init
    /\ target = 0
    /\ block = [s \in {-1, 1} |-> Unblocked]
    /\ closings = <<>>
    /\ reason = "none"
    /\ reset = FALSE

ReentryNext == TradingTick \/ WorkingFills \/ StopFills \/ StopIsHit

ReentrySpec == ReentryInit /\ [][ReentryNext]_reentryVars

-----------------------------------------------------------------------------
ReentryTypeOK ==
    /\ ExchangeTypeOK
    /\ tracker \in [qty : Int, stop : Nat, hit : BOOLEAN, due : BOOLEAN]
    /\ tracker.qty # 0 => tracker.stop > 0
    /\ target \in Int
    /\ blocked \in BOOLEAN
    /\ cap \in Caps
    /\ changes \in 0 .. MaxChanges
    /\ block \in [{-1, 1} -> -1 .. Cooldown]
    /\ closings \in Seq([side : {-1, 1}, stop : BOOLEAN, elapsed : 0 .. Cooldown])
    /\ reason \in {"none", "stop", "other"}
    /\ reset \in BOOLEAN

(* The new opening orders of a step, by side.                              *)
Entered(side) ==
    \E o \in orders' : o.id \notin Ids(orders) /\ Opens(o.venue, o.rem) /\ Side(o.rem) = side

(* README: "A stopped direction is blocked from immediate re-entry until   *)
(* both a cooldown and thesis-reset condition are satisfied."  From the    *)
(* tick after the one that learned of a stop-out on, by way of the         *)
(* tracker or of the ledger, no order in its direction is sent before.     *)
ReentryOnlyAfterReset ==
    [][\A side \in {-1, 1} :
          block[side] # Unblocked /\ Entered(side) =>
              Older(block[side]) = Cooldown /\ reset']_reentryVars
=============================================================================
