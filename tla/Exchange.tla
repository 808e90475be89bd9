------------------------------ MODULE Exchange ------------------------------
(***************************************************************************)
(* The exchange account as the bot's code relies on it: balances, a margin *)
(* position and the bot's open orders, which it fills in parts, in any     *)
(* order and at any time.  All of it is external to the program.           *)
(***************************************************************************)
EXTENDS Engine

CONSTANTS
    OrderIds,
    Lot,       \* fills come in multiples of Lot ...
    Fees       \* ... and a spot buy may pay one of Fees in XAUT

ASSUME ExchangeAssumption ==
    /\ OrderIds \subseteq Nat \ {0}
    /\ Lot \in Nat \ {0}
    /\ Fees \subseteq Nat
    /\ 0 \in Fees

VARIABLES
    spot,      \* XAUT in the exchange wallet
    margin,    \* margin position, negative when short
    orders     \* open orders of the bot

account == [spot |-> spot, margin |-> margin, orders |-> orders]

-----------------------------------------------------------------------------
(* A spot sell needs a balance no other sell has reserved, a reduce-only   *)
(* order a short to reduce.                                                *)
Reserved == MapThenSumSet(LAMBDA o : -o.rem,
                          {o \in orders : o.venue = "spot" /\ o.rem < 0})

Accepts(i) ==
    /\ i.venue = "spot" /\ i.amt < 0 => -i.amt + Reserved <= spot
    /\ i.close => margin < 0

Live(id, i) ==
    [id |-> id, gid |-> i.gid, venue |-> i.venue, rem |-> i.amt, px |-> i.px,
     close |-> i.close]

(* What is left of the book once q of order o is done: a reduce-only order *)
(* does not outlive the short it closes.                                   *)
AfterFill(o, q, short) ==
    LET rest == IF q = Abs(o.rem) THEN {}
                ELSE {[o EXCEPT !.rem = IF @ > 0 THEN @ - q ELSE @ + q]}
    IN  {p \in (orders \ {o}) \union rest : p.close => short > 0}

FillSpot(o, q, fee) ==
    /\ o.venue = "spot"
    /\ IF o.rem > 0
       THEN /\ fee < q
            /\ spot' = spot + q - fee
       ELSE /\ fee = 0
            /\ q <= spot
            /\ spot' = spot - q
    /\ orders' = AfterFill(o, q, -margin)
    /\ UNCHANGED margin

FillMargin(o, q) ==
    /\ o.venue = "margin"
    /\ o.close => q <= -margin
    /\ margin' = IF o.rem > 0 THEN margin + q ELSE margin - q
    /\ orders' = AfterFill(o, q, -margin')
    /\ UNCHANGED spot

Fill(o, q) ==
    /\ q % Lot = 0
    /\ \/ \E fee \in Fees : FillSpot(o, q, fee)
       \/ FillMargin(o, q)

FillIn(g) == \E o \in WithGid(orders, g) : \E q \in 1 .. Abs(o.rem) : Fill(o, q)

(* The order of each group, as the abstract specification sees the book.   *)
Summary(o) == [venue |-> o.venue, rem |-> o.rem, close |-> o.close]

BookOf(os) ==
    [g \in {"work", "stop"} |->
        IF WithGid(os, g) = {} THEN [venue |-> "none", rem |-> 0, close |-> FALSE]
        ELSE Summary(CHOOSE o \in os : o.gid = g)]

D == INSTANCE Desk WITH book <- BookOf(orders)

OrderType ==
    [id : OrderIds, gid : {"work", "stop"}, venue : {"spot", "margin"}, rem : Int,
     px : Nat, close : BOOLEAN]

ExchangeTypeOK ==
    /\ spot \in Nat
    /\ margin \in Int
    /\ orders \subseteq OrderType
=============================================================================
