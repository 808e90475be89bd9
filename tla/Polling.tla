------------------------------ MODULE Polling ------------------------------
(***************************************************************************)
(* internal/app/polling.go: when a tick asks the exchange for the public   *)
(* trades and for the funding ticker, and when it uses what it has.        *)
(*                                                                         *)
(* Times are kept as what is left of them: wait[s] until stream s is due   *)
(* and pause until publicBlocked, so that the model has no clock.  Time    *)
(* passes between ticks only: the code takes it once, when a tick starts.  *)
(***************************************************************************)
EXTENDS Integers

CONSTANTS
    TradesRefresh,    \* market.public_trades_refresh
    FundingRefresh,   \* funding.refresh_interval
    Second, Minute,
    MaxBackoff,       \* maximumPollBackoff
    MaxGap,           \* bound on the time between two ticks
    MaxLimits,        \* bound on the rate-limit answers
    MaxRestarts       \* bound on the restarts

(* Validate asks for positive intervals; the back-off may be shorter.      *)
ASSUME PollingAssumption ==
    /\ {TradesRefresh, FundingRefresh, Second, MaxGap} \subseteq Nat \ {0}
    /\ {MaxLimits, MaxRestarts} \subseteq Nat
    /\ Minute \in Nat /\ Second <= Minute
    /\ MaxBackoff \in Nat /\ Minute <= MaxBackoff

Less(a, b) == IF a < b THEN a ELSE b
More(a, b) == IF a > b THEN a ELSE b

Streams == {"trades", "funding"}
Interval == [trades |-> TradesRefresh, funding |-> FundingRefresh]
Horizon == More(MaxBackoff, More(TradesRefresh, FundingRefresh))

VARIABLES
    pc,        \* the stream a tick looks at, or "idle" between two ticks
    wait,      \* time until each stream is due
    backoff,   \* what a failure of each stream last added
    pause,     \* time until either stream may be asked again
    funding,   \* the cached funding: "none", "invalid" or "valid"
    limits, restarts

(* History: time since each stream was last asked and since the exchange   *)
(* last answered that it is asked too often, both no further than Horizon, *)
(* and how many failures of the same kind each stream has had in a row.    *)
VARIABLES since, sinceLimited, fails

history == <<since, sinceLimited, fails>>
vars == <<pc, wait, backoff, pause, funding, limits, restarts, history>>

-----------------------------------------------------------------------------
Later(t, d) == IF t > d THEN t - d ELSE 0
Aged(t, d) == Less(t + d, Horizon)

NextStream(s) == IF s = "trades" THEN "funding" ELSE "idle"

(* What is asked of stream s in this tick, if anything is.                 *)
Asks(s) == pc = s /\ pause = 0 /\ wait[s] = 0

StartTick ==
    /\ pc = "idle"
    /\ pc' = "trades"
    /\ \E d \in 1 .. MaxGap :
         /\ wait' = [s \in Streams |-> Later(wait[s], d)]
         /\ pause' = Later(pause, d)
         /\ since' = [s \in Streams |-> Aged(since[s], d)]
         /\ sinceLimited' = Aged(sinceLimited, d)
    /\ UNCHANGED <<backoff, funding, limits, restarts, fails>>

UsesCache(s) ==
    /\ pc = s
    /\ ~Asks(s)
    /\ pc' = NextStream(s)
    /\ UNCHANGED <<wait, backoff, pause, funding, limits, restarts, history>>

-----------------------------------------------------------------------------
NoFailure == [n |-> 0, limited |-> FALSE]

OneMore(f, limited) ==
    [n |-> IF f.limited = limited THEN Less(f.n + 1, Horizon) ELSE 1, limited |-> limited]

Answered(s) ==
    /\ Asks(s)
    /\ pc' = NextStream(s)
    /\ backoff' = [backoff EXCEPT ![s] = 0]
    /\ wait' = [wait EXCEPT ![s] = Interval[s]]
    /\ funding' = IF s = "funding" THEN "valid" ELSE funding
    /\ since' = [since EXCEPT ![s] = 0]
    /\ fails' = [fails EXCEPT ![s] = NoFailure]
    /\ UNCHANGED <<pause, limits, restarts, sinceLimited>>

Floor(s, limited) == More(Interval[s], IF limited THEN Minute ELSE Second)

(* Mutant: the doubling goes on.                                           *)
BackoffUnbounded(s, limited) ==
    IF backoff[s] < Floor(s, limited) THEN Floor(s, limited) ELSE 2 * backoff[s]

(* Mutant: a failure that waited the floor waits the floor again.          *)
BackoffAtFloor(s, limited) ==
    Less(MaxBackoff, IF backoff[s] <= Floor(s, limited) THEN Floor(s, limited) ELSE 2 * backoff[s])

(* pollSchedule.failed.                                                    *)
NextBackoff(s, limited) ==
    Less(MaxBackoff, IF backoff[s] < Floor(s, limited) THEN Floor(s, limited) ELSE 2 * backoff[s])

(* Mutant: every failure pauses both streams.                              *)
PauseOnAnyFailure(s, limited) == More(pause, NextBackoff(s, limited))

(* Mutant: the other stream goes on.                                       *)
NoPause(s, limited) == pause

(* blockPublicEndpointUntil.                                               *)
NextPause(s, limited) == IF limited THEN More(pause, NextBackoff(s, limited)) ELSE pause

Failed(s, limited) ==
    /\ Asks(s)
    /\ limited => limits < MaxLimits
    /\ limits' = IF limited THEN limits + 1 ELSE limits
    /\ pc' = NextStream(s)
    /\ backoff' = [backoff EXCEPT ![s] = NextBackoff(s, limited)]
    /\ wait' = [wait EXCEPT ![s] = NextBackoff(s, limited)]
    /\ pause' = NextPause(s, limited)
    /\ funding' = IF s = "funding" /\ funding = "none" THEN "invalid" ELSE funding
    /\ since' = [since EXCEPT ![s] = 0]
    /\ fails' = [fails EXCEPT ![s] = OneMore(@, limited)]
    /\ sinceLimited' = IF limited THEN 0 ELSE sinceLimited
    /\ UNCHANGED restarts

-----------------------------------------------------------------------------
Nil == [s \in Streams |-> 0]

Init ==
    /\ pc = "idle"
    /\ wait = Nil
    /\ backoff = Nil
    /\ pause = 0
    /\ funding = "none"
    /\ since = [s \in Streams |-> Horizon]
    /\ sinceLimited = Horizon
    /\ fails = [s \in Streams |-> NoFailure]
    /\ limits = 0
    /\ restarts = 0

(* Nothing of this is stored, and the history is that of one process.      *)
Restart ==
    /\ restarts < MaxRestarts
    /\ restarts' = restarts + 1
    /\ pc' = "idle"
    /\ wait' = Nil
    /\ backoff' = Nil
    /\ pause' = 0
    /\ funding' = "none"
    /\ since' = [s \in Streams |-> Horizon]
    /\ sinceLimited' = Horizon
    /\ fails' = [s \in Streams |-> NoFailure]
    /\ UNCHANGED limits

Poll(s) == UsesCache(s) \/ Answered(s) \/ \E limited \in BOOLEAN : Failed(s, limited)

Next == StartTick \/ (\E s \in Streams : Poll(s)) \/ Restart

(* The ticker ticks and every request returns.                             *)
Spec == Init /\ [][Next]_vars /\ WF_vars(StartTick \/ \E s \in Streams : Poll(s))

-----------------------------------------------------------------------------
TypeOK ==
    /\ pc \in Streams \union {"idle"}
    /\ wait \in [Streams -> 0 .. Horizon]
    /\ backoff \in [Streams -> 0 .. MaxBackoff]
    /\ pause \in 0 .. MaxBackoff
    /\ funding \in {"none", "invalid", "valid"}
    /\ limits \in 0 .. MaxLimits
    /\ restarts \in 0 .. MaxRestarts
    /\ since \in [Streams -> 0 .. Horizon]
    /\ sinceLimited \in 0 .. Horizon
    /\ fails \in [Streams -> [n : 0 .. Horizon, limited : BOOLEAN]]

-----------------------------------------------------------------------------
Requests(s) == Answered(s) \/ \E limited \in BOOLEAN : Failed(s, limited)

(* README: "rate-limit responses pause both streams".  For a minute after  *)
(* the exchange answers one stream that it is asked too often, the process *)
(* asks neither, whatever was due and whatever back-off was running.       *)
QuietAfterLimit ==
    [][\A s \in Streams : Requests(s) => sinceLimited >= Minute]_vars

(* README: "retry with exponential backoff up to five minutes".  Between a *)
(* request and the next of the same stream lies its interval, or after n   *)
(* failures of one kind in a row n - 1 doublings of the first wait, up to  *)
(* the longest back-off.                                                   *)
Due(s) ==
    IF fails[s].n = 0 THEN Interval[s]
    ELSE Less(MaxBackoff, Floor(s, fails[s].limited) * 2 ^ (fails[s].n - 1))

BacksOff ==
    [][\A s \in Streams : Requests(s) => since[s] = Horizon \/ since[s] >= Due(s)]_vars

(* ARCHITECTURE: a rate limit applies "a shared pause to both" streams,    *)
(* and a failure of another kind concerns its own stream.  Once the rate   *)
(* limits are over, both streams are asked again and again, however often  *)
(* either fails: the cached trades and the cached funding never freeze.    *)
BothRefreshed == \A s \in Streams : []<>(since[s] = 0)
=============================================================================
