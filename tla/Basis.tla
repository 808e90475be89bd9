------------------------------- MODULE Basis -------------------------------
(***************************************************************************)
(* internal/features and what internal/app does with it: the rolling       *)
(* window of basis samples, one a minute, its file, its reload after a     *)
(* restart together with candles the exchange still has, and the closed    *)
(* candles of a timeframe.                                                 *)
(*                                                                         *)
(* Minutes count from 1; 0 is the zero time.  The value of a sample is     *)
(* named by the minute and the source it was computed from, and a closed   *)
(* candle by its bucket.  The statistics of the windows are left out.      *)
(***************************************************************************)
EXTENDS Integers, Sequences, FiniteSets, Functions

CONSTANTS
    BasisWindow, WarmupSamples,
    FrameMinutes,     \* duration of a candle
    FrameWindow,      \* closed candles kept
    MaxMinutes, MaxJump, MaxFailures, MaxRestarts   \* bounds

ASSUME BasisAssumption ==
    /\ WarmupSamples \in Nat /\ WarmupSamples >= 2
    /\ BasisWindow \in Nat /\ BasisWindow >= WarmupSamples
    /\ {FrameMinutes, FrameWindow} \subseteq Nat \ {0}
    /\ {MaxJump, MaxFailures, MaxRestarts} \subseteq Nat
    /\ MaxMinutes \in Nat /\ MaxMinutes > BasisWindow

VARIABLES
    now,        \* the minute
    basis,      \* the engine's basis window
    saved,      \* basisPersisted, the last minute known to be in the file
    disk,       \* basis_state.json
    frame,      \* one timeframe
    failures, restarts

(* History: what the candles of the exchange were good for at the last     *)
(* restart: "all", "some" or "none".                                       *)
VARIABLE candles

vars == <<now, basis, saved, disk, frame, failures, restarts, candles>>

-----------------------------------------------------------------------------
(* series.Window keeps its values in a ring, the engine keeps their times  *)
(* and sources in slices next to it.                                       *)
NoBasis ==
    [ring |-> [i \in 0 .. BasisWindow - 1 |-> <<>>], next |-> 0, full |-> FALSE,
     times |-> <<>>, sources |-> <<>>, bucket |-> 0]

Computed(at, src) == [at |-> at, src |-> src, val |-> <<at, src>>]

(* Mutant: nothing is dropped.                                             *)
LastUncapped(s, n) == s

LastOf(s, n) == IF Len(s) > n THEN SubSeq(s, Len(s) - n + 1, Len(s)) ELSE s

AddSample(b, s) ==
    [ring |-> [b.ring EXCEPT ![b.next] = s.val],
     next |-> (b.next + 1) % BasisWindow,
     full |-> b.full \/ b.next + 1 = BasisWindow,
     times |-> LastOf(Append(b.times, s.at), BasisWindow),
     sources |-> LastOf(Append(b.sources, s.src), BasisWindow),
     bucket |-> s.at]

(* Mutant: the ring is read from its first cell on.                        *)
ValuesUnrotated(b) ==
    [i \in 1 .. IF b.full THEN BasisWindow ELSE b.next |-> b.ring[i - 1]]

Values(b) ==
    IF b.full THEN [i \in 1 .. BasisWindow |-> b.ring[(b.next + i - 1) % BasisWindow]]
    ELSE [i \in 1 .. b.next |-> b.ring[i - 1]]

BasisSamples(b) ==
    [i \in 1 .. Len(Values(b)) |->
        [at |-> b.times[i], src |-> b.sources[i], val |-> Values(b)[i]]]

LatestBasisTime(b) == IF b.times = <<>> THEN 0 ELSE b.times[Len(b.times)]

-----------------------------------------------------------------------------
(* sort.Slice: the i-th of a set of numbers is the one with i - 1 below it. *)
Ordered(S) ==
    [i \in 1 .. Cardinality(S) |-> CHOOSE m \in S : Cardinality({k \in S : k < m}) = i - 1]

(* What survives of what is supplied: the window's minutes, at most as     *)
(* many as it holds, in order.                                             *)
Usable(samples) ==
    LET minutes == {s.at : s \in samples} \intersect (now - BasisWindow .. now)
        kept == LastOf(Ordered(minutes), BasisWindow)
    IN  [i \in DOMAIN kept |-> CHOOSE s \in samples : s.at = kept[i]]

(* The window once a sequence that fits has been added to an empty one.    *)
Filled(s) ==
    [ring |-> [i \in 0 .. BasisWindow - 1 |-> IF i < Len(s) THEN s[i + 1].val ELSE <<>>],
     next |-> Len(s) % BasisWindow,
     full |-> Len(s) = BasisWindow,
     times |-> [i \in DOMAIN s |-> s[i].at],
     sources |-> [i \in DOMAIN s |-> s[i].src],
     bucket |-> IF s = <<>> THEN 0 ELSE s[Len(s)].at]

SeedBasis(samples) == Filled(Usable(samples))

(* Mutant: a candle replaces the sample of its minute.                     *)
MergedByOrder(persisted, historical) ==
    historical \union {s \in persisted : \A h \in historical : h.at # s.at}

(* mergeBasisSamples, three times over: samples of the live book win.      *)
Merged(persisted, historical) ==
    persisted \union {h \in historical : \A s \in persisted : h.at # s.at}

FromCandles(minutes) == {Computed(m, "rest") : m \in minutes}

(* Mutant: only a missing file is filled up.                               *)
BackfillIfAbsent(persisted) == persisted = {}

NeedsBackfill(persisted) ==
    \/ Cardinality(persisted) < WarmupSamples
    \/ \A s \in persisted : now - s.at > 2      \* minutes

-----------------------------------------------------------------------------
(* persistBasis, which may fail.                                           *)
Persist(b) ==
    \/ /\ disk' = BasisSamples(b)
       /\ saved' = LatestBasisTime(b)
       /\ UNCHANGED failures
    \/ /\ failures < MaxFailures
       /\ failures' = failures + 1
       /\ UNCHANGED <<disk, saved>>

NotPersisted == UNCHANGED <<disk, saved, failures>>

(* frame.addClosed, and frame.update with the price of the moment.         *)
NoFrame == [closes |-> <<>>, bucket |-> -1]
BucketOf(minute) == minute \div FrameMinutes

AddClosed(f, bucket) ==
    [closes |-> LastOf(Append(f.closes, bucket), FrameWindow), bucket |-> bucket]

UpdateFrame(f) ==
    LET b == BucketOf(now)
    IN  IF f.bucket = -1 THEN [f EXCEPT !.bucket = b]
        ELSE IF b > f.bucket THEN [AddClosed(f, f.bucket) EXCEPT !.bucket = b]
        ELSE f

(* Mutant: the last seeded candle stays the live one.                      *)
SeedFrameOpen(buckets) ==
    LET closed == LastOf(Ordered({b \in buckets : b < BucketOf(now)}), FrameWindow)
    IN  [closes |-> closed, bucket |-> IF closed = <<>> THEN -1 ELSE closed[Len(closed)]]

(* frame.addClosed for every candle that is over, and no live one.         *)
SeedFrame(buckets) ==
    [closes |-> LastOf(Ordered({b \in buckets : b < BucketOf(now)}), FrameWindow),
     bucket |-> -1]

-----------------------------------------------------------------------------
(* Engine.Update, then the write when something is not in the file yet.    *)
(* Mutant: a tick that takes no sample writes nothing.                     *)
TickSavesSample ==
    /\ \E valid \in BOOLEAN :
         LET sampled == valid /\ now > basis.bucket
             b == IF sampled THEN AddSample(basis, Computed(now, "live")) ELSE basis
         IN  /\ basis' = b
             /\ frame' = IF valid THEN UpdateFrame(frame) ELSE frame
             /\ IF sampled THEN Persist(b) ELSE NotPersisted
    /\ UNCHANGED <<now, restarts, candles>>

Tick ==
    /\ \E valid \in BOOLEAN :
         LET b == IF valid /\ now > basis.bucket
                  THEN AddSample(basis, Computed(now, "live"))
                  ELSE basis
         IN  /\ basis' = b
             /\ frame' = IF valid THEN UpdateFrame(frame) ELSE frame
             /\ IF LatestBasisTime(b) > saved THEN Persist(b) ELSE NotPersisted
    /\ UNCHANGED <<now, restarts, candles>>

TimePasses ==
    /\ \E d \in 1 .. MaxJump : now + d <= MaxMinutes /\ now' = now + d
    /\ UNCHANGED <<basis, saved, disk, frame, failures, restarts, candles>>

(* A crash anywhere, then New, seedTimeframes and seedBasis.  Candles of   *)
(* minutes and buckets may be missing, or all of them.                     *)
CandleMinutes == now - BasisWindow .. now - 1
CandleBuckets == {b \in BucketOf(now) - FrameWindow .. BucketOf(now) : b >= 0}

Restart ==
    /\ restarts < MaxRestarts
    /\ restarts' = restarts + 1
    /\ \E minutes \in SUBSET CandleMinutes, buckets \in SUBSET CandleBuckets :
         LET persisted == Range(disk)
             historical == IF NeedsBackfill(persisted) THEN FromCandles(minutes) ELSE {}
             b == SeedBasis(Merged(persisted, historical))
         IN  /\ basis' = b
             /\ frame' = SeedFrame(buckets)
             /\ candles' = IF minutes = CandleMinutes THEN "all"
                           ELSE IF minutes = {} THEN "none" ELSE "some"
             /\ IF b # NoBasis
                THEN \/ disk' = BasisSamples(b) /\ saved' = LatestBasisTime(b)
                        /\ UNCHANGED failures
                     \/ /\ failures < MaxFailures
                        /\ failures' = failures + 1
                        /\ saved' = 0
                        /\ UNCHANGED disk
                ELSE saved' = 0 /\ UNCHANGED <<disk, failures>>
    /\ UNCHANGED now

-----------------------------------------------------------------------------
(* The exchange has candles of the time before the bot first ran.          *)
Init ==
    /\ now = BasisWindow + 1
    /\ basis = NoBasis
    /\ saved = 0
    /\ disk = <<>>
    /\ frame = NoFrame
    /\ failures = 0
    /\ restarts = 0
    /\ candles = "none"

Next == Tick \/ TimePasses \/ Restart

Spec == Init /\ [][Next]_vars

-----------------------------------------------------------------------------
Sample == [at : 1 .. MaxMinutes, src : {"live", "rest"},
           val : (1 .. MaxMinutes) \X {"live", "rest"}]

TypeOK ==
    /\ now \in 1 .. MaxMinutes
    /\ Len(BasisSamples(basis)) <= BasisWindow
    /\ Range(BasisSamples(basis)) \union Range(disk) \subseteq Sample
    /\ saved \in 0 .. MaxMinutes
    /\ Len(frame.closes) <= FrameWindow
    /\ frame.bucket \in -1 .. BucketOf(MaxMinutes)

-----------------------------------------------------------------------------
(* basis_state.go rebuilds samples from a ring of values and two slices:   *)
(* every value is saved with the minute and the source it was taken from,  *)
(* and no minute counts twice, however often the window has wrapped around *)
(* and been reloaded.                                                      *)
Matched(samples) ==
    /\ \A i \in DOMAIN samples : samples[i].val = <<samples[i].at, samples[i].src>>
    /\ \A i, j \in DOMAIN samples : i < j => samples[i].at < samples[j].at

SamplesMatch == Matched(BasisSamples(basis)) /\ Matched(disk)

(* engine.go: "Start a fresh live bucket instead of closing the final      *)
(* seeded candle a second time".  No candle of a timeframe is closed       *)
(* twice, seeded, live or both.                                            *)
ClosedOnce == \A i, j \in DOMAIN frame.closes : i < j => frame.closes[i] < frame.closes[j]

(* app.go: "Persisted live-book samples are more exact than candle         *)
(* approximations."  A restart keeps every live sample that the window     *)
(* still covers, whatever candles it fetches.                              *)
LiveSurvives ==
    [][restarts' # restarts =>
          \A s \in Range(disk) : s.src = "live" /\ s.at > now - BasisWindow
                => s \in Range(BasisSamples(basis'))]_vars

(* A sample whose write failed is written by a later tick, be the books    *)
(* valid by then or not: after any tick in which no write fails the file   *)
(* holds the window.                                                       *)
FileCatchesUp ==
    [][now' = now /\ restarts' = restarts /\ failures' = failures => disk' = BasisSamples(basis')]_vars

(* ARCHITECTURE: "If the state is absent, insufficient or stale, it        *)
(* requests" candles.  A restart for which the exchange has all candles of *)
(* the window is warm, as long as the file holds nothing older.            *)
WarmAfterRestart ==
    [][/\ restarts' # restarts /\ candles' = "all"
       /\ \A s \in Range(disk) : s.at >= now - BasisWindow
       => Len(BasisSamples(basis')) >= WarmupSamples]_vars
=============================================================================
