----------------------------- MODULE Detection -----------------------------
(***************************************************************************)
(* Baselines and the debounced detectors of one tenant                      *)
(* (src/internal/anomaly: baseline.go, detectors.go).  Each RED bucket of a *)
(* key feeds its baseline; each tick the detectors judge the buckets of     *)
(* their window against it.  Every map is keyed by tenant.                  *)
(*                                                                          *)
(* A tick and a bucket take one unit of time.  Averages are exact in units  *)
(* of 1/Scale, with the smoothing factor 1/2; slots hold fewer than five    *)
(* samples, so that their estimators still keep them all.                   *)
(***************************************************************************)
EXTENDS Integers, Sequences, FiniteSets

CONSTANTS
  Keys,          \* (service, operation)
  Loads,         \* [calls, errors, p95]: what a bucket may hold
  HourOf(_),     \* the season slot of a time
  Scale,         \* units of an average
  MaxKeys, WarmupSamples, WarmupPerBucket, MaxColdStart, EvalWindow, DebounceTicks,
  LatencyRatio, LatencyDelta, ErrorDelta, ErrorRatio, DropRatio, \* in halves, but for the deltas
  MinSamples,    \* min_calls
  MinRate,       \* min_rps, per bucket and in units
  MaxBuckets     \* bound on time, for checking

ASSUME DetectionAssumption ==
  /\ MaxKeys \in Nat \ {0} /\ DebounceTicks \in Nat \ {0}
  /\ WarmupSamples \in Nat /\ MaxColdStart \in Nat

Kinds == {"latency_shift", "error_burst", "throughput_drop"}

VARIABLES
  dnow,        \* the clock, in buckets
  base,        \* key -> its baseline entry
  window,      \* <<key, bucket>> -> its load, for the buckets of the evaluation window
  consecutive, \* <<kind, key>> -> breaches in a row
  ticked,      \* whether this bucket's tick has run
  events       \* the events so far: [kind, key, at, samples, cold, provisional]

detectionVars == <<dnow, base, window, consecutive, ticked, events>>

DetectionInit ==
  /\ dnow = 0 /\ ticked = FALSE /\ events = {}
  /\ base = [k \in {} |-> 0] /\ window = [x \in {} |-> 0]
  /\ consecutive = [x \in Kinds \X Keys |-> 0]

-----------------------------------------------------------------------------
(* Baselines.                                                              *)

EmptySlot == [samples |-> 0, p95 |-> <<>>, err |-> 0, rps |-> 0]
Smoothed(old, new) == (old + new) \div 2
ErrorRate(l) == IF l.calls = 0 THEN 0 ELSE (l.errors * Scale) \div l.calls

Insorted(s, v) == LET n == Cardinality({i \in DOMAIN s : s[i] <= v})
                  IN  [i \in 1..Len(s) + 1 |-> IF i <= n THEN s[i] ELSE IF i = n + 1 THEN v ELSE s[i - 1]]

\* Quantile, in percent: the estimators index the sorted samples, rounding down.
Quantile(s, q) == IF s = <<>> THEN 0 ELSE s[1 + (q * (Len(s) - 1)) \div 100]

Updated(slot, l) ==
  [samples |-> slot.samples + 1, p95 |-> Insorted(slot.p95, l.p95),
   err |-> Smoothed(slot.err, ErrorRate(l)), rps |-> Smoothed(slot.rps, l.calls * Scale)]

\* The least busy of the oldest tenth, at least one key; keys of the same age
\* are sorted in any order.
Oldest(n) == {S \in SUBSET DOMAIN base :
                Cardinality(S) = n /\ \A k \in S, j \in DOMAIN base \ S : base[k].updated <= base[j].updated}
Victims == {v \in DOMAIN base : \E S \in Oldest(Cardinality(DOMAIN base) \div 10 + 1) :
              v \in S /\ \A k \in S : base[v].global.rps <= base[k].global.rps}

NewEntry == [firstSeen |-> dnow, updated |-> dnow, global |-> EmptySlot, seasons |-> [h \in {HourOf(t) : t \in 0..MaxBuckets} |-> EmptySlot]]

Observed(k, l, kept) ==
  LET e == IF k \in DOMAIN base THEN base[k] ELSE NewEntry
      h == HourOf(dnow)
      new == [e EXCEPT !.updated = dnow, !.global = Updated(@, l), !.seasons[h] = Updated(@, l)]
  IN  [j \in kept \cup {k} |-> IF j = k THEN new ELSE base[j]]

\* A bucket reaches the baselines and the detectors' window.
Observe(k, l) ==
  /\ <<k, dnow>> \notin DOMAIN window /\ ~ticked
  /\ IF k \in DOMAIN base \/ Cardinality(DOMAIN base) < MaxKeys
     THEN base' = Observed(k, l, DOMAIN base)
     ELSE \E v \in Victims : base' = Observed(k, l, DOMAIN base \ {v})
  /\ window' = [x \in DOMAIN window \cup {<<k, dnow>>} |-> IF x = <<k, dnow>> THEN l ELSE window[x]]
  /\ UNCHANGED <<dnow, consecutive, ticked, events>>

\* Not the code: a season slot judged before the key's own warm-up.
StateBySamples(k) ==
  IF base[k].seasons[HourOf(dnow)].samples < WarmupPerBucket THEN "globalOnly" ELSE "warm"

State(k) ==
  LET e == base[k] IN
  IF e.global.samples < WarmupSamples THEN IF dnow - e.firstSeen > MaxColdStart THEN "decreed" ELSE "cold"
  ELSE IF e.seasons[HourOf(dnow)].samples < WarmupPerBucket THEN "globalOnly" ELSE "warm"

\* Get: the hour's slot once it is warm or decreed so, if it was ever touched.
Get(k) ==
  LET slot == base[k].seasons[HourOf(dnow)]
      seasonal == State(k) \in {"warm", "decreed"} /\ slot.samples > 0
      from == IF seasonal THEN slot ELSE base[k].global
  IN  [p95 |-> Quantile(from.p95, IF seasonal THEN 50 ELSE 95), err |-> from.err, rps |-> from.rps,
       known |-> State(k) # "cold", widened |-> State(k) = "globalOnly",
       provisional |-> State(k) \in {"globalOnly", "decreed"}]

-----------------------------------------------------------------------------
(* Detectors.                                                              *)

Buckets(k) == {t \in 0..dnow : <<k, t>> \in DOMAIN window}
Judged == {k \in Keys : Buckets(k) # {}}
Latest(S) == CHOOSE t \in S : \A u \in S : u <= t

\* The window's buckets of a key, summed; the latest one's quantile.
Group(k) ==
  LET calls[n \in 0..dnow + 1] == IF n = 0 THEN 0 ELSE calls[n - 1] + IF n - 1 \in Buckets(k) THEN window[k, n - 1].calls ELSE 0
      errors[n \in 0..dnow + 1] == IF n = 0 THEN 0 ELSE errors[n - 1] + IF n - 1 \in Buckets(k) THEN window[k, n - 1].errors ELSE 0
  IN  [calls |-> calls[dnow + 1], errors |-> errors[dnow + 1], p95 |-> window[k, Latest(Buckets(k))].p95]

\* Thresholds are half as high again while only the global slot is warm.
Widen(b, x) == IF b.widened THEN 3 * x ELSE 2 * x

Breach(kind, k) ==
  LET b == Get(k)  g == Group(k)  rate == ErrorRate(g) IN
  k \in DOMAIN base /\ b.known /\
  CASE kind = "latency_shift" ->
         /\ b.p95 > 0 /\ g.calls >= MinSamples
         /\ 4 * g.p95 >= b.p95 * Widen(b, LatencyRatio) /\ 2 * (g.p95 - b.p95) >= Widen(b, LatencyDelta)
    [] kind = "error_burst" ->
         /\ g.calls > 0 /\ g.calls >= MinSamples
         /\ 2 * (rate - b.err) >= Widen(b, ErrorDelta) /\ 4 * rate >= b.err * Widen(b, ErrorRatio)
    [] kind = "throughput_drop" ->
         b.rps >= MinRate /\ 2 * g.calls * Scale <= b.rps * EvalWindow * DropRatio

Fires(x) == x[2] \in Judged /\ Breach(x[1], x[2]) /\ consecutive[x] + 1 >= DebounceTicks
Event(x) == [kind |-> x[1], key |-> x[2], at |-> dnow, samples |-> base[x[2]].global.samples,
             cold |-> dnow - base[x[2]].firstSeen <= MaxColdStart, provisional |-> Get(x[2]).provisional]

\* A key without a bucket in the window is not judged: its counts stay.
EvaluateKeys ==
  /\ ~ticked /\ ticked' = TRUE
  /\ events' = events \cup {Event(x) : x \in {y \in Kinds \X Keys : Fires(y)}}
  /\ consecutive' = [x \in Kinds \X Keys |->
       IF x[2] \notin Judged THEN consecutive[x]
       ELSE IF Breach(x[1], x[2]) /\ ~Fires(x) THEN consecutive[x] + 1 ELSE 0]
  /\ UNCHANGED <<dnow, base, window>>

NextBucket ==
  /\ ticked /\ dnow < MaxBuckets
  /\ dnow' = dnow + 1 /\ ticked' = FALSE
  /\ window' = [x \in {y \in DOMAIN window : y[2] > dnow + 1 - EvalWindow} |-> window[x]]
  /\ UNCHANGED <<base, consecutive, events>>

DetectionNext == (\E k \in Keys, l \in Loads : Observe(k, l)) \/ EvaluateKeys \/ NextBucket
DetectionSpec == DetectionInit /\ [][DetectionNext]_detectionVars

-----------------------------------------------------------------------------
(* Properties.                                                             *)

\* A tenant holds at most MaxKeys baselines (Observe, evictOne).
KeysBounded == Cardinality(DOMAIN base) <= MaxKeys

\* Nothing fires on a baseline that is cold, one that eviction had reset
\* included, unless the key has been known for max_cold_start; and no such
\* event passes for a warm one (classifyState, the detectors).
ColdSuppressed == \A e \in events : e.samples >= WarmupSamples \/ (~e.cold /\ e.provisional)

\* Two events of one detector about one key are DebounceTicks ticks apart,
\* whatever happened in between (Evaluate).
Debounced == \A d, e \in events : d.kind = e.kind /\ d.key = e.key /\ d.at < e.at => e.at - d.at >= DebounceTicks

DetectionSound == KeysBounded /\ ColdSuppressed /\ Debounced

\* A key whose traffic stops is a drop below half its rate: once the window has
\* been empty for the ticks of the debounce, an event says so (FR-F05-13).
SilenceReported ==
  \A k \in DOMAIN base :
    (ticked /\ State(k) = "warm" /\ base[k].seasons[HourOf(dnow)].rps >= MinRate
            /\ dnow - base[k].updated >= EvalWindow + DebounceTicks)
      => \E e \in events : e.kind = "throughput_drop" /\ e.key = k /\ e.at > base[k].updated
=============================================================================
