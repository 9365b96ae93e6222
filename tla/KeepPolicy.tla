----------------------------- MODULE KeepPolicy -----------------------------
(***************************************************************************)
(* The keep policy of one tenant (src/internal/sampler/policy.go and       *)
(* tokenbucket.go): the class of each finalized trace, the token buckets   *)
(* of the rare and floor classes, and the shedding above max_keep_rate.    *)
(* Every map of DefaultPolicy is keyed by tenant, so tenants do not meet.  *)
(*                                                                         *)
(* A tick is the W-th part of the sixty-second window.  Tokens are counted *)
(* in W-ths: a bucket of capacity c holds c * W, gains c per tick, and     *)
(* Take costs W.                                                           *)
(***************************************************************************)
EXTENDS Integers, FiniteSets, Sequences

CONSTANTS
  W,           \* ticks in the window
  Lookback,    \* sampler.policy.rare_path_lookback, in ticks
  RareCap,     \* rare_path_keeps_per_min
  FloorCap,    \* floor_traces_per_min_per_service
  MaxCard,     \* max_path_signature_cardinality
  RateNum, RateDen, \* max_keep_rate
  Sigs, Roots, \* path signatures and root services
  FinalTraces,   \* what Evaluate tells apart: error, slow, truncated, sig, root
               \* and hash, which is hash(trace_id) mod 10000
  Floors,      \* healthy_sample_rate and the values AdjustFloor may set
  MaxDecided   \* bounds the decisions in the window, for checking

ASSUME PolicyAssumption ==
  /\ W \in Nat \ {0} /\ Lookback \in Nat /\ {RareCap, FloorCap, MaxCard, MaxDecided} \subseteq Nat
  /\ RateNum \in Nat /\ RateDen \in Nat \ {0}
  /\ FinalTraces \subseteq [error : BOOLEAN, slow : BOOLEAN, truncated : BOOLEAN,
                            sig : Sigs, root : Roots, hash : Nat]

VARIABLES
  rareAge,     \* ticks since a signature was last kept as rare
  tracked,     \* rareCardinality: the signatures counted against the cap
  rareTokens,  \* rareBuckets
  floorTokens, \* floorBuckets
  floor,       \* floors: the AdjustFloor override
  window       \* keepHistory, oldest first: the age and outcome of decisions

policyVars == <<rareAge, tracked, rareTokens, floorTokens, floor, window>>

Matches == {"none", "recurrence", "investigation"}

PolicyInit ==
  /\ rareAge = [s \in Sigs |-> Lookback + 1]
  /\ tracked = {}
  /\ rareTokens = RareCap * W
  /\ floorTokens = [r \in Roots |-> FloorCap * W]
  /\ floor = CHOOSE f \in Floors : \A g \in Floors : f <= g
  /\ window = <<>>

-----------------------------------------------------------------------------
(* Time: pruneLocked drops the events older than the window, and a bucket  *)
(* refills up to its capacity.                                             *)

\* Not the code: a bucket that refills at twice its rate.
RefilledTwice(tokens, cap) == IF tokens + 2 * cap < cap * W THEN tokens + 2 * cap ELSE cap * W

Refilled(tokens, cap) == IF tokens + cap < cap * W THEN tokens + cap ELSE cap * W

\* How many at the front of the history the tick puts before the cutoff: the
\* loop stops at the first that it does not.
Expired(hist) == Cardinality({k \in DOMAIN hist : \A j \in 1..k : hist[j].age >= W})

Aged(hist) == [k \in 1..Len(hist) - Expired(hist) |-> [hist[k + Expired(hist)] EXCEPT !.age = @ + 1]]

PolicyTick ==
  /\ rareAge' = [s \in Sigs |-> IF rareAge[s] <= Lookback THEN rareAge[s] + 1 ELSE rareAge[s]]
  /\ rareTokens' = Refilled(rareTokens, RareCap)
  /\ floorTokens' = [r \in Roots |-> Refilled(floorTokens[r], FloorCap)]
  /\ window' = Aged(window)
  /\ UNCHANGED <<tracked, floor>>

AdjustFloor(f) ==
  /\ floor' = f
  /\ UNCHANGED <<rareAge, tracked, rareTokens, floorTokens, window>>

-----------------------------------------------------------------------------
(* Evaluate.                                                               *)

IsRareCandidate(s) == (s \in tracked \/ Cardinality(tracked) < MaxCard) /\ rareAge[s] > Lookback

\* The class whose case is taken; a token is spent only when its case is
\* reached and has one.
TakesRare(t)  == ~t.error /\ ~t.slow /\ IsRareCandidate(t.sig) /\ rareTokens >= W
TakesFloor(t, m) == ~t.error /\ ~t.slow /\ ~TakesRare(t) /\ m = "none" /\ floorTokens[t.root] >= W

ClassOf(t, m) ==
  CASE t.error -> "error"
    [] ~t.error /\ t.slow -> "slow"
    [] TakesRare(t) -> "rare"
    [] ~t.error /\ ~t.slow /\ ~TakesRare(t) /\ m # "none" -> "interest"
    [] TakesFloor(t, m) -> "floor"
    [] OTHER -> IF t.hash < floor THEN "probabilistic" ELSE "dropped"

Reason(t, m) == IF t.truncated /\ ClassOf(t, m) # "dropped" THEN "truncated" ELSE ClassOf(t, m)

ShedOrder == <<"probabilistic", "floor", "interest", "rare", "slow">>
Rank(reason) == {k \in DOMAIN ShedOrder : ShedOrder[k] = reason}

Kept(hist) == SelectSeq(hist, LAMBDA e : e.reason \notin {"dropped", "shed"})

AllowForTenant == Len(Kept(window)) * RateDen <= RateNum * Len(window)

\* The classes before it in the order have no keep standing in the window.
Vacated(reason) ==
  \A k \in Rank(reason) : \A e \in {window[i] : i \in DOMAIN window} :
     \A j \in Rank(e.reason) : j >= k

Sheddable(t, m) ==
  /\ Rank(Reason(t, m)) # {}
  /\ ~(Reason(t, m) = "interest" /\ m # "recurrence")

Sheds(t, m) == Sheddable(t, m) /\ ~AllowForTenant /\ Vacated(Reason(t, m))

Evaluate(t, m) ==
  LET outcome == IF Sheds(t, m) THEN "shed" ELSE Reason(t, m) IN
  /\ Len(window) < MaxDecided
  /\ IF TakesRare(t)
       THEN /\ rareTokens' = rareTokens - W
            /\ rareAge' = [rareAge EXCEPT ![t.sig] = 0]
            /\ tracked' = tracked \cup {t.sig}
       ELSE UNCHANGED <<rareTokens, rareAge, tracked>>
  /\ floorTokens' = IF TakesFloor(t, m) THEN [floorTokens EXCEPT ![t.root] = @ - W] ELSE floorTokens
  /\ window' = Append(window, [age |-> 0, reason |-> outcome, root |-> t.root])
  /\ UNCHANGED floor

PolicyNext ==
  \/ PolicyTick
  \/ \E f \in Floors : AdjustFloor(f)
  \/ \E t \in FinalTraces, m \in Matches : Evaluate(t, m)

PolicySpec == PolicyInit /\ [][PolicyNext]_policyVars

-----------------------------------------------------------------------------
(* Properties.                                                             *)

CountIn(Is(_)) == Cardinality({i \in DOMAIN window : Is(window[i])})

\* Whatever the traffic, sixty seconds hold at most a full bucket and a
\* minute's refill of each metered class (tryTakeRare, tryTakeFloor, Take).
ClassesMetered ==
  /\ CountIn(LAMBDA e : e.reason = "rare") <= 2 * RareCap
  /\ \A r \in Roots : CountIn(LAMBDA e : e.reason = "floor" /\ e.root = r) <= 2 * FloorCap
=============================================================================
