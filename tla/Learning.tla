------------------------------ MODULE Learning ------------------------------
(***************************************************************************)
(* The learning loop, crates/deep-diff-forge-learning: receipts, annotation  *)
(* outcomes and review outcomes come in one at a time, and each time the     *)
(* trust in a strategy (score.rs), what the planner recommends (planner.rs), *)
(* the trust in an annotation source (annotation.rs), the weights of the     *)
(* ranking (ranking.rs) and the promotion of a candidate (promote.rs) are    *)
(* worked out again from all of them.                                       *)
(*                                                                         *)
(* What has come in is a bag: every statistic is a count or a sum.  A rate   *)
(* is a pair of naturals, compared by cross-multiplication where the code    *)
(* divides in f64.                                                          *)
(***************************************************************************)
EXTENDS Integers, Sequences, FiniteSets, FiniteSetsExt

CONSTANTS
    StrategyReceipts, AnnotationObservations, RankingObservations, \* what may come in
    PlannerObservations, PromotionCandidates,                      \* what is asked of it
    TrustPolicy, PromotionPolicy, MIN_GROUNDED_WINS, U64_MAX,
    MaxTaught                                                      \* bound: what comes in

VARIABLES receipts,    \* receipts[r]: how often r was recorded
          annotations, \* annotations[o]: the outcomes of one source's annotations
          reviews      \* reviews[o]

learningVars == <<receipts, annotations, reviews>>

Count(bag, P(_)) == MapThenSumSet(LAMBDA e : bag[e], {e \in DOMAIN bag : P(e)})
AtLeast(a, b) == a.n * b.d >= b.n * a.d
Rate(n, d) == [n |-> n, d |-> d]
None == Rate(0, 1)
-----------------------------------------------------------------------------
(* receipt.rs, score.rs *)
Strategies == <<"patch", "syntax", "hybrid">>
is_decided(outcome) == outcome \in {"accepted", "rejected"}
used_fallback(r) == r.fallback # "none"
is_helpful(r) == r.outcome = "accepted" /\ ~r.revisited

\* A fault of total_ms: the sum wraps.
WrappingSum(bag, strategy) ==
    MapThenSumSet(LAMBDA r : r.elapsed * bag[r], {r \in DOMAIN bag : r.strategy = strategy}) % (U64_MAX + 1)
total_ms(bag, strategy) ==
    Min({U64_MAX, MapThenSumSet(LAMBDA r : r.elapsed * bag[r], {r \in DOMAIN bag : r.strategy = strategy})})

score_one(bag, strategy) ==
    LET Mine(P(_)) == Count(bag, LAMBDA r : r.strategy = strategy /\ P(r))
        samples == Mine(LAMBDA r : TRUE)
        decided == Mine(LAMBDA r : is_decided(r.outcome))
        Of(n) == IF samples = 0 THEN None ELSE Rate(n, samples)
    IN  [samples |-> samples,
         acceptance |-> IF decided = 0 THEN None ELSE Rate(Mine(LAMBDA r : r.outcome = "accepted"), decided),
         fallback |-> Of(Mine(used_fallback)),
         elapsed |-> Of(total_ms(bag, strategy)),
         revisit |-> Of(Mine(LAMBDA r : r.revisited)),
         helpful |-> Of(Mine(is_helpful))]
earns_trust(score) ==
    /\ score.samples >= Max({TrustPolicy.min_samples, 1})
    /\ AtLeast(score.acceptance, TrustPolicy.min_acceptance)
    /\ AtLeast(score.helpful, TrustPolicy.min_helpful)
    /\ AtLeast(TrustPolicy.max_fallback, score.fallback)
    /\ AtLeast(TrustPolicy.max_revisit, score.revisit)
    /\ AtLeast(TrustPolicy.max_elapsed, score.elapsed)
score_strategies(bag) == [k \in DOMAIN Strategies |-> score_one(bag, Strategies[k])]

\* best_trusted: the most helpful, then the cheapest; max_by keeps the last of equals.
NotAbove(a, b) ==
    AtLeast(b.helpful, a.helpful) /\ (AtLeast(a.helpful, b.helpful) => AtLeast(a.elapsed, b.elapsed))
best_trusted(bag) ==
    LET scores == score_strategies(bag)
        trusted == {k \in DOMAIN scores : earns_trust(scores[k])}
        best == {k \in trusted : \A j \in trusted : NotAbove(scores[j], scores[k])}
    IN  IF trusted = {} THEN "none" ELSE Strategies[Max(best)]

(* planner.rs *)
heuristic(obs) == IF obs.useful THEN "syntax" ELSE "hybrid"
recommend(obs, trusted) ==
    LET budget == IF obs.large THEN IF obs.useful THEN "standard" ELSE "lean"
                  ELSE IF obs.useful THEN "generous" ELSE "standard"
        Answer(strategy, profile, priority) == [strategy |-> strategy, budget |-> profile, priority |-> priority]
    IN  IF obs.generated THEN Answer("patch", "lean", 5)
        ELSE IF obs.previous \in {"byte_budget", "node_budget", "time_budget"} THEN Answer("patch", "lean", 20)
        ELSE Answer(IF trusted = "none" THEN heuristic(obs) ELSE trusted, budget,
                    Max({30, Min({obs.diff_lines \div 10, 90})}))
-----------------------------------------------------------------------------
(* annotation.rs *)
is_clean_win(o) == o.spans > 0 /\ o.accepted /\ ~o.contradicted /\ ~o.overridden
fit_trust(bag) ==
    LET n == Count(bag, LAMBDA o : TRUE)
        wins == Count(bag, is_clean_win)
        quality == IF n = 0 THEN None ELSE Rate(Max({0, wins - Count(bag, LAMBDA o : o.contradicted)}), n)
    IN  IF wins < MIN_GROUNDED_WINS THEN 0
        ELSE IF AtLeast(quality, Rate(8, 10)) THEN 2
        ELSE IF AtLeast(quality, Rate(5, 10)) THEN 1 ELSE 0

(* ranking.rs *)
Signals == {"revisited", "public_api_touch", "wide_fanout"}
prior == Rate(1, 2)
conditional_risk(bag, signal) ==
    LET with == Count(bag, LAMBDA o : signal \in o.signals)
    IN  IF with = 0 THEN prior ELSE Rate(Count(bag, LAMBDA o : signal \in o.signals /\ o.risk), with)
fit_weights(bag) == [s \in Signals |-> conditional_risk(bag, s)]
\* The mean of the weights of the signals present, at least the threshold.
needs_human_first(weights, present, threshold) ==
    LET den == MapThenFoldSet(LAMBDA a, b : a * b, 1, LAMBDA s : weights[s].d, LAMBDA S : CHOOSE s \in S : TRUE, present)
        num == MapThenSumSet(LAMBDA s : weights[s].n * (den \div weights[s].d), present)
    IN  AtLeast(IF present = {} THEN None ELSE Rate(num, den * Cardinality(present)), threshold)

(* promote.rs: a number is an integer or one of NaN and the infinities, with which a comparison is
   what it is in IEEE 754. *)
is_finite(v) == v.k = "num"
Above(a, b) == IF is_finite(a) /\ is_finite(b) THEN a.v > b.v ELSE <<a.k, b.k>> \in
                  {<<"inf", "num">>, <<"inf", "-inf">>, <<"num", "-inf">>}
evaluate_promotion(c, supporting) ==
    LET zero == [k |-> "num", v |-> 0] IN
    {"not finite" : v \in {w \in {c.benchmark, c.fallback, PromotionPolicy.benchmark, PromotionPolicy.fallback} : ~is_finite(w)}}
    \cup {"tolerance" : v \in {w \in {PromotionPolicy.benchmark, PromotionPolicy.fallback} : Above(zero, w)}}
    \cup {why \in {"corpus"} : c.corpus > 0 /\ ~c.intentional}
    \cup {why \in {"benchmark"} : Above(c.benchmark, PromotionPolicy.benchmark)}
    \cup {why \in {"fallback"} : Above(c.fallback, PromotionPolicy.fallback)}
    \cup {why \in {"unsupported"} : ~c.supported}
    \cup {why \in {"receipts"} : supporting < PromotionPolicy.min_supporting}
    \cup {why \in {"opaque"} : ~c.inspectable}
-----------------------------------------------------------------------------
Empty(S) == [e \in S |-> 0]
LearningInit ==
    /\ receipts = Empty(StrategyReceipts)
    /\ annotations = Empty(AnnotationObservations) /\ reviews = Empty(RankingObservations)

Taught == Count(receipts, LAMBDA r : TRUE) + Count(annotations, LAMBDA o : TRUE) + Count(reviews, LAMBDA o : TRUE)
record_receipt(r) ==
    /\ Taught < MaxTaught
    /\ receipts' = [receipts EXCEPT ![r] = @ + 1] /\ UNCHANGED <<annotations, reviews>>
ObserveAnnotation(o) ==
    /\ Taught < MaxTaught
    /\ annotations' = [annotations EXCEPT ![o] = @ + 1] /\ UNCHANGED <<receipts, reviews>>
ObserveReview(o) ==
    /\ Taught < MaxTaught
    /\ reviews' = [reviews EXCEPT ![o] = @ + 1] /\ UNCHANGED <<receipts, annotations>>

LearningNext ==
    \/ \E r \in StrategyReceipts : record_receipt(r)
    \/ \E o \in AnnotationObservations : ObserveAnnotation(o)
    \/ \E o \in RankingObservations : ObserveReview(o)
-----------------------------------------------------------------------------
Added(bag, now) == {e \in DOMAIN bag : now[e] > bag[e]}
Good(r, score) == is_helpful(r) /\ ~used_fallback(r) /\ AtLeast(score.elapsed, Rate(r.elapsed, 1))
Bad(r, score) == r.outcome = "rejected" /\ r.revisited /\ used_fallback(r) /\ AtLeast(Rate(r.elapsed, 1), score.elapsed)

\* A strategy whose receipt is good in every way keeps its trust and its place as the default; one
\* that has enough receipts is not made trusted by one that is bad in every way; nor does a receipt
\* touch what is thought of another strategy.
ReceiptsCount ==
    \A r \in Added(receipts, receipts'), k \in DOMAIN Strategies :
        LET was == score_one(receipts, Strategies[k])
            now == score_one(receipts', Strategies[k])
        IN  IF Strategies[k] # r.strategy THEN now = was
            ELSE /\ Good(r, was) /\ earns_trust(was) => earns_trust(now)
                 /\ Good(r, was) /\ best_trusted(receipts) = r.strategy => best_trusted(receipts') = r.strategy
                 /\ Bad(r, was) /\ was.samples >= Max({TrustPolicy.min_samples, 1}) /\ ~earns_trust(was) => ~earns_trust(now)
\* A clean win never lowers a source's tier, nothing else raises it.
AnnotationsCount ==
    \A o \in Added(annotations, annotations') :
        IF is_clean_win(o) THEN fit_trust(annotations') >= fit_trust(annotations)
        ELSE fit_trust(annotations') <= fit_trust(annotations)
\* After a review that realised a risk, what was put before a human first still is; after one that
\* did not, nothing new is.
ReviewsCount ==
    \A o \in Added(reviews, reviews'), present \in SUBSET Signals, threshold \in {prior, Rate(2, 3), Rate(1, 1)} :
        LET First(bag) == needs_human_first(fit_weights(bag), present, threshold)
        IN  IF o.risk THEN First(reviews) => First(reviews') ELSE First(reviews') => First(reviews)
\* More receipts never block a candidate, and one with a number that is not finite is always held.
PromotionsCount ==
    LET before == Count(receipts, LAMBDA r : TRUE)
        after  == Count(receipts', LAMBDA r : TRUE)
    IN  \A c \in PromotionCandidates :
          /\ evaluate_promotion(c, after) \subseteq evaluate_promotion(c, before)
          /\ ~(is_finite(c.benchmark) /\ is_finite(c.fallback)) => evaluate_promotion(c, after) # {}
\* What is recommended for a file changes with the default alone, and not where a hard rule decides.
RecommendationsHold ==
    receipts' # receipts =>
    LET old == best_trusted(receipts)
        new == best_trusted(receipts')
    IN  \A obs \in PlannerObservations :
          LET was == recommend(obs, old)
              now == recommend(obs, new)
          IN  now # was => /\ was.strategy # now.strategy /\ was.budget = now.budget /\ ~obs.generated
                           /\ old # new

\* Whatever comes in counts its own way, up to sums that saturate: evidence for never costs trust,
\* evidence against never earns it, in strategies, annotation sources, ranking weights and
\* promotions (score.rs score_one, annotation.rs fit_trust, ranking.rs fit_weights, promote.rs).
EvidenceCountsItsWay ==
    [][ReceiptsCount /\ AnnotationsCount /\ ReviewsCount /\ PromotionsCount /\ RecommendationsHold]_learningVars
=============================================================================
