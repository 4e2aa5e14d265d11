--------------------------- MODULE PoolSelection ---------------------------
(***************************************************************************)
(* The products a profile recommends: the ranking of the catalog           *)
(* (pipeline.py, rank_products) and the choice of the pool from it         *)
(* (selection.py, select_pool; make_pool, build_pool), one product at a    *)
(* time.                                                                   *)
(*                                                                         *)
(* A product is its number.  What a disliked tag hits and which products   *)
(* the vectors find near the tags is any set and any order: neither the    *)
(* vocabulary nor the vectors are here.  Scores are integers, Unit times   *)
(* what the code computes with fractions.                                  *)
(***************************************************************************)
EXTENDS Integers, Sequences, FiniteSets, Functions

CONSTANTS
    Goods,     \* the products of the catalog, numbers
    PoolRequests,  \* the inputs that are tried
    PoolSize,  \* pool_size, 30
    CatCap,    \* CAT_CAP, 10
    Unknown    \* a product whose views nobody counted; no model code; no review

PoolAssumption ==
    /\ Goods \subseteq Nat /\ IsFiniteSet(Goods) /\ PoolSize \in Nat \ {0} /\ CatCap \in Nat
    /\ Unknown \notin Int
    /\ \A q \in PoolRequests :
          /\ DOMAIN q = {"views", "category", "disliked", "rating", "model", "unavailable",
                         "hit", "penalty", "s0", "empty"}
          /\ q.views \in [Goods -> Nat \cup {Unknown}]
          /\ q.rating \in [Goods -> (1..5) \cup {Unknown}]
          /\ q.penalty \in BOOLEAN

VARIABLES
    given,  \* the input, the catalog, the mode and the strategy
    ranking,  \* rank_products of it
    stage,    \* what the choice is at
    next,     \* where in the ranking
    near,     \* the candidates of the vectors that are not tried yet
    picked    \* the pool so far

poolVars == <<given, ranking, stage, next, near, picked>>

-----------------------------------------------------------------------------
(* rank_products. *)

Unit == 60    \* the denominators of up to six products, three of them reviewed, divide it

(* The category the recipient has chosen to dislike, or its children. *)
Disliked(q, i) == q.category[i] \in q.disliked
Candidates(q) == {i \in Goods : i \notin q.unavailable}
RatedGoods(q) == {i \in Goods : q.rating[i] # Unknown}

(* _view_percentile: over the products in stock whose views are known. *)
Popularity(q, i) ==
    LET known == {j \in Candidates(q) : q.views[j] # Unknown}
        span == Cardinality(known) - 1
    IN  IF span <= 0 \/ q.views[i] = Unknown THEN 0
        ELSE (2 * Unit * Cardinality({j \in known : q.views[j] < q.views[i]})) \div span

(* score_categories and CategoryScore.bias. *)
Bias(q, c) ==
    LET rated == {i \in RatedGoods(q) : q.category[i] = c}
        stars(s) == Cardinality({i \in rated : q.rating[i] = s})
    IN  (Unit * (2 * stars(5) + stars(4) - stars(2) - 2 * stars(1)))
            \div (Cardinality(rated) + 2)

Score(q, i) ==
    Popularity(q, i) + Bias(q, q.category[i])
    - (IF q.penalty /\ Disliked(q, i) THEN 2 * Unit ELSE 0)

Scored(q) == {i \in Candidates(q) : q.penalty \/ ~Disliked(q, i)}
Above(q, i, j) == Score(q, i) > Score(q, j) \/ (Score(q, i) = Score(q, j) /\ i < j)

(* In the place n is the product with n - 1 above it. *)
RankedGoods(q) ==
    [n \in 1..Cardinality(Scored(q)) |->
        CHOOSE i \in Scored(q) : Cardinality({j \in Scored(q) : Above(q, j, i)}) = n - 1]

-----------------------------------------------------------------------------
(* select_pool. *)

Excluded(q, i) == i \in RatedGoods(q) \/ i \in q.hit
Usable(q, i) == ~Disliked(q, i) /\ ~Excluded(q, i)

Twins(q, i, j) == q.model[i] # Unknown /\ q.model[i] = q.model[j]
InCategory(s, c) == {k \in DOMAIN s : given.category[s[k]] = c}

(* Mutant: what the cap refused is taken later, whatever its model. *)
TakesTwins(i, cap) ==
    cap => /\ \A k \in DOMAIN picked : ~Twins(given, i, picked[k])
           /\ Cardinality(InCategory(picked, given.category[i])) < CatCap

(* take: not a second one of a model, and not too many of a category. *)
Takes(i, cap) ==
    /\ \A k \in DOMAIN picked : ~Twins(given, i, picked[k])
    /\ cap => Cardinality(InCategory(picked, given.category[i])) < CatCap

Full == Len(picked) >= PoolSize

(* The input is empty: no product.  S0: the first ones of the ranking. *)
Whole(q, s) ==
    LET free == {n \in DOMAIN s : ~Excluded(q, s[n])}
        least == IF Cardinality(free) < PoolSize THEN Cardinality(free) ELSE PoolSize
    IN  [k \in 1..(IF q.empty THEN 0 ELSE least) |->
            s[CHOOSE n \in free : Cardinality({m \in free : m <= n}) = k]]

PoolInit ==
    /\ given \in PoolRequests
    /\ ranking = RankedGoods(given)
    /\ stage = "start"
    /\ next = 1
    /\ near = {}
    /\ picked = <<>>

Start ==
    /\ stage = "start"
    /\ IF given.empty \/ given.s0
       THEN stage' = "done" /\ picked' = Whole(given, ranking) /\ UNCHANGED near
       ELSE /\ UNCHANGED picked
            /\ \/ stage' = "capped" /\ UNCHANGED near
               \/ /\ \E i \in Range(ranking) : Usable(given, i)
                  /\ stage' = "near"
                  /\ near' \in SUBSET {i \in Range(ranking) : Usable(given, i)} \ {{}}
    /\ UNCHANGED <<given, ranking, next>>

(* _embedding_pick: the candidates in the order of MMR. *)
PickNear(i) ==
    /\ stage = "near" /\ i \in near /\ ~Full
    /\ near' = near \ {i}
    /\ picked' = IF Takes(i, TRUE) THEN Append(picked, i) ELSE picked
    /\ UNCHANGED <<given, ranking, stage, next>>

EndNear ==
    /\ stage = "near" /\ (near = {} \/ Full)
    /\ stage' = "capped" /\ near' = {}
    /\ UNCHANGED <<given, ranking, next, picked>>

(* The encoder or the database fails: the choice starts over without it. *)
NearFails ==
    /\ stage = "near"
    /\ stage' = "capped" /\ near' = {} /\ picked' = <<>>
    /\ UNCHANGED <<given, ranking, next>>

(* What a pass over the ranking may take. *)
Offered(i) ==
    /\ i \notin Range(picked)
    /\ IF stage = "disliked" THEN Disliked(given, i) /\ ~Excluded(given, i)
                             ELSE Usable(given, i)

Following == IF stage = "capped" THEN "open"
             ELSE IF stage = "open" /\ given.penalty THEN "disliked" ELSE "done"

(* The ranking in order with the cap, again without it, and the disliked *)
(* products last, if they may be taken at all. *)
PickNext ==
    /\ stage \in {"capped", "open", "disliked"}
    /\ IF next > Len(ranking) \/ Full
       THEN stage' = Following /\ next' = 1 /\ UNCHANGED picked
       ELSE /\ next' = next + 1
            /\ picked' = IF Offered(ranking[next]) /\ Takes(ranking[next], stage = "capped")
                         THEN Append(picked, ranking[next]) ELSE picked
            /\ UNCHANGED stage
    /\ UNCHANGED <<given, ranking, near>>

PoolNext == Start \/ (\E i \in Goods : PickNear(i)) \/ EndNear \/ NearFails \/ PickNext

PoolSpec == PoolInit /\ [][PoolNext]_poolVars

-----------------------------------------------------------------------------
(* The ranking has no product twice, the pool no more than it may hold. *)
PoolTypeOK ==
    /\ stage \in {"start", "near", "capped", "open", "disliked", "done"}
    /\ next \in 1..(Len(ranking) + 1)
    /\ near \subseteq Goods
    /\ Len(picked) <= PoolSize /\ Len(ranking) <= Cardinality(Goods)

(* Whatever is left out of the pool, there is a reason for: a product that *)
(* may be recommended is missing only when the pool is full, or one of its *)
(* model is in it. *)
LeftOut(i) == i \in Range(ranking) /\ ~Excluded(given, i) /\ i \notin Range(picked)
              /\ ~\E j \in Range(picked) : Twins(given, i, j)

(* At whatever point the search by tags ended or failed: nothing that was *)
(* received, is out of stock or is hit by a disliked tag is recommended, *)
(* no model twice; and the pool gives way in order: a disliked product is *)
(* there only when no other is left, and a category has more than its *)
(* share only when no product of a category below its share is left. *)
PoolIsRight ==
    stage = "done" /\ ~given.s0 /\ ~given.empty =>
        /\ \A i \in Range(picked) : ~Excluded(given, i) /\ i \notin given.unavailable
        /\ \A j, k \in DOMAIN picked :
              j # k => picked[j] # picked[k] /\ ~Twins(given, picked[j], picked[k])
        /\ ~Full => ~\E i \in Goods : LeftOut(i)
        /\ (\E i \in Range(picked) : Disliked(given, i)) =>
              ~\E i \in Goods : LeftOut(i) /\ ~Disliked(given, i)
        /\ \A i \in Range(picked) :
              Cardinality(InCategory(picked, given.category[i])) > CatCap =>
                 ~\E j \in Goods :
                    /\ LeftOut(j) /\ ~Disliked(given, j)
                    /\ Cardinality(InCategory(picked, given.category[j])) < CatCap

(* The two modes agree on the order of the products nobody dislikes, so *)
(* that changing the mode changes nothing for who dislikes nothing. *)
Precedes(s, i, j) == \E m, n \in DOMAIN s : m < n /\ s[m] = i /\ s[n] = j

ModesAgree ==
    LET other == RankedGoods([given EXCEPT !.penalty = ~@])
        liked(s) == {i \in Range(s) : ~Disliked(given, i)}
    IN  stage = "start" =>
           /\ liked(ranking) = liked(other)
           /\ \A i, j \in liked(ranking) : Precedes(ranking, i, j) <=> Precedes(other, i, j)
=============================================================================
