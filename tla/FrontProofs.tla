----------------------------- MODULE FrontProofs -----------------------------
(***************************************************************************)
(* Proofs about what somebody at a browser meets.  Of Chat: the answers    *)
(* about gifts (GiftTurns), whose conversation a page may use              *)
(* (ChatSessions), how an answer reaches its readers (TurnStream) and the  *)
(* reports about it (ChatReports).  Of the console: its operator's saves   *)
(* of the credential (CredentialFile) and its logins (ConsoleLogin).       *)
(***************************************************************************)
EXTENDS GiftTurns, ChatSessions, TurnStream, ChatReports, CredentialFile,
        ConsoleLogin, FiniteSetTheorems, TLAPS

-----------------------------------------------------------------------------
(* The turns about gifts. *)

TurnFields == {"view", "profile", "pool", "excluded", "public", "categories", "changed",
               "rows", "shown", "displayed", "last", "search"}

(* A search is what it found, and its user gave it no categories. *)
TrueSearch(x) ==
  /\ x \in Searches /\ x.products = Found(x.view, x.query, x.filters, x.scope)
  /\ x.filters.categories = {}

(* What the running turn t knows. *)
TurnGood(t) ==
  /\ DOMAIN t = TurnFields
  /\ t.view \in 0..MaxVersion /\ t.profile \in Profiles /\ t.pool \in Pools
  /\ t.public = {} /\ t.excluded \subseteq Products
  /\ ~t.changed \/ t.search = None => t.excluded = kept.excluded
  /\ t.last # None => TrueSearch(t.last)
  /\ t.search # None =>
       /\ TrueSearch(t.search)
       /\ t.search.view = t.view /\ t.search.scope = ScopeKey(t)
       /\ t.search.filters.excluded = t.excluded

(* The turn that last replaced the excluded products was an earlier one. *)
GiftInv ==
  /\ asked \in Nat /\ kept.replaced \in Nat
  /\ IF turn = None THEN kept.replaced <= asked ELSE kept.replaced < asked
  /\ profile \in Profiles /\ kept.excluded \subseteq Products
  /\ kept.search # None => TrueSearch(kept.search)
  /\ turn # None => TurnGood(turn)
  /\ DislikesAreNotKept /\ OriginsAreTrue

LEMMA TurnBegins ==
  ASSUME GiftInv, NEW v \in 0..MaxVersion, NEW pool \in Pools, Ask(v, pool)
  PROVE  GiftInv'
<1>1. UNCHANGED <<kept, entered, profile>> /\ asked' = asked + 1 /\ turn = None
  BY DEF Ask
<1>2. TurnGood(turn')
  BY DEF Ask, TurnGood, TurnFields, GiftInv, Restored
<1>3. TurnGood(turn)' <=> TurnGood(turn')
  BY <1>1 DEF TurnGood, TrueSearch, Found, ScopeKey
<1> QED BY <1>1, <1>2, <1>3 DEF GiftInv, DislikesAreNotKept, OriginsAreTrue, TrueSearch, Found

LEMMA TurnSearches ==
  ASSUME GiftTurnsAssumption, GiftInv, NEW q \in Queries,
         NEW change \in (SUBSET Products) \cup {None}, Search(q, change)
  PROVE  GiftInv'
<1> DEFINE filters == IF change = None THEN Prior(turn)
                      ELSE [Prior(turn) EXCEPT !.excluded = change]
           scope == ScopeKey(turn)
           products == IF Reuses(turn, q, filters) THEN Cached(turn).products
                       ELSE Found(turn.view, q, filters, scope)
           found == [view |-> turn.view, query |-> q, filters |-> filters,
                     scope |-> scope, products |-> products]
           rows == Updated(turn.rows, Facts(products, turn.view))
           t == [turn EXCEPT !.excluded = filters.excluded, !.public = filters.categories,
                             !.changed = change # None, !.rows = rows, !.search = found]
<1>1. turn # None /\ turn.search = None /\ TurnGood(turn) /\ turn' = t
      /\ UNCHANGED <<catalog, metadata, profile, kept, asked, entered>>
  BY DEF Search, GiftInv
<1>2. /\ filters.categories = {} /\ filters.excluded \subseteq Products
      /\ change = None => filters.excluded = turn.excluded
  <2>1. CASE change = None
    BY <1>1, <2>1 DEF TurnGood, Prior
  <2>2. CASE change # None
    <3>1. filters = [excluded |-> change, categories |-> turn.public]
      BY <2>2 DEF Prior
    <3>2. change \subseteq Products
      BY <2>2
    <3> HIDE DEF filters
    <3> QED BY <1>1, <2>2, <3>1, <3>2 DEF TurnGood
  <2> QED BY <2>1, <2>2
<1>3. /\ products = Found(turn.view, q, filters, scope)
      /\ turn.view \in Versions /\ products \subseteq Products
  <2>1. CASE Reuses(turn, q, filters)
    <3>1. /\ turn.last # None /\ Cached(turn) = turn.last
          /\ turn.last.view = turn.view /\ turn.last.scope = scope
          /\ turn.last.query = q /\ turn.last.filters = filters
      BY <2>1 DEF Reuses, Cached
    <3> QED BY <1>1, <2>1, <3>1 DEF TurnGood, TrueSearch, Searches
  <2>2. CASE ~Reuses(turn, q, filters)
    <3>1. turn.view # 0
      BY <2>2 DEF Search, CanSearch
    <3>2. OnSale[turn.view] \subseteq Products /\ turn.view \in Versions
      BY <1>1, <3>1, GiftTurnsAssumption DEF GiftTurnsAssumption, TurnGood, Versions
    <3> QED BY <2>2, <3>2 DEF Found
  <2> QED BY <2>1, <2>2
<1>4. scope \in Profiles \X Pools
  BY <1>1 DEF TurnGood, ScopeKey
<1>5. filters = [excluded |-> filters.excluded, categories |-> filters.categories]
  BY DEF Prior
<1> HIDE DEF filters, scope, products, rows
<1>6. /\ found.view = turn.view /\ found.scope = scope /\ found.filters = filters
      /\ found.query = q /\ found.products = products
  OBVIOUS
<1>7. TrueSearch(found)
  <2>1. filters \in [excluded : SUBSET Products, categories : SUBSET Products]
    BY <1>2, <1>5
  <2>2. found \in Searches
    BY <1>3, <1>4, <2>1 DEF Searches
  <2> HIDE DEF found
  <2> QED BY <1>2, <1>3, <1>6, <2>2 DEF TrueSearch
<1> HIDE DEF found
<1>8. /\ DOMAIN t = TurnFields /\ t.view = turn.view /\ t.last = turn.last /\ t.search = found
      /\ t.public = filters.categories /\ t.excluded = filters.excluded
      /\ t.changed = (change # None) /\ ScopeKey(t) = scope
      /\ t.profile = turn.profile /\ t.pool = turn.pool
  BY <1>1 DEF TurnGood, TurnFields, ScopeKey, scope
<1> HIDE DEF t
<1>9. TurnGood(t)
  <2>1. /\ DOMAIN t = TurnFields /\ t.public = {} /\ t.excluded \subseteq Products
        /\ t.view \in 0..MaxVersion /\ t.profile \in Profiles /\ t.pool \in Pools
        /\ t.last # None => TrueSearch(t.last)
    BY <1>1, <1>2, <1>8 DEF TurnGood
  <2>2. /\ TrueSearch(t.search) /\ t.search.view = t.view
        /\ t.search.scope = ScopeKey(t) /\ t.search.filters.excluded = t.excluded
    BY <1>6, <1>7, <1>8
  <2>3. ~t.changed => t.excluded = kept.excluded
    BY <1>1, <1>2, <1>8 DEF TurnGood
  <2>4. t.search # None
    BY <1>7, <1>8, GiftTurnsAssumption DEF GiftTurnsAssumption, TrueSearch
  <2> QED BY <2>1, <2>2, <2>3, <2>4 DEF TurnGood
<1>10. TurnGood(turn)'
  BY <1>1, <1>9 DEF TurnGood, TrueSearch, Found, ScopeKey
<1> QED BY <1>1, <1>10 DEF GiftInv, DislikesAreNotKept, OriginsAreTrue, TrueSearch, Found

LEMMA TurnCompletes ==
  ASSUME GiftInv, turn # None, NEW cards, NEW listed, CompleteTurn(cards, listed)
  PROVE  GiftInv'
<1> DEFINE origins == Origins(turn)
           shown == IF cards = Empty THEN turn.shown ELSE cards
           displayed == Displayed(cards, listed)
           search == SearchToKeep
           replaced == ReplacedBy(turn)
<1>1. TurnGood(turn)
  BY DEF GiftInv
<1>2. /\ kept' = [excluded |-> turn.excluded, categories |-> turn.public, replaced |-> replaced,
                  origins |-> origins, shown |-> shown, displayed |-> displayed,
                  search |-> search]
      /\ turn' = None /\ asked' = asked /\ profile' = profile
      /\ entered' = [p \in Products |->
                       IF p \in turn.excluded \ kept.excluded THEN asked ELSE entered[p]]
  BY DEF CompleteTurn
<1>3. search # None => TrueSearch(search)
  BY <1>1 DEF SearchToKeep, TurnGood
<1>4. replaced \in Nat /\ replaced <= asked
  BY DEF ReplacedBy, GiftInv
<1>5. /\ DOMAIN origins = turn.excluded
      /\ \A p \in turn.excluded :
           origins[p] = IF p \in turn.excluded \ kept.excluded THEN asked ELSE entered[p]
  <2>1. DOMAIN kept.origins = kept.excluded
        /\ \A p \in kept.excluded : kept.origins[p] = entered[p]
    BY DEF GiftInv, OriginsAreTrue
  <2>2. CASE turn.changed
    BY <2>1, <2>2 DEF Origins, ReplacedBy
  <2>3. CASE ~turn.changed
    <3>1. turn.excluded = kept.excluded /\ ReplacedBy(turn) # asked
      BY <1>1, <2>3 DEF TurnGood, ReplacedBy, GiftInv
    <3> QED BY <2>1, <3>1 DEF Origins
  <2> QED BY <2>2, <2>3
<1> HIDE DEF origins, shown, displayed, search, replaced
<1>6. /\ kept'.excluded = turn.excluded /\ kept'.categories = turn.public
      /\ kept'.replaced = replaced /\ kept'.origins = origins /\ kept'.search = search
  BY <1>2
<1>7. OriginsAreTrue'
  BY <1>1, <1>2, <1>5, <1>6 DEF OriginsAreTrue, TurnGood
<1>8. DislikesAreNotKept'
  BY <1>1, <1>6 DEF DislikesAreNotKept, TurnGood
<1>9. kept'.search # None => TrueSearch(kept'.search)
  BY <1>3, <1>6
<1> QED BY <1>1, <1>2, <1>4, <1>6, <1>7, <1>8, <1>9 DEF GiftInv, TurnGood, TrueSearch, Found

LEMMA GiftStep == ASSUME GiftTurnsAssumption, GiftInv, [GiftNext]_giftVars PROVE GiftInv'
<1>1. CASE /\ UNCHANGED <<kept, asked, entered>> /\ profile' \in Profiles /\ turn' \in {turn, None}
  BY <1>1 DEF GiftInv, DislikesAreNotKept, OriginsAreTrue, TurnGood, TrueSearch, Found, ScopeKey
<1>2. CASE Abandon \/ Publish \/ (\E q \in Profiles : Analyse(q)) \/ UNCHANGED giftVars
  BY <1>1, <1>2 DEF Abandon, Publish, Analyse, giftVars, GiftInv
<1>3. CASE \E v \in 0..MaxVersion, pool \in Pools : Ask(v, pool)
  BY <1>3, TurnBegins
<1>4. CASE \E q \in Queries, change \in (SUBSET Products) \cup {None} : Search(q, change)
  BY <1>4, TurnSearches
<1>5. ASSUME Reply \/ \E ids \in SUBSET Products : \E described \in SUBSET ids :
                         Show(ids, described) \/ List(ids, described)
      PROVE  GiftInv'
  <2>1. turn # None /\ \E cards, listed : CompleteTurn(cards, listed)
    BY <1>5 DEF Reply, Show, List
  <2> QED BY <2>1, TurnCompletes
<1> QED BY <1>2, <1>3, <1>4, <1>5 DEF GiftNext

(* For any products, profiles, catalogs and turns, however often a turn is *)
(* given up, the catalog exchanged or the recipient analysed again: what a *)
(* turn chooses from fits it, also when it was searched in an earlier *)
(* turn; no dislike of the recipient outlives the turn; and each excluded *)
(* product is known with the turn that excluded it (gift_consult.py, *)
(* low_latency.py, integrated_harness.py). *)
THEOREM GiftsStayTrue == ASSUME GiftTurnsAssumption PROVE GiftSpec => []GiftsHold
<1>1. GiftInit => GiftInv
  BY DEF GiftInit, GiftInv, DislikesAreNotKept, OriginsAreTrue, Empty
<1>2. GiftInv /\ [GiftNext]_giftVars => GiftInv'
  BY GiftStep
<1>3. GiftInv => GiftsHold
  BY DEF GiftInv, GiftsHold, SearchFitsTheTurn, TurnGood, TrueSearch, Found
<1> QED BY <1>1, <1>2, <1>3, PTL DEF GiftSpec

(* What a page knows of products: for some of them the catalog's version. *)
LEMMA FactsAre ==
  ASSUME NEW f, f = [p \in DOMAIN f |-> f[p]], DOMAIN f \subseteq Products,
         \A p \in DOMAIN f : f[p] \in Versions
  PROVE  f \in FactsOf
<1>1. f \in [DOMAIN f -> Versions]
  OBVIOUS
<1> QED BY <1>1 DEF FactsOf

LEMMA FactsHave ==
  ASSUME NEW f \in FactsOf
  PROVE  /\ f = [p \in DOMAIN f |-> f[p]] /\ DOMAIN f \subseteq Products
         /\ \A p \in DOMAIN f : f[p] \in Versions
BY DEF FactsOf

LEMMA EmptyIsOfFacts == Empty \in FactsOf
BY DEF Empty, FactsOf

(* Facts of a version of the catalog are added to what was known. *)
LEMMA UpdatedFacts ==
  ASSUME NEW f \in FactsOf, NEW g \in FactsOf
  PROVE  Updated(f, g) \in FactsOf
<1> DEFINE u == Updated(f, g)
<1>1. DOMAIN u = DOMAIN f \cup DOMAIN g /\ u = [p \in DOMAIN u |-> u[p]]
      /\ \A p \in DOMAIN u : u[p] = IF p \in DOMAIN g THEN g[p] ELSE f[p]
  BY DEF Updated
<1> HIDE DEF u
<1>2. u \in FactsOf
  BY <1>1, FactsHave, FactsAre
<1> QED BY <1>2 DEF u

LEMMA FactsOfVersion ==
  ASSUME NEW S \in SUBSET Products, NEW v, S # {} => v \in Versions
  PROVE  Facts(S, v) \in FactsOf
<1> DEFINE g == Facts(S, v)
<1>1. DOMAIN g = S /\ g = [p \in DOMAIN g |-> g[p]] /\ \A p \in S : g[p] = v
  BY DEF Facts
<1> HIDE DEF g
<1>2. g \in FactsOf
  BY <1>1, FactsAre
<1> QED BY <1>2 DEF g

LEMMA RestrictedFacts ==
  ASSUME NEW f \in FactsOf, NEW S \in SUBSET DOMAIN f
  PROVE  Restrict(f, S) \in FactsOf
<1> DEFINE g == Restrict(f, S)
<1>1. DOMAIN g = S /\ g = [p \in DOMAIN g |-> g[p]] /\ \A p \in S : g[p] = f[p]
  BY DEF Restrict
<1> HIDE DEF g
<1>2. g \in FactsOf
  BY <1>1, FactsHave, FactsAre
<1> QED BY <1>2 DEF g

(* Versions stay in their range, and facts stay facts. *)
GiftFits ==
  /\ catalog \in Versions /\ metadata \in 0..catalog /\ asked <= MaxTurns
  /\ kept.shown \in FactsOf /\ kept.displayed \in FactsOf
  /\ turn # None => /\ {turn.rows, turn.shown, turn.displayed} \subseteq FactsOf
                    /\ turn.view \in 0..catalog

LEMMA SearchFacts ==
  ASSUME GiftTurnsAssumption, GiftInv, GiftFits, NEW q \in Queries,
         NEW change \in (SUBSET Products) \cup {None}, Search(q, change)
  PROVE  GiftFits'
<1> DEFINE t == turn
           filters == IF change = None THEN Prior(t) ELSE [Prior(t) EXCEPT !.excluded = change]
           scope == ScopeKey(t)
           products == IF Reuses(t, q, filters) THEN Cached(t).products
                       ELSE Found(t.view, q, filters, scope)
           rows == Updated(t.rows, Facts(products, t.view))
<1>1. t # None /\ TurnGood(t) /\ (Reuses(t, q, filters) \/ CanSearch(t))
  BY DEF Search, GiftInv
<1>2. /\ UNCHANGED <<catalog, metadata, kept, asked>>
      /\ turn' = [t EXCEPT !.excluded = filters.excluded, !.public = filters.categories,
                           !.changed = change # None, !.rows = rows,
                           !.search = [view |-> t.view, query |-> q, filters |-> filters,
                                       scope |-> scope, products |-> products]]
  BY DEF Search
<1>3. MaxVersion \in Nat
  BY DEF GiftTurnsAssumption
<1>4. products \subseteq Products /\ (products # {} => t.view \in Versions)
  <2>1. CASE Reuses(t, q, filters)
    <3>1. t.last # None /\ t.last.view = t.view /\ Cached(t) = t.last
      BY <2>1 DEF Reuses, Cached
    <3>2. t.last.view \in Versions /\ t.last.products \subseteq Products
      BY <1>1, <3>1 DEF TurnGood, TrueSearch, Searches
    <3> QED BY <2>1, <3>1, <3>2
  <2>2. CASE ~Reuses(t, q, filters)
    <3>1. t.view \in Versions
      BY <1>1, <1>3, <2>2 DEF CanSearch, TurnGood, Versions
    <3>2. Found(t.view, q, filters, scope) \subseteq Products
      BY <3>1 DEF Found, GiftTurnsAssumption
    <3> QED BY <2>2, <3>1, <3>2
  <2> QED BY <2>1, <2>2
<1> HIDE DEF products
<1>5. rows \in FactsOf
  BY <1>1, <1>4, FactsOfVersion, UpdatedFacts DEF GiftFits
<1> HIDE DEF rows, filters, scope
<1>6. /\ turn'.rows = rows /\ turn'.shown = t.shown /\ turn'.displayed = t.displayed
      /\ turn'.view = t.view
  BY <1>1, <1>2 DEF TurnGood, TurnFields
<1> QED BY <1>1, <1>2, <1>5, <1>6 DEF GiftFits

(* What is shown was known or is looked up. *)
LEMMA ObservedFacts ==
  ASSUME GiftTurnsAssumption, GiftInv, GiftFits, turn # None, NEW ids \in SUBSET Products,
         ids \subseteq DOMAIN turn.rows \/ turn.view # 0,
         NEW described, NEW cards \in Projections(Observed(turn, ids), described)
  PROVE  cards \in FactsOf
<1> DEFINE fresh == (ids \ DOMAIN turn.rows) \cap OnSale[turn.view]
           all == Updated(Facts(fresh, turn.view), turn.rows)
           viewed == ids \cap (DOMAIN turn.rows \cup OnSale[turn.view])
<1>1. turn.rows \in FactsOf /\ turn.view \in 0..MaxVersion /\ MaxVersion \in Nat
  BY DEF GiftFits, GiftInv, TurnGood, GiftTurnsAssumption
<1>2. fresh \subseteq Products /\ (fresh # {} => turn.view \in Versions)
  BY <1>1 DEF Versions
<1>3. Facts(fresh, turn.view) \in FactsOf /\ DOMAIN Facts(fresh, turn.view) = fresh
  BY <1>2, FactsOfVersion DEF Facts
<1>4. all \in FactsOf /\ DOMAIN all = fresh \cup DOMAIN turn.rows
  BY <1>1, <1>3, UpdatedFacts DEF Updated
<1>5. viewed \subseteq DOMAIN all
  BY <1>4
<1>6. Observed(turn, ids) = Restrict(all, viewed)
  BY DEF Observed
<1> HIDE DEF all, viewed, fresh
<1>7. Observed(turn, ids) \in FactsOf
  BY <1>4, <1>5, <1>6, RestrictedFacts
<1>8. PICK D \in SUBSET DOMAIN Observed(turn, ids) : cards = Restrict(Observed(turn, ids), D)
  BY DEF Projections, kSubset
<1> QED BY <1>7, <1>8, RestrictedFacts

LEMMA CompletedFacts ==
  ASSUME GiftFits, turn # None, NEW cards \in FactsOf, NEW listed \in FactsOf,
         CompleteTurn(cards, listed)
  PROVE  GiftFits'
<1> DEFINE shown == IF cards = Empty THEN turn.shown ELSE cards
           displayed == Displayed(cards, listed)
<1>1. /\ kept'.shown = shown /\ kept'.displayed = displayed /\ turn' = None
      /\ UNCHANGED <<catalog, metadata, asked>>
  BY DEF CompleteTurn
<1>2. shown \in FactsOf /\ displayed \in FactsOf
  BY DEF GiftFits, Displayed
<1> HIDE DEF shown, displayed
<1> QED BY <1>1, <1>2 DEF GiftFits

LEMMA GiftFitsStep ==
  ASSUME GiftTurnsAssumption, GiftInv, GiftFits, [GiftNext]_giftVars
  PROVE  GiftFits'
<1>1. {MaxVersion, MaxTurns} \subseteq Nat /\ asked \in Nat
  BY DEF GiftTurnsAssumption, GiftInv
<1>2. CASE UNCHANGED <<catalog, metadata, kept, asked>> /\ turn' \in {turn, None}
  BY <1>2 DEF GiftFits
<1>3. CASE Publish
  BY <1>1, <1>3 DEF Publish, GiftFits, Versions
<1>4. ASSUME NEW v \in 0..MaxVersion, NEW pool \in Pools, Ask(v, pool) PROVE GiftFits'
  <2>1. v \in 0..catalog
    BY <1>1, <1>4 DEF Ask, Metadata, GiftFits, Versions
  <2>2. /\ UNCHANGED <<catalog, kept>> /\ metadata' = v /\ asked' = asked + 1 /\ asked < MaxTurns
        /\ turn'.view = v /\ turn'.rows = Restored(pool, kept.shown, Empty)
        /\ turn'.shown = Restored(pool, kept.shown, Empty)
        /\ turn'.displayed = Restored(pool, kept.displayed, Empty)
    BY <1>4 DEF Ask
  <2>3. {turn'.rows, turn'.shown, turn'.displayed} \subseteq FactsOf
    BY <2>2, EmptyIsOfFacts DEF Restored, GiftFits
  <2> QED BY <1>1, <2>1, <2>2, <2>3 DEF GiftFits
<1>5. CASE Reply
  BY <1>5, EmptyIsOfFacts, CompletedFacts DEF Reply
<1>6. ASSUME NEW ids \in SUBSET Products, NEW described \in SUBSET ids, Show(ids, described)
      PROVE  GiftFits'
  <2>1. PICK cards \in Projections(Observed(turn, ids), described) : CompleteTurn(cards, Empty)
    BY <1>6 DEF Show
  <2>2. turn # None /\ turn.view # 0
    BY <1>1, <1>6 DEF Show, GiftInv, TurnGood, TrueSearch, Searches, Versions
  <2> QED BY <2>1, <2>2, ObservedFacts, EmptyIsOfFacts, CompletedFacts
<1>7. ASSUME NEW ids \in SUBSET Products, NEW described \in SUBSET ids, List(ids, described)
      PROVE  GiftFits'
  <2>1. PICK listed \in Projections(Observed(turn, ids), described) : CompleteTurn(Empty, listed)
    BY <1>7 DEF List
  <2>2. turn # None /\ (ids \subseteq DOMAIN turn.rows \/ turn.view # 0)
    BY <1>7 DEF List, MayObserve
  <2> QED BY <2>1, <2>2, ObservedFacts, EmptyIsOfFacts, CompletedFacts
<1>8. CASE \E q \in Queries, change \in (SUBSET Products) \cup {None} : Search(q, change)
  BY <1>8, SearchFacts
<1>9. CASE Abandon \/ (\E q \in Profiles : Analyse(q)) \/ UNCHANGED giftVars
  BY <1>2, <1>9 DEF Abandon, Analyse, giftVars
<1> QED BY <1>3, <1>4, <1>5, <1>6, <1>7, <1>8, <1>9 DEF GiftNext

(* The turns about gifts keep to their types. *)
THEOREM GiftTypes == ASSUME GiftTurnsAssumption PROVE GiftSpec => []GiftTypeOK
<1>1. GiftInit => GiftInv
  BY DEF GiftInit, GiftInv, DislikesAreNotKept, OriginsAreTrue, Empty
<1>2. GiftInv /\ [GiftNext]_giftVars => GiftInv'
  BY GiftStep
<1>3. GiftInit => GiftFits
  BY EmptyIsOfFacts DEF GiftInit, GiftFits, Versions, GiftTurnsAssumption
<1>4. GiftInv /\ GiftFits /\ [GiftNext]_giftVars => GiftFits'
  BY GiftFitsStep
<1>5. GiftInv /\ GiftFits => GiftTypeOK
  <2> SUFFICES ASSUME GiftInv, GiftFits PROVE GiftTypeOK
    OBVIOUS
  <2>1. {MaxVersion, MaxTurns} \subseteq Nat /\ kept.replaced <= asked
    BY DEF GiftTurnsAssumption, GiftInv
  <2>2. asked \in 0..MaxTurns /\ kept.replaced \in 0..MaxTurns /\ metadata \in 0..MaxVersion
    BY <2>1 DEF GiftInv, GiftFits, Versions
  <2>3. turn # None => turn.search \in Searches \cup {None}
    BY DEF GiftInv, TurnGood, TrueSearch
  <2> QED BY <2>2, <2>3 DEF GiftInv, GiftFits, GiftTypeOK
<1> QED BY <1>1, <1>2, <1>3, <1>4, <1>5, PTL DEF GiftSpec

-----------------------------------------------------------------------------
(* Whose conversation a page may use. *)

Sessions == [sender : Senders \cup {NoTalk}, on : BOOLEAN,
             known : [Talks -> KnownTalks \cup {NoTalk}]]
Visits == [at : {"look", "chat", "binding", "answered", "refused"}, op : {"create", "use"},
           talk : Talks, sender : Senders, mode : Modes, kept : BOOLEAN, to : Recipients]

TalkTyped ==
  /\ talks \in [Talks -> Rows \cup {NoTalk}]
  /\ browser \in [Browsers -> Sessions] /\ visit \in [Browsers -> Visits \cup {Idle}]
  /\ \A b \in Browsers : browser[b].on => browser[b].sender \in Senders

(* A request for a conversation that is used is its sender's; one that was *)
(* answered with a conversation was answered with what it asked for; and a *)
(* session that is still the one that asked knows what it asked for. *)
VisitGood(b, v) ==
  /\ v.at = "binding" => v.op = "use"
  /\ v.op = "use" => talks[v.talk] # NoTalk /\ talks[v.talk].sender = v.sender
  /\ v.op = "create" /\ v.at = "answered" =>
       talks[v.talk] = [sender |-> v.sender, to |-> v.to, mode |-> v.mode]
  /\ b \in Minimal /\ v.op = "create" /\ v.kept =>
       /\ browser[b].on /\ browser[b].sender = v.sender
       /\ browser[b].known[v.talk] # NoTalk /\ browser[b].known[v.talk].mode = v.mode

ServedGood == \A x \in served :
  /\ x \in [sender : Senders, talk : Talks, mode : Modes] /\ talks[x.talk] # NoTalk
  /\ talks[x.talk].sender = x.sender /\ talks[x.talk].mode = x.mode

(* What the session y holds as verified is its own. *)
SessionGood(y) == \A k \in Talks :
  y.known[k] # NoTalk /\ y.known[k].verified =>
    talks[k] # NoTalk /\ talks[k].sender = y.sender /\ talks[k].mode = y.known[k].mode

TalkInv ==
  /\ TalkTyped /\ ServedGood
  /\ \A b \in Browsers : visit[b] # Idle => VisitGood(b, visit[b])
  /\ \A b \in Minimal : SessionGood(browser[b])

(* A conversation keeps its sender, its recipient and its mode. *)
TalksKept == \A k \in Talks : talks[k] # NoTalk => talks'[k] = talks[k]

(* One request goes on as v. *)
LEMMA VisitMoves ==
  ASSUME TalkInv, NEW b \in Browsers, NEW v \in Visits \cup {Idle},
         visit' = [visit EXCEPT ![b] = v], v # Idle => VisitGood(b, v),
         UNCHANGED <<talks, browser>>, ServedGood'
  PROVE  TalkInv'
<1>1. TalkTyped'
  BY DEF TalkInv, TalkTyped
<1>2. ASSUME NEW c \in Browsers, visit'[c] # Idle PROVE VisitGood(c, visit[c])'
  <2>1. visit'[c] = IF c = b THEN v ELSE visit[c]
    BY DEF TalkInv, TalkTyped
  <2>2. VisitGood(c, visit'[c])
    BY <1>2, <2>1 DEF TalkInv
  <2> QED BY <2>2 DEF VisitGood
<1>3. \A c \in Minimal : SessionGood(browser[c])'
  BY DEF TalkInv, SessionGood
<1> QED BY <1>1, <1>2, <1>3 DEF TalkInv

LEMMA Served == ASSUME TalkInv, UNCHANGED <<talks, served>> PROVE ServedGood'
BY DEF TalkInv, ServedGood

(* A request that only passes the time. *)
LEMMA VisitPasses ==
  ASSUME TalkInv, NEW b \in Browsers, NEW v \in Visits \cup {Idle},
         visit' = [visit EXCEPT ![b] = v],
         v # Idle => VisitGood(b, v),
         UNCHANGED <<talks, browser, served>>
  PROVE  TalkInv'
BY VisitMoves, Served

LEMMA Entering ==
  ASSUME ChatSessionsAssumption, TalkInv, NEW b \in Browsers, EnterTrial(b) \/ EnterMinimal(b)
  PROVE  TalkInv'
<1>1. PICK s \in Senders :
        /\ ~browser[b].on /\ UNCHANGED <<talks, visit, served>>
        /\ \/ b \in Trial /\ browser' = [browser EXCEPT ![b].on = TRUE, ![b].sender = s]
           \/ /\ b \in Minimal
              /\ browser' = [browser EXCEPT ![b] = [NoSession EXCEPT !.on = TRUE, !.sender = s]]
  <2>1. CASE EnterTrial(b)
    <3>1. PICK s \in IF browser[b].sender # NoTalk THEN {browser[b].sender} ELSE Fresh :
            browser' = [browser EXCEPT ![b].on = TRUE, ![b].sender = s]
      BY <2>1 DEF EnterTrial
    <3>2. s \in Senders
      BY DEF Fresh, TalkInv, TalkTyped, Sessions
    <3> QED BY <2>1, <3>1, <3>2 DEF EnterTrial
  <2>2. CASE EnterMinimal(b)
    <3>1. PICK s \in Fresh \cup {browser[d].sender : d \in {e \in Trial : browser[e].on}} :
            browser' = [browser EXCEPT ![b] = [NoSession EXCEPT !.on = TRUE, !.sender = s]]
      BY <2>2 DEF EnterMinimal
    <3>2. s \in Senders
      BY DEF Fresh, TalkInv, TalkTyped, Browsers
    <3> QED BY <2>2, <3>1, <3>2 DEF EnterMinimal
  <2> QED BY <2>1, <2>2
<1>2. PICK y \in Sessions :
        /\ browser' = [browser EXCEPT ![b] = y] /\ y.sender \in Senders
        /\ b \in Minimal => \A k \in Talks : y.known[k] = NoTalk
  <2>1. CASE b \in Trial
    <3> DEFINE y == [browser[b] EXCEPT !.on = TRUE, !.sender = s]
    <3>1. y \in Sessions /\ y.sender = s
      BY DEF TalkInv, TalkTyped, Sessions
    <3>2. browser' = [browser EXCEPT ![b] = y] /\ b \notin Minimal
      BY <1>1, <2>1, ChatSessionsAssumption DEF TalkInv, TalkTyped, ChatSessionsAssumption
    <3> QED BY <3>1, <3>2
  <2>2. CASE b \notin Trial
    <3> DEFINE y == [NoSession EXCEPT !.on = TRUE, !.sender = s]
    <3>1. y \in Sessions /\ y.sender = s /\ \A k \in Talks : y.known[k] = NoTalk
      BY DEF Sessions, NoSession
    <3>2. browser' = [browser EXCEPT ![b] = y]
      BY <1>1, <2>2
    <3> HIDE DEF y
    <3> QED BY <3>1, <3>2
  <2> QED BY <2>1, <2>2
<1>3. TalkTyped'
  BY <1>1, <1>2 DEF TalkInv, TalkTyped
<1>4. ASSUME NEW c \in Browsers, visit[c] # Idle PROVE VisitGood(c, visit[c])'
  <2>1. VisitGood(c, visit[c])
    BY <1>4 DEF TalkInv
  <2>2. CASE c = b
    BY <1>1, <2>1, <2>2, ChatSessionsAssumption DEF VisitGood, ChatSessionsAssumption
  <2>3. CASE c # b
    <3>1. browser'[c] = browser[c]
      BY <1>2, <2>3 DEF TalkInv, TalkTyped
    <3> QED BY <1>1, <2>1, <3>1 DEF VisitGood
  <2> QED BY <2>2, <2>3
<1>5. ASSUME NEW c \in Minimal PROVE SessionGood(browser'[c])
  <2>1. browser'[c] = IF c = b THEN y ELSE browser[c]
    BY <1>2 DEF TalkInv, TalkTyped, Browsers
  <2> QED BY <1>2, <2>1 DEF TalkInv, SessionGood
<1>6. \A c \in Minimal : SessionGood(browser[c])'
  BY <1>1, <1>5 DEF SessionGood
<1> QED BY <1>1, <1>3, <1>4, <1>6, Served DEF TalkInv

LEMMA Leaving ==
  ASSUME ChatSessionsAssumption, TalkInv, NEW b \in Browsers, Leave(b)
  PROVE  TalkInv'
<1>1. PICK y \in Sessions :
        /\ browser' = [browser EXCEPT ![b] = y] /\ ~y.on
        /\ b \in Minimal => \A k \in Talks : y.known[k] = NoTalk
  <2>1. CASE b \in Trial
    <3> DEFINE y == [browser[b] EXCEPT !.on = FALSE]
    <3>1. y \in Sessions /\ ~y.on
      BY DEF TalkInv, TalkTyped, Sessions
    <3>2. browser' = [browser EXCEPT ![b] = y] /\ b \notin Minimal
      BY <2>1, ChatSessionsAssumption DEF Leave, TalkInv, TalkTyped, ChatSessionsAssumption
    <3> QED BY <3>1, <3>2
  <2>2. CASE b \notin Trial
    <3>1. NoSession \in Sessions /\ ~NoSession.on /\ \A k \in Talks : NoSession.known[k] = NoTalk
      BY DEF Sessions, NoSession
    <3>2. browser' = [browser EXCEPT ![b] = NoSession]
      BY <2>2 DEF Leave
    <3> QED BY <3>1, <3>2
  <2> QED BY <2>1, <2>2
<1>2. PICK v \in Visits \cup {Idle} :
        /\ visit' = [visit EXCEPT ![b] = v]
        /\ v # Idle => VisitGood(b, v) /\ ~v.kept
  <2>1. CASE visit[b] = Idle
    BY <2>1 DEF Leave
  <2>2. CASE visit[b] # Idle
    <3> DEFINE v == [visit[b] EXCEPT !.kept = FALSE]
    <3>1. visit[b] \in Visits /\ VisitGood(b, visit[b])
      BY <2>2 DEF TalkInv, TalkTyped
    <3>2. /\ v \in Visits /\ ~v.kept
          /\ v.op = visit[b].op /\ v.at = visit[b].at /\ v.talk = visit[b].talk
          /\ v.sender = visit[b].sender /\ v.to = visit[b].to /\ v.mode = visit[b].mode
      BY <2>2, <3>1 DEF Visits
    <3>3. visit' = [visit EXCEPT ![b] = v]
      BY <2>2 DEF Leave
    <3> HIDE DEF v
    <3>4. VisitGood(b, v)
      BY <3>1, <3>2 DEF VisitGood
    <3> QED BY <3>2, <3>3, <3>4
  <2> QED BY <2>1, <2>2
<1>3. UNCHANGED <<talks, served>>
  BY DEF Leave
<1>4. TalkTyped'
  BY <1>1, <1>2, <1>3 DEF TalkInv, TalkTyped
<1>5. ASSUME NEW c \in Browsers, visit'[c] # Idle PROVE VisitGood(c, visit[c])'
  <2>1. CASE c = b
    <3>1. visit'[c] = v
      BY <1>2, <2>1 DEF TalkInv, TalkTyped
    <3> QED BY <1>2, <1>3, <1>5, <2>1, <3>1 DEF VisitGood
  <2>2. CASE c # b
    <3>1. browser'[c] = browser[c] /\ visit'[c] = visit[c]
      BY <1>1, <1>2, <2>2 DEF TalkInv, TalkTyped
    <3> QED BY <1>3, <1>5, <3>1 DEF TalkInv, VisitGood
  <2> QED BY <2>1, <2>2
<1>6. ASSUME NEW c \in Minimal PROVE SessionGood(browser'[c])
  <2>1. browser'[c] = IF c = b THEN y ELSE browser[c]
    BY <1>1 DEF TalkInv, TalkTyped, Browsers
  <2> QED BY <1>1, <2>1 DEF TalkInv, SessionGood
<1>7. \A c \in Minimal : SessionGood(browser[c])'
  BY <1>3, <1>6 DEF SessionGood
<1> QED BY <1>3, <1>4, <1>5, <1>7, Served DEF TalkInv

(* What a request asks for, when it comes. *)
LEMMA Asked ==
  ASSUME ChatSessionsAssumption, TalkInv, NEW b \in Browsers, browser[b].on,
         NEW k \in Talks, NEW mode \in Modes, NEW at \in {"look", "chat", "binding"}
  PROVE  /\ Asking(b, k, mode, at) \in Visits /\ Using(b, k, mode, at) \in Visits
         /\ \A to \in Recipients : [Asking(b, k, mode, at) EXCEPT !.to = to] \in Visits
<1>1. browser[b].sender \in Senders
  BY DEF TalkInv, TalkTyped
<1>2. (CHOOSE r \in Recipients : TRUE) \in Recipients
  BY ChatSessionsAssumption DEF ChatSessionsAssumption
<1> QED BY <1>1, <1>2 DEF Asking, Using, Visits

LEMMA Naming ==
  ASSUME ChatSessionsAssumption, TalkInv, NEW b \in Browsers, NEW k \in Talks,
         NEW mode \in Modes, NameMinimal(b, k, mode)
  PROVE  TalkInv'
<1> DEFINE known == browser[b].known[k]
           x == IF known # NoTalk THEN known ELSE [mode |-> mode, verified |-> FALSE]
<1>1. /\ b \in Minimal /\ browser[b].on /\ browser[b] \in Sessions
      /\ known \in KnownTalks \cup {NoTalk} /\ (known # NoTalk => known.mode = mode)
  BY DEF NameMinimal, MayName, TalkInv, TalkTyped, Sessions
<1>2. PICK y \in Sessions :
        /\ browser' = [browser EXCEPT ![b] = y] /\ y.on /\ y.sender = browser[b].sender
        /\ y.known = [browser[b].known EXCEPT ![k] = x]
  <2>1. x \in KnownTalks
    BY <1>1 DEF KnownTalks
  <2>2. browser' = [browser EXCEPT ![b].known[k] = x]
    BY DEF NameMinimal
  <2> HIDE DEF x
  <2> DEFINE y == [browser[b] EXCEPT !.known[k] = x]
  <2>3. /\ y \in Sessions /\ y.on /\ y.sender = browser[b].sender
        /\ y.known = [browser[b].known EXCEPT ![k] = x]
    BY <1>1, <2>1 DEF Sessions
  <2>4. browser' = [browser EXCEPT ![b] = y]
    BY <2>2 DEF TalkInv, TalkTyped
  <2> HIDE DEF y
  <2> QED BY <2>3, <2>4
<1>3. /\ \A j \in Talks : y.known[j] = IF j = k THEN x ELSE browser[b].known[j]
      /\ x.mode = mode /\ (known = NoTalk => ~x.verified)
  BY <1>1, <1>2 DEF Sessions
<1>4. PICK v \in Visits :
        /\ visit' = [visit EXCEPT ![b] = v] /\ v.op = "create" /\ v.at = "chat"
        /\ v.talk = k /\ v.mode = mode /\ v.sender = browser[b].sender
  BY <1>1, Asked DEF NameMinimal, Asking
<1>5. UNCHANGED <<talks, served>>
  BY DEF NameMinimal
<1>6. y.known[k] # NoTalk /\ y.known[k].mode = mode
  <2>1. x \in KnownTalks
    BY <1>1 DEF KnownTalks
  <2> HIDE DEF x
  <2> QED BY <1>3, <2>1, ChatSessionsAssumption DEF ChatSessionsAssumption
<1> HIDE DEF x
<1>7. TalkTyped'
  BY <1>1, <1>2, <1>4, <1>5 DEF TalkInv, TalkTyped
<1>8. ASSUME NEW c \in Browsers, visit'[c] # Idle PROVE VisitGood(c, visit[c])'
  <2>1. CASE c = b
    <3>1. visit'[c] = v /\ browser'[c] = y
      BY <1>2, <1>4, <2>1 DEF TalkInv, TalkTyped
    <3>2. v.at # "binding" /\ v.op # "use" /\ v.at # "answered"
      BY <1>4
    <3>3. /\ browser'[c].on /\ browser'[c].sender = v.sender
          /\ browser'[c].known[v.talk] # NoTalk /\ browser'[c].known[v.talk].mode = v.mode
      BY <1>2, <1>4, <1>6, <3>1
    <3> QED BY <3>1, <3>2, <3>3 DEF VisitGood
  <2>2. CASE c # b
    <3>1. browser'[c] = browser[c] /\ visit'[c] = visit[c]
      BY <1>2, <1>4, <2>2 DEF TalkInv, TalkTyped
    <3> QED BY <1>5, <1>8, <3>1 DEF TalkInv, VisitGood
  <2> QED BY <2>1, <2>2
<1>9. SessionGood(y)
  <2>1. SessionGood(browser[b])
    BY <1>1 DEF TalkInv
  <2>2. known # NoTalk => x = known
    BY DEF x
  <2> QED BY <1>2, <1>3, <2>1, <2>2 DEF SessionGood
<1>10. ASSUME NEW c \in Minimal PROVE SessionGood(browser'[c])
  <2>1. browser'[c] = IF c = b THEN y ELSE browser[c]
    BY <1>2 DEF TalkInv, TalkTyped, Browsers
  <2> QED BY <1>9, <2>1 DEF TalkInv, SessionGood
<1>11. \A c \in Minimal : SessionGood(browser[c])'
  BY <1>5, <1>10 DEF SessionGood
<1> QED BY <1>5, <1>7, <1>8, <1>11, Served DEF TalkInv

(* Chat binds the conversation to what was asked for, or has it bound. *)
LEMMA Creating ==
  ASSUME ChatSessionsAssumption, TalkInv, NEW b \in Browsers, Create(b)
  PROVE  TalkInv'
<1> DEFINE k == visit[b].talk
           w == Wanted(b)
<1>1. visit[b] \in Visits /\ visit[b].op = "create" /\ k \in Talks /\ w \in Rows
      /\ visit[b] # Idle /\ UNCHANGED browser
  BY DEF Create, Wanted, Visits, Idle, TalkInv, TalkTyped, Rows
<1>2. talks' = [talks EXCEPT ![k] = IF talks[k] = NoTalk THEN w ELSE talks[k]]
  BY DEF Create, Bound
<1>3. TalksKept /\ talks' \in [Talks -> Rows \cup {NoTalk}]
  BY <1>1, <1>2 DEF TalksKept, TalkInv, TalkTyped
<1>4. PICK v \in Visits :
        /\ visit' = [visit EXCEPT ![b] = v]
        /\ v.op = "create" /\ v.talk = k /\ v.sender = visit[b].sender /\ v.to = visit[b].to
        /\ v.mode = visit[b].mode /\ v.kept = visit[b].kept
        /\ v.at # "binding" /\ (v.at = "answered" => talks'[k] = w)
  <2> DEFINE at == IF talks'[k] = w THEN "answered" ELSE "refused"
             v == [visit[b] EXCEPT !.at = at]
  <2>1. /\ v \in Visits /\ v.op = "create" /\ v.talk = k /\ v.sender = visit[b].sender
        /\ v.to = visit[b].to /\ v.mode = visit[b].mode /\ v.kept = visit[b].kept
        /\ v.at # "binding" /\ (v.at = "answered" => talks'[k] = w)
    BY <1>1 DEF Visits
  <2>2. visit' = [visit EXCEPT ![b] = v]
    BY DEF Create, TalkInv, TalkTyped
  <2> HIDE DEF v
  <2> QED BY <2>1, <2>2
<1>5. ServedGood'
  <2>1. \A x \in served' :
          \/ x \in served
          \/ talks'[k] = w /\ x = [sender |-> visit[b].sender, talk |-> k, mode |-> visit[b].mode]
    BY DEF Create
  <2>2. w # NoTalk /\ w.sender = visit[b].sender /\ w.mode = visit[b].mode
    BY <1>1, ChatSessionsAssumption DEF Wanted, ChatSessionsAssumption
  <2>3. [sender |-> visit[b].sender, talk |-> k, mode |-> visit[b].mode]
          \in [sender : Senders, talk : Talks, mode : Modes]
    BY <1>1 DEF Visits
  <2> HIDE DEF w
  <2> QED BY <1>1, <1>3, <2>1, <2>2, <2>3 DEF ServedGood, TalkInv, TalksKept
<1>6. TalkTyped'
  BY <1>1, <1>3, <1>4 DEF TalkInv, TalkTyped
<1>7. ASSUME NEW c \in Browsers, visit'[c] # Idle PROVE VisitGood(c, visit[c])'
  <2>1. CASE c = b
    <3>1. visit'[c] = v /\ VisitGood(b, visit[b])
      BY <1>1, <1>4, <2>1 DEF TalkInv, TalkTyped
    <3>2. w = [sender |-> v.sender, to |-> v.to, mode |-> v.mode]
      BY <1>4 DEF Wanted
    <3> HIDE DEF w
    <3> QED BY <1>1, <1>4, <2>1, <3>1, <3>2 DEF VisitGood
  <2>2. CASE c # b
    <3>1. visit'[c] = visit[c] /\ VisitGood(c, visit[c]) /\ visit[c] \in Visits
      BY <1>4, <1>7, <2>2 DEF TalkInv, TalkTyped
    <3>2. [sender |-> visit[c].sender, to |-> visit[c].to, mode |-> visit[c].mode] # NoTalk
      BY <3>1, ChatSessionsAssumption DEF ChatSessionsAssumption, Rows, Visits
    <3>3. visit[c].talk \in Talks
      BY <3>1 DEF Visits
    <3> QED BY <1>1, <1>3, <3>1, <3>2, <3>3 DEF VisitGood, TalksKept
  <2> QED BY <2>1, <2>2
<1>8. \A c \in Minimal : SessionGood(browser[c])'
  BY <1>1, <1>3 DEF TalkInv, SessionGood, TalksKept
<1> QED BY <1>5, <1>6, <1>7, <1>8 DEF TalkInv

(* An answer that confirms a conversation makes it the session's own. *)
LEMMA Answering ==
  ASSUME ChatSessionsAssumption, TalkInv, NEW b \in Browsers, Answer(b)
  PROVE  TalkInv'
<1>1. /\ visit[b] \in Visits /\ visit[b] # Idle /\ VisitGood(b, visit[b])
      /\ visit' = [visit EXCEPT ![b] = Idle] /\ UNCHANGED <<talks, served>>
  BY DEF Answer, Quit, Idle, TalkInv, TalkTyped, Visits
<1> DEFINE k == visit[b].talk
<1>2. CASE browser' = browser
  BY <1>1, <1>2, VisitPasses
<1>3. CASE b \in Minimal /\ visit[b].op = "create" /\ visit[b].kept /\ visit[b].at = "answered"
  <2> DEFINE y == [browser[b] EXCEPT !.known[k].verified = TRUE]
  <2>1. /\ browser[b] \in Sessions /\ k \in Talks /\ browser[b].known[k] \in KnownTalks
        /\ browser[b].known[k].mode = visit[b].mode /\ browser[b].on
        /\ browser[b].sender = visit[b].sender
    BY <1>1, <1>3 DEF VisitGood, TalkInv, TalkTyped, Visits, Sessions
  <2>2. /\ y \in Sessions /\ y.on /\ y.sender = browser[b].sender
        /\ \A j \in Talks \ {k} : y.known[j] = browser[b].known[j]
        /\ y.known[k].mode = browser[b].known[k].mode
        /\ \A j \in Talks : browser[b].known[j] # NoTalk =>
              y.known[j] \in KnownTalks /\ y.known[j].mode = browser[b].known[j].mode
    <3> DEFINE x == [browser[b].known[k] EXCEPT !.verified = TRUE]
               f == [browser[b].known EXCEPT ![k] = x]
    <3>1. x \in KnownTalks /\ x.mode = browser[b].known[k].mode
      BY <2>1 DEF KnownTalks
    <3>2. y = [browser[b] EXCEPT !.known = f]
      BY <2>1 DEF Sessions
    <3> HIDE DEF x, y
    <3>3. f \in [Talks -> KnownTalks \cup {NoTalk}] /\ f[k] = x
          /\ \A j \in Talks \ {k} : f[j] = browser[b].known[j]
      BY <2>1, <3>1 DEF Sessions
    <3> HIDE DEF f
    <3>4. y \in Sessions /\ y.on /\ y.sender = browser[b].sender /\ y.known = f
      BY <2>1, <3>2, <3>3 DEF Sessions
    <3> QED BY <2>1, <3>1, <3>3, <3>4 DEF Sessions
  <2>3. browser' = [browser EXCEPT ![b] = y]
    BY <1>3 DEF Answer, Verified, TalkInv, TalkTyped
  <2> HIDE DEF y
  <2>4. TalkTyped'
    BY <1>1, <2>1, <2>2, <2>3 DEF TalkInv, TalkTyped
  <2>5. ASSUME NEW c \in Browsers, visit'[c] # Idle PROVE VisitGood(c, visit[c])'
    <3>1. c # b /\ visit'[c] = visit[c] /\ browser'[c] = browser[c]
      BY <1>1, <2>3, <2>5 DEF TalkInv, TalkTyped
    <3> QED BY <1>1, <2>5, <3>1 DEF TalkInv, VisitGood
  <2>6. SessionGood(y)
    <3>1. SessionGood(browser[b])
      BY <1>3 DEF TalkInv
    <3>2. talks[k] = [sender |-> visit[b].sender, to |-> visit[b].to, mode |-> visit[b].mode]
          /\ talks[k] # NoTalk
      BY <1>1, <1>3, ChatSessionsAssumption
         DEF VisitGood, ChatSessionsAssumption, Rows, Visits
    <3>3. talks[k].sender = y.sender /\ talks[k].mode = y.known[k].mode
      BY <2>1, <2>2, <3>2
    <3> QED BY <2>1, <2>2, <3>1, <3>2, <3>3 DEF SessionGood
  <2>7. ASSUME NEW c \in Minimal PROVE SessionGood(browser'[c])
    <3>1. browser'[c] = IF c = b THEN y ELSE browser[c]
      BY <2>3 DEF TalkInv, TalkTyped, Browsers
    <3> QED BY <2>6, <3>1 DEF TalkInv
  <2>8. \A c \in Minimal : SessionGood(browser[c])'
    BY <1>1, <2>7 DEF SessionGood
  <2> QED BY <1>1, <2>4, <2>5, <2>8, Served DEF TalkInv
<1> QED BY <1>2, <1>3 DEF Answer, Verified

LEMMA TalkStep ==
  ASSUME ChatSessionsAssumption, TalkInv, [TalkNext]_talkVars
  PROVE  TalkInv'
<1>1. CASE UNCHANGED talkVars
  BY <1>1 DEF talkVars, TalkInv, TalkTyped, ServedGood, VisitGood, SessionGood
<1>2. ASSUME NEW b \in Browsers, NEW k \in Talks, NEW mode \in Modes, NEW to \in Recipients,
             NameTrial(b, k, mode, to)
      PROVE  TalkInv'
  <2>1. PICK at \in {"chat", "look"} :
          visit' = [visit EXCEPT ![b] = [Asking(b, k, mode, at) EXCEPT !.to = to]]
    BY <1>2 DEF NameTrial
  <2> DEFINE v == [Asking(b, k, mode, at) EXCEPT !.to = to]
  <2>2. v \in Visits
    BY <1>2, Asked DEF NameTrial
  <2>3. v.op = "create" /\ v.at = at
    BY DEF Asking
  <2>4. b \notin Minimal /\ UNCHANGED <<talks, browser, served>>
    BY <1>2, ChatSessionsAssumption DEF NameTrial, ChatSessionsAssumption
  <2> HIDE DEF v
  <2>5. VisitGood(b, v)
    BY <2>3, <2>4 DEF VisitGood
  <2> QED BY <2>1, <2>2, <2>4, <2>5, VisitPasses DEF v
<1>3. ASSUME NEW b \in Browsers, Look(b) \/ Lose(b) \/ Binding(b) PROVE TalkInv'
  <2>1. /\ visit[b] \in Visits /\ visit[b] # Idle /\ VisitGood(b, visit[b])
        /\ UNCHANGED <<talks, browser, served>>
    BY <1>3 DEF Look, Lose, Binding, Idle, TalkInv, TalkTyped, Visits
  <2>2. CASE visit' = Quit(b)
    BY <2>1, <2>2, VisitPasses DEF Quit
  <2>3. CASE visit' = [visit EXCEPT ![b].at = "chat"]
    <3> DEFINE v == [visit[b] EXCEPT !.at = "chat"]
    <3>1. /\ v \in Visits /\ v.op = visit[b].op /\ v.at = "chat" /\ v.talk = visit[b].talk
          /\ v.sender = visit[b].sender /\ v.mode = visit[b].mode /\ v.kept = visit[b].kept
      BY <2>1 DEF Visits
    <3>2. visit' = [visit EXCEPT ![b] = v]
      BY <2>3 DEF TalkInv, TalkTyped
    <3> HIDE DEF v
    <3>3. VisitGood(b, v)
      BY <2>1, <3>1 DEF VisitGood
    <3> QED BY <2>1, <3>1, <3>2, <3>3, VisitPasses
  <2>4. CASE /\ visit[b].at = "binding"
             /\ visit' = [visit EXCEPT ![b].at = "chat", ![b].mode = talks[visit[b].talk].mode]
    <3>1. /\ visit[b].op = "use" /\ visit[b].talk \in Talks
          /\ talks[visit[b].talk] \in Rows
      BY <2>1, <2>4 DEF TalkInv, TalkTyped, VisitGood, Visits
    <3>2. PICK mode \in Modes : mode = talks[visit[b].talk].mode
      BY <3>1 DEF Rows
    <3> DEFINE v == [visit[b] EXCEPT !.at = "chat", !.mode = mode]
    <3>3. /\ v \in Visits /\ v.op = "use" /\ v.at = "chat" /\ v.talk = visit[b].talk
          /\ v.sender = visit[b].sender
      BY <2>1, <3>1 DEF Visits
    <3>4. visit' = [visit EXCEPT ![b] = v]
      BY <2>4, <3>2 DEF TalkInv, TalkTyped
    <3> HIDE DEF v
    <3>5. VisitGood(b, v)
      BY <2>1, <3>1, <3>3 DEF VisitGood
    <3> QED BY <2>1, <3>3, <3>4, <3>5, VisitPasses
  <2> QED BY <1>3, <2>2, <2>3, <2>4 DEF Look, Lose, Binding
<1>4. ASSUME NEW b \in Browsers, NEW k \in Talks, NEW mode \in Modes,
             UseMinimal(b, k) \/ UseTrial(b, k, mode)
      PROVE  TalkInv'
  <2>1. /\ talks[k] # NoTalk /\ talks[k].sender = browser[b].sender /\ browser[b].on
        /\ UNCHANGED <<talks, browser, served>>
    BY <1>4 DEF UseMinimal, UseTrial, Owned, TalkInv, SessionGood
  <2>2. PICK way \in Modes, at \in {"chat", "binding"} :
          visit' = [visit EXCEPT ![b] = Using(b, k, way, at)]
    <3>1. CASE UseTrial(b, k, mode)
      BY <3>1 DEF UseTrial
    <3>2. CASE UseMinimal(b, k)
      <4>1. browser[b].known[k].mode \in Modes
        BY <3>2 DEF UseMinimal, TalkInv, TalkTyped, Sessions, KnownTalks
      <4> QED BY <3>2, <4>1 DEF UseMinimal
    <3> QED BY <1>4, <3>1, <3>2
  <2>3. PICK v \in Visits : v = Using(b, k, way, at)
    BY <2>1, Asked
  <2>4. v.op = "use" /\ v.talk = k /\ v.sender = browser[b].sender
    BY <2>3 DEF Using, Asking
  <2>5. VisitGood(b, v)
    BY <2>1, <2>4 DEF VisitGood
  <2> QED BY <2>1, <2>2, <2>3, <2>5, VisitPasses
<1>5. ASSUME NEW b \in Browsers, Serve(b) PROVE TalkInv'
  <2>1. /\ visit[b] \in Visits /\ visit[b] # Idle /\ VisitGood(b, visit[b])
        /\ UNCHANGED <<talks, browser>> /\ visit[b].op = "use"
    BY <1>5 DEF Serve, Idle, TalkInv, TalkTyped, Visits
  <2>2. PICK at \in {"answered", "refused"} : visit' = [visit EXCEPT ![b].at = at]
    BY <1>5 DEF Serve
  <2> DEFINE v == [visit[b] EXCEPT !.at = at]
  <2>3. /\ v \in Visits /\ v.op = "use" /\ v.at = at /\ v.talk = visit[b].talk
        /\ v.sender = visit[b].sender
    BY <2>1 DEF Visits
  <2>4. visit' = [visit EXCEPT ![b] = v]
    BY <2>2 DEF TalkInv, TalkTyped
  <2> HIDE DEF v
  <2>5. VisitGood(b, v)
    BY <2>1, <2>3 DEF VisitGood
  <2>6. ServedGood'
    <3>1. visit[b].talk \in Talks /\ talks[visit[b].talk] # NoTalk
          /\ talks[visit[b].talk].sender = visit[b].sender
      BY <2>1 DEF VisitGood, Visits
    <3>2. [sender |-> visit[b].sender, talk |-> visit[b].talk, mode |-> visit[b].mode]
            \in [sender : Senders, talk : Talks, mode : Modes]
      BY <2>1 DEF Visits
    <3> QED BY <1>5, <2>1, <3>1, <3>2 DEF Serve, ServedGood, TalkInv
  <2> QED BY <2>1, <2>3, <2>4, <2>5, <2>6, VisitMoves
<1> QED BY <1>1, <1>2, <1>3, <1>4, <1>5, Entering, Leaving, Naming, Creating, Answering
        DEF TalkNext, Modes

(* For any browsers, conversations and requests, whatever ids pages name, *)
(* whatever answers are lost and whenever sessions end: Chat serves a *)
(* conversation to the sender it belongs to, in its mode, and to nobody *)
(* else through either adapter, and a minimal session holds as verified *)
(* only what is its own (main.py selected_runtime, demo_api.py owned, *)
(* minimal_chat/server.py owned). *)
THEOREM TalksAreTheirSenders ==
  ASSUME ChatSessionsAssumption
  PROVE  TalkSpec => [](TalkTypeOK /\ OnlyItsSender)
<1>1. TalkInit => TalkInv
  <2> SUFFICES ASSUME TalkInit PROVE TalkInv
    OBVIOUS
  <2>1. NoSession \in Sessions /\ ~NoSession.on /\ SessionGood(NoSession)
    BY DEF NoSession, Sessions, SessionGood
  <2>2. /\ browser = [b \in Browsers |-> NoSession] /\ visit = [b \in Browsers |-> Idle]
        /\ talks = [k \in Talks |-> NoTalk] /\ served = {}
    BY DEF TalkInit
  <2>3. Minimal \subseteq Browsers
    BY DEF Browsers
  <2> QED BY <2>1, <2>2, <2>3 DEF TalkInv, TalkTyped, ServedGood
<1>2. TalkInv /\ [TalkNext]_talkVars => TalkInv'
  BY TalkStep
<1>3. TalkInv => TalkTypeOK
  <2> SUFFICES ASSUME TalkInv PROVE TalkTypeOK
    OBVIOUS
  <2>1. served \subseteq [sender : Senders, talk : Talks, mode : Modes]
    BY DEF TalkInv, ServedGood
  <2> QED BY <2>1 DEF TalkInv, TalkTyped, TalkTypeOK, Visits, Idle
<1>4. TalkInv => OnlyItsSender
  BY DEF TalkInv, ServedGood, SessionGood, OnlyItsSender
<1> QED BY <1>1, <1>2, <1>3, <1>4, PTL DEF TalkSpec
-----------------------------------------------------------------------------
(* The answer and its readers. *)

EventKinds == TurnEndings \cup {"answer.delta"}
EventRows == [kind : EventKinds, pieces : SUBSET Nat]
ModelStates == [sent : Nat, end : {"open", "stop", "length", "error"}]
AnswerStates == [at : {"gather", "flush", "finish", "ran", "cancelled", "gone"},
                 taken : Nat, buffer : SUBSET Nat, any : BOOLEAN,
                 ending : {"COMPLETED", "FAILED"}]

EndedRows(rows) == \E n \in 1..Len(rows) : rows[n].kind \in TurnEndings
PiecesOf(rows) == UNION {rows[n].pieces : n \in 1..Len(rows)}
Earlier(s, u) == \A i \in s, j \in u : i < j
InOrder(rows) == \A m, n \in 1..Len(rows) : m < n => Earlier(rows[m].pieces, rows[n].pieces)

(* The events of a turn hold what was taken of the model m and is not *)
(* gathered in a, until they have an end. *)
AnswerGood(m, a, rows) ==
  /\ a.taken <= m.sent /\ InOrder(rows)
  /\ a.at \in {"gather", "flush"} /\ ~EndedRows(rows) =>
       PiecesOf(rows) \cup a.buffer = 1..a.taken /\ Earlier(PiecesOf(rows), a.buffer)
  /\ a.at = "finish" /\ a.ending = "COMPLETED" /\ ~EndedRows(rows) =>
       PiecesOf(rows) = 1..m.sent /\ m.end = "stop"
  /\ (\E n \in 1..Len(rows) : rows[n].kind = "COMPLETED") =>
       PiecesOf(rows) = 1..m.sent /\ m.end = "stop"

AnswerInv ==
  /\ model \in [Turns -> ModelStates] /\ answer \in [Turns -> AnswerStates]
  /\ published \in [Turns -> Seq(EventRows)]
  /\ \A t \in Turns : AnswerGood(model[t], answer[t], published[t])

StreamStates == [at : {"new", "admitted", "opened", "body", "ending", "closed"},
                 turn : Turns \cup {NoStream}, cursor : Nat, batch : Seq(Nat), last : Nat,
                 over : BOOLEAN, wire : Seq(Nat), leased : BOOLEAN, cut : BOOLEAN]
PageStates == [turn : Turns, log : Seq(Nat), cursor : Nat, stream : Streams \cup {NoStream},
               whole : BOOLEAN]
Occupied == {"admitted", "opened", "body"}

(* s goes on from number k. *)
Counting(s, k) == s = [n \in 1..Len(s) |-> k + n]

(* What the stream s still has to send of the events of its turn. *)
Replays(s, rows) ==
  /\ s.cursor <= Len(rows)
  /\ s.at # "admitted" =>
       /\ Counting(s.batch, s.cursor) /\ s.cursor + Len(s.batch) = s.last
       /\ s.last <= Len(rows)
       /\ s.over => EndedRows(rows) /\ s.last = Len(rows)

StreamGood(s, rows) ==
  /\ s.at = "new" => s = Unused
  /\ s.leased <=> s.at \in Occupied
  /\ s.at \in Occupied => s.turn \in Turns /\ Replays(s, rows)

(* What the page y has of its turn. *)
PageGood(y, rows) ==
  /\ Counting(y.log, 0) /\ y.cursor = Len(y.log) /\ y.cursor <= Len(rows)
  /\ y.whole => EndedRows(rows) /\ y.cursor = Len(rows)

(* What is on its way to it in its stream s. *)
WireGood(y, s, rows) ==
  /\ s.at # "new" /\ Counting(s.wire, y.cursor) /\ y.cursor + Len(s.wire) <= Len(rows)
  /\ s.at \in Occupied => s.turn = y.turn /\ ~s.cut /\ y.cursor + Len(s.wire) = s.cursor
  /\ s.at \notin Occupied /\ ~s.cut => EndedRows(rows) /\ y.cursor + Len(s.wire) = Len(rows)

LogTyped ==
  /\ stream \in [Streams -> StreamStates] /\ page \in [Pages -> PageStates]
  /\ published \in [Turns -> Seq(EventRows)]

LogInv ==
  /\ LogTyped
  /\ \A c \in Streams : StreamGood(stream[c], published[stream[c].turn])
  /\ \A p \in Pages :
       /\ PageGood(page[p], published[page[p].turn])
       /\ page[p].stream # NoStream =>
            WireGood(page[p], stream[page[p].stream], published[page[p].turn])
  /\ \A p, q \in Pages : page[p].stream = page[q].stream /\ page[p].stream # NoStream => p = q

AllHeld == {c \in Streams : stream[c].at \in Occupied}
OnTurn(t) == {c \in AllHeld : stream[c].turn = t}

SlotsCounted ==
  /\ slots \in [total : Nat, turn : [Turns -> Nat]]
  /\ IsFiniteSet(AllHeld) /\ slots.total = Cardinality(AllHeld)
  /\ \A t \in Turns : slots.turn[t] = Cardinality(OnTurn(t))

Used(t) == Working(t) \/ slots.turn[t] > 0

SlotInv == SlotsCounted /\ \A t \in signals : t \in Turns /\ Used(t)

-----------------------------------------------------------------------------
(* The pieces of the answer. *)

(* What committing one more event to the rows of a turn changes. *)
LEMMA OneMoreEvent ==
  ASSUME NEW rows \in Seq(EventRows), NEW e \in EventRows
  PROVE  LET new == Append(rows, e) IN
         /\ new \in Seq(EventRows) /\ Len(new) = Len(rows) + 1
         /\ new[Len(rows) + 1] = e
         /\ \A n \in 1..Len(rows) : new[n] = rows[n]
         /\ PiecesOf(new) = PiecesOf(rows) \cup e.pieces
         /\ EndedRows(new) <=> EndedRows(rows) \/ e.kind \in TurnEndings
<1> DEFINE new == Append(rows, e)
<1>1. /\ new \in Seq(EventRows) /\ Len(new) = Len(rows) + 1 /\ Len(rows) \in Nat
      /\ new[Len(rows) + 1] = e
      /\ \A n \in 1..Len(rows) : new[n] = rows[n]
  OBVIOUS
<1> HIDE DEF new
<1>2. \A n : n \in 1..Len(new) <=> n \in 1..Len(rows) \/ n = Len(rows) + 1
  BY <1>1
<1>3. Len(rows) + 1 \in 1..Len(new)
  BY <1>1
<1>4. EndedRows(new) <=> EndedRows(rows) \/ e.kind \in TurnEndings
  <2> HIDE DEF TurnEndings
  <2> QED BY ONLY <1>1, <1>2, <1>3 DEF EndedRows
<1>5. \A i : i \in PiecesOf(new) <=> i \in PiecesOf(rows) \/ i \in e.pieces
  <2>1. ASSUME NEW s, s \in Seq(EventRows) PROVE \A i : i \in PiecesOf(s) <=> \E n \in 1..Len(s) : i \in s[n].pieces
    BY DEF PiecesOf
  <2>2. /\ \A i : i \in PiecesOf(new) <=> \E n \in 1..Len(new) : i \in new[n].pieces
        /\ \A i : i \in PiecesOf(rows) <=> \E n \in 1..Len(rows) : i \in rows[n].pieces
    BY <1>1, <2>1
  <2> QED BY ONLY <1>1, <1>2, <1>3, <2>2
<1> QED BY <1>1, <1>4, <1>5 DEF new

LEMMA InOrderStill ==
  ASSUME NEW rows \in Seq(EventRows), NEW e \in EventRows, InOrder(rows),
         Earlier(PiecesOf(rows), e.pieces)
  PROVE  InOrder(Append(rows, e))
<1> DEFINE new == Append(rows, e)
<1>1. /\ Len(new) = Len(rows) + 1 /\ new[Len(rows) + 1] = e /\ Len(rows) \in Nat
      /\ \A n \in 1..Len(rows) : new[n] = rows[n]
  OBVIOUS
<1> HIDE DEF new
<1> SUFFICES ASSUME NEW m \in 1..Len(new), NEW n \in 1..Len(new), m < n
             PROVE  Earlier(new[m].pieces, new[n].pieces)
  BY DEF InOrder, new
<1>2. m \in 1..Len(rows) /\ new[m] = rows[m]
  BY <1>1
<1>3. CASE n = Len(rows) + 1
  BY <1>1, <1>2, <1>3 DEF Earlier, PiecesOf
<1>4. CASE n # Len(rows) + 1
  <2>1. n \in 1..Len(rows) /\ new[n] = rows[n]
    BY <1>1, <1>4
  <2> QED BY <1>2, <2>1 DEF InOrder
<1> QED BY <1>3, <1>4

(* Nothing is added to what has ended. *)
LEMMA EmittedRows ==
  ASSUME NEW t \in Turns, NEW kind \in EventKinds, NEW pieces \in SUBSET Nat,
         published \in [Turns -> Seq(EventRows)]
  PROVE  LET rows == IF EndedRows(published[t]) THEN published[t]
                     ELSE Append(published[t], [kind |-> kind, pieces |-> pieces])
         IN  Emitted(t, kind, pieces) = [published EXCEPT ![t] = rows] /\ rows \in Seq(EventRows)
<1>1. Ended(t) <=> EndedRows(published[t])
  BY DEF Ended, EndedRows
<1> DEFINE e == [kind |-> kind, pieces |-> pieces]
<1>2. e \in EventRows /\ published[t] \in Seq(EventRows)
  BY DEF EventRows
<1>3. Emitted(t, kind, pieces) = IF Ended(t) THEN published
                                 ELSE [published EXCEPT ![t] = Append(@, e)]
  BY DEF Emitted
<1> HIDE DEF e
<1>4. CASE Ended(t)
  <2>1. published = [published EXCEPT ![t] = published[t]]
    OBVIOUS
  <2> QED BY <1>1, <1>2, <1>3, <1>4, <2>1
<1>5. CASE ~Ended(t)
  <2>1. Emitted(t, kind, pieces) = [published EXCEPT ![t] = Append(published[t], e)]
    BY <1>3, <1>5
  <2>2. Append(published[t], e) \in Seq(EventRows)
    BY <1>2
  <2> QED BY ONLY <1>1, <1>5, <2>1, <2>2 DEF e
<1> QED BY <1>4, <1>5

LEMMA ForgottenAnswer ==
  LET a == [Begun EXCEPT !.at = "gone"] IN a \in AnswerStates /\ a.at = "gone" /\ a.taken = 0
BY DEF AnswerStates, Begun

(* The event that ends the answer, when it is a whole one. *)
LEMMA AnswerEnds ==
  ASSUME NEW m \in ModelStates, NEW a \in AnswerStates, NEW rows \in Seq(EventRows),
         AnswerGood(m, a, rows), ~EndedRows(rows),
         NEW kind \in TurnEndings,
         kind = "COMPLETED" => a.at = "finish" /\ a.ending = "COMPLETED",
         NEW b \in AnswerStates, b.taken <= m.sent
  PROVE  AnswerGood(m, b, Append(rows, [kind |-> kind, pieces |-> {}]))
<1> DEFINE e == [kind |-> kind, pieces |-> {}]
           new == Append(rows, e)
<1>1. e \in EventRows /\ e.pieces = {} /\ e.kind = kind /\ new = Append(rows, e)
  BY DEF EventRows, EventKinds
<1> HIDE DEF e, new
<1>2. /\ Len(new) = Len(rows) + 1 /\ new[Len(rows) + 1] = e /\ PiecesOf(new) = PiecesOf(rows)
      /\ \A n \in 1..Len(rows) : new[n] = rows[n]
      /\ EndedRows(new)
  <2>1. /\ Len(new) = Len(rows) + 1 /\ new[Len(rows) + 1] = e
        /\ PiecesOf(new) = PiecesOf(rows) \cup e.pieces
        /\ \A n \in 1..Len(rows) : new[n] = rows[n]
        /\ EndedRows(new) <=> EndedRows(rows) \/ e.kind \in TurnEndings
    BY <1>1, OneMoreEvent DEF new
  <2>2. PiecesOf(rows) \cup {} = PiecesOf(rows)
    BY Zenon
  <2>3. e.kind \in TurnEndings
    BY <1>1
  <2> QED BY ONLY <1>1, <2>1, <2>2, <2>3
<1>3. InOrder(new)
  <2>1. Earlier(PiecesOf(rows), e.pieces) /\ InOrder(rows)
    BY <1>1 DEF AnswerGood, Earlier
  <2> QED BY <1>1, <2>1, InOrderStill
<1>4. (\E n \in 1..Len(new) : new[n].kind = "COMPLETED") =>
        PiecesOf(new) = 1..m.sent /\ m.end = "stop"
  <2> SUFFICES ASSUME NEW n \in 1..Len(new), new[n].kind = "COMPLETED"
               PROVE  PiecesOf(new) = 1..m.sent /\ m.end = "stop"
    OBVIOUS
  <2>1. n \notin 1..Len(rows)
    BY <1>2 DEF EndedRows, TurnEndings
  <2>2. n = Len(rows) + 1
    BY <1>2, <2>1
  <2> QED BY <1>1, <1>2, <2>2 DEF AnswerGood
<1> QED BY <1>2, <1>3, <1>4 DEF AnswerGood, new, e

(* The next event of the answer. *)
LEMMA AnswerFlushes ==
  ASSUME NEW m \in ModelStates, NEW a \in AnswerStates, NEW rows \in Seq(EventRows),
         AnswerGood(m, a, rows), ~EndedRows(rows), a.at = "flush",
         NEW b \in AnswerStates, b.taken = a.taken,
         \/ b.at = "gather" /\ b.buffer = {}
         \/ b.at = "finish" /\ b.ending = "FAILED"
  PROVE  AnswerGood(m, b, Append(rows, [kind |-> "answer.delta", pieces |-> a.buffer]))
<1> DEFINE e == [kind |-> "answer.delta", pieces |-> a.buffer]
           new == Append(rows, e)
<1>1. /\ e \in EventRows /\ e.pieces = a.buffer /\ e.kind = "answer.delta"
      /\ e.kind \notin TurnEndings /\ new = Append(rows, e)
  BY DEF EventRows, EventKinds, AnswerStates, TurnEndings
<1> HIDE DEF e, new
<1>2. /\ Len(new) = Len(rows) + 1 /\ new[Len(rows) + 1] = e
      /\ PiecesOf(new) = PiecesOf(rows) \cup a.buffer
      /\ \A n \in 1..Len(rows) : new[n] = rows[n]
      /\ ~EndedRows(new)
  BY <1>1, OneMoreEvent DEF new
<1>3. InOrder(new)
  BY <1>1, InOrderStill DEF AnswerGood
<1>4. ~(\E n \in 1..Len(new) : new[n].kind = "COMPLETED")
  BY <1>2 DEF EndedRows, TurnEndings
<1>5. PiecesOf(new) \cup {} = 1..a.taken /\ Earlier(PiecesOf(new), {}) /\ a.taken <= m.sent
  BY <1>2 DEF AnswerGood, Earlier
<1> QED BY <1>2, <1>3, <1>4, <1>5 DEF AnswerGood, new, e

(* One turn goes on. *)
LEMMA AnswerMoves ==
  ASSUME AnswerInv, NEW t \in Turns, NEW m \in ModelStates, NEW a \in AnswerStates,
         NEW rows \in Seq(EventRows), AnswerGood(m, a, rows),
         model' = [model EXCEPT ![t] = m], answer' = [answer EXCEPT ![t] = a],
         published' = [published EXCEPT ![t] = rows]
  PROVE  AnswerInv'
<1>1. \A u \in Turns : /\ model'[u] = IF u = t THEN m ELSE model[u]
                       /\ answer'[u] = IF u = t THEN a ELSE answer[u]
                       /\ published'[u] = IF u = t THEN rows ELSE published[u]
  BY DEF AnswerInv
<1>2. \A u \in Turns : AnswerGood(model'[u], answer'[u], published'[u])
  BY <1>1 DEF AnswerInv
<1>3. /\ model' \in [Turns -> ModelStates] /\ answer' \in [Turns -> AnswerStates]
      /\ published' \in [Turns -> Seq(EventRows)]
  BY DEF AnswerInv
<1> QED BY <1>2, <1>3 DEF AnswerInv

(* What the turn's events stay: what they are when the task moves to b and *)
(* commits nothing. *)
LEMMA AnswerQuiet ==
  ASSUME NEW m \in ModelStates, NEW a \in AnswerStates, NEW rows, AnswerGood(m, a, rows),
         NEW b \in AnswerStates, b.taken <= m.sent,
         b.at \in {"gather", "flush"} => (b.at = a.at /\ b.taken = a.taken /\ b.buffer = a.buffer)
                                         \/ EndedRows(rows),
         b.at = "finish" /\ b.ending = "COMPLETED" /\ ~EndedRows(rows) =>
           PiecesOf(rows) = 1..m.sent /\ m.end = "stop"
  PROVE  AnswerGood(m, b, rows)
BY DEF AnswerGood

LEMMA AnswerStep == ASSUME TurnStreamAssumption, AnswerInv, [StreamNext]_streamVars PROVE AnswerInv'
<1> USE DEF AnswerInv
<1> DEFINE Kept(t) == /\ model[t] \in ModelStates /\ answer[t] \in AnswerStates
                      /\ published[t] \in Seq(EventRows)
                      /\ AnswerGood(model[t], answer[t], published[t])
<1>a. \A t \in Turns : Kept(t)
  OBVIOUS
<1>b. /\ model = [t \in Turns |-> model[t]] /\ answer = [t \in Turns |-> answer[t]]
      /\ published = [t \in Turns |-> published[t]]
  OBVIOUS
<1>c. ASSUME NEW t \in Turns
      PROVE  /\ model = [model EXCEPT ![t] = model[t]] /\ answer = [answer EXCEPT ![t] = answer[t]]
             /\ published = [published EXCEPT ![t] = published[t]]
  OBVIOUS
<1> USE <1>a
<1> HIDE DEF AnswerInv
<1>q. ASSUME UNCHANGED <<model, answer, published>> PROVE AnswerInv'
  BY <1>q DEF AnswerInv
<1>1. ASSUME NEW t \in Turns, Send(t) PROVE AnswerInv'
  <2> DEFINE m == [model[t] EXCEPT !.sent = @ + 1]
  <2>1. m \in ModelStates /\ m.sent = model[t].sent + 1 /\ m.end = model[t].end /\ model[t].end = "open"
    BY <1>1 DEF ModelStates, Send
  <2>2. model' = [model EXCEPT ![t] = m] /\ UNCHANGED <<answer, published>>
    BY <1>1, <1>b DEF Send
  <2> HIDE DEF m
  <2>3. AnswerGood(m, answer[t], published[t])
    BY <2>1 DEF AnswerGood, ModelStates, AnswerStates
  <2> QED BY <1>c, <2>1, <2>2, <2>3, AnswerMoves
<1>2. ASSUME NEW t \in Turns, NEW how \in {"stop", "length", "error"}, ModelEnds(t, how) PROVE AnswerInv'
  <2> DEFINE m == [model[t] EXCEPT !.end = how]
  <2>1. m \in ModelStates /\ m.sent = model[t].sent /\ model[t].end = "open"
    BY <1>2 DEF ModelStates, ModelEnds
  <2>2. model' = [model EXCEPT ![t] = m] /\ UNCHANGED <<answer, published>>
    BY <1>2, <1>b DEF ModelEnds
  <2> HIDE DEF m
  <2>3. AnswerGood(m, answer[t], published[t])
    BY <2>1 DEF AnswerGood, ModelStates, AnswerStates
  <2> QED BY <1>c, <2>1, <2>2, <2>3, AnswerMoves
<1>3. ASSUME NEW t \in Turns, Take(t) PROVE AnswerInv'
  <2>0. answer[t].at = "gather" /\ answer[t].taken < model[t].sent /\ UNCHANGED <<model, published>>
    BY <1>3 DEF Take
  <2> DEFINE pieces == answer[t].buffer \cup {answer[t].taken + 1}
  <2>1. PICK at \in {"gather", "flush"} :
          answer' = [answer EXCEPT ![t].taken = @ + 1, ![t].buffer = pieces, ![t].at = at]
    BY <1>3 DEF Take
  <2> DEFINE a == [answer[t] EXCEPT !.taken = @ + 1, !.buffer = pieces, !.at = at]
  <2>p. pieces \in SUBSET Nat /\ answer[t].taken + 1 \in Nat
    BY DEF AnswerStates
  <2> HIDE DEF pieces
  <2>2. a \in AnswerStates /\ a.taken = answer[t].taken + 1 /\ a.buffer = pieces /\ a.at = at
    BY <2>p DEF AnswerStates
  <2>3. answer' = [answer EXCEPT ![t] = a]
    BY <1>b, <2>1
  <2> HIDE DEF a
  <2>4. AnswerGood(model[t], a, published[t])
    <3>1. a.taken <= model[t].sent /\ answer[t].taken \in Nat
      BY <2>0, <2>2 DEF ModelStates, AnswerStates
    <3>2. ASSUME ~EndedRows(published[t])
          PROVE  /\ PiecesOf(published[t]) \cup a.buffer = 1..a.taken
                 /\ Earlier(PiecesOf(published[t]), a.buffer)
      <4>1. /\ PiecesOf(published[t]) \cup answer[t].buffer = 1..answer[t].taken
            /\ Earlier(PiecesOf(published[t]), answer[t].buffer)
        BY <2>0, <3>2 DEF AnswerGood
      <4>2. PiecesOf(published[t]) \subseteq 1..answer[t].taken
        BY <4>1
      <4>3. \A i : i \in 1..a.taken <=> i \in 1..answer[t].taken \/ i = answer[t].taken + 1
        BY <2>2, <3>1
      <4>4. \A i \in 1..answer[t].taken : i < answer[t].taken + 1
        BY <3>1
      <4>5. \A i : i \in a.buffer <=> i \in answer[t].buffer \/ i = answer[t].taken + 1
        BY <2>2 DEF pieces
      <4>6. PiecesOf(published[t]) \cup a.buffer = 1..a.taken
        BY ONLY <4>1, <4>3, <4>5
      <4> QED BY <4>1, <4>2, <4>4, <4>5, <4>6 DEF Earlier
    <3> QED BY <2>0, <2>2, <3>1, <3>2 DEF AnswerGood
  <2> QED BY <1>c, <2>0, <2>2, <2>3, <2>4, AnswerMoves
<1>4. ASSUME NEW t \in Turns, FlushDue(t) PROVE AnswerInv'
  <2> DEFINE a == [answer[t] EXCEPT !.at = "flush"]
  <2>1. /\ a \in AnswerStates /\ a.taken = answer[t].taken /\ a.buffer = answer[t].buffer
        /\ a.at = "flush" /\ answer[t].at = "gather"
    BY <1>4 DEF AnswerStates, FlushDue
  <2>2. answer' = [answer EXCEPT ![t] = a] /\ UNCHANGED <<model, published>>
    BY <1>4, <1>b DEF FlushDue
  <2> HIDE DEF a
  <2>3. AnswerGood(model[t], a, published[t])
    BY <2>1 DEF AnswerGood
  <2> QED BY <1>c, <2>1, <2>2, <2>3, AnswerMoves
<1>5. ASSUME NEW t \in Turns, Flush(t) PROVE AnswerInv'
  <2> DEFINE ended == EndedRows(published[t])
             a == [answer[t] EXCEPT !.buffer = {}, !.any = TRUE,
                                    !.at = IF Ended(t) THEN "cancelled" ELSE "gather"]
             rows == IF ended THEN published[t]
                     ELSE Append(published[t], [kind |-> "answer.delta", pieces |-> answer[t].buffer])
  <2>1. /\ a \in AnswerStates /\ a.taken = answer[t].taken /\ a.buffer = {}
        /\ a.at = IF ended THEN "cancelled" ELSE "gather"
    BY EmittedRows DEF AnswerStates, Ended, EndedRows
  <2>2. answer' = [answer EXCEPT ![t] = a] /\ UNCHANGED model /\ answer[t].at = "flush"
    BY <1>5, <1>b DEF Flush
  <2>3. [kind |-> "answer.delta", pieces |-> answer[t].buffer] \in EventRows
    BY DEF EventRows, EventKinds, AnswerStates
  <2>4. rows \in Seq(EventRows) /\ published' = [published EXCEPT ![t] = rows]
    <3>1. published' = Emitted(t, "answer.delta", answer[t].buffer)
      BY <1>5 DEF Flush
    <3>2. published \in [Turns -> Seq(EventRows)] /\ answer[t].buffer \in SUBSET Nat /\ "answer.delta" \in EventKinds
      BY DEF AnswerInv, AnswerStates, EventKinds
    <3> QED BY <3>1, <3>2, EmittedRows
  <2> HIDE DEF a
  <2>5. AnswerGood(model[t], a, rows)
    <3>1. CASE ended
      <4>1. a.taken <= model[t].sent
        BY <2>1 DEF AnswerGood
      <4> QED BY <2>1, <3>1, <4>1, AnswerQuiet
    <3>2. CASE ~ended
      BY <2>1, <2>2, <3>2, AnswerFlushes
    <3> QED BY <3>1, <3>2
  <2> HIDE DEF rows
  <2> QED BY <1>c, <2>1, <2>2, <2>4, <2>5, AnswerMoves
<1>6. ASSUME NEW t \in Turns, FlushFails(t) PROVE AnswerInv'
  <2> DEFINE ended == EndedRows(published[t])
             a == [answer[t] EXCEPT !.at = "finish", !.ending = "FAILED"]
             more == Append(published[t], [kind |-> "answer.delta", pieces |-> answer[t].buffer])
  <2>1. a \in AnswerStates /\ a.taken = answer[t].taken /\ a.at = "finish" /\ a.ending = "FAILED"
    BY DEF AnswerStates
  <2>2. answer' = [answer EXCEPT ![t] = a] /\ UNCHANGED model /\ answer[t].at = "flush"
    BY <1>6, <1>b DEF FlushFails
  <2>3. [kind |-> "answer.delta", pieces |-> answer[t].buffer] \in EventRows
    BY DEF EventRows, EventKinds, AnswerStates
  <2>4. \/ published' = [published EXCEPT ![t] = published[t]]
        \/ ~ended /\ published' = [published EXCEPT ![t] = more]
    <3>1. published' \in {published, Emitted(t, "answer.delta", answer[t].buffer)}
      BY <1>6 DEF FlushFails
    <3>2. published \in [Turns -> Seq(EventRows)] /\ answer[t].buffer \in SUBSET Nat /\ "answer.delta" \in EventKinds
      BY DEF AnswerInv, AnswerStates, EventKinds
    <3> QED BY <1>c, <3>1, <3>2, EmittedRows
  <2> HIDE DEF a
  <2>5. AnswerGood(model[t], a, published[t])
    <3>1. a.taken <= model[t].sent
      BY <2>1 DEF AnswerGood
    <3> QED BY <2>1, <3>1, AnswerQuiet
  <2>6. ASSUME ~ended PROVE AnswerGood(model[t], a, more) /\ more \in Seq(EventRows)
    BY <2>1, <2>2, <2>3, <2>6, AnswerFlushes
  <2> HIDE DEF more
  <2> QED BY <1>c, <2>1, <2>2, <2>4, <2>5, <2>6, AnswerMoves
<1>7. ASSUME NEW t \in Turns, Close(t) PROVE AnswerInv'
  <2>0. /\ answer[t].at = "gather" /\ answer[t].taken = model[t].sent /\ UNCHANGED <<model, published>>
        /\ answer' = IF answer[t].buffer # {} THEN [answer EXCEPT ![t].at = "flush"]
                     ELSE [answer EXCEPT ![t].at = "finish", ![t].ending = Ending(t)]
    BY <1>7 DEF Close
  <2>3. UNCHANGED <<model, published>>
    BY <2>0
  <2>1. CASE answer[t].buffer # {}
    <3> DEFINE a == [answer[t] EXCEPT !.at = "flush"]
    <3>1. /\ a \in AnswerStates /\ a.taken = answer[t].taken /\ a.buffer = answer[t].buffer /\ a.at = "flush"
      BY DEF AnswerStates
    <3>2. answer' = [answer EXCEPT ![t] = a]
      BY <1>b, <2>0, <2>1
    <3> HIDE DEF a
    <3>3. AnswerGood(model[t], a, published[t])
      BY <2>0, <3>1 DEF AnswerGood
    <3> QED BY <1>c, <2>3, <3>1, <3>2, <3>3, AnswerMoves
  <2>2. CASE answer[t].buffer = {}
    <3> DEFINE ending == Ending(t)
               a == [answer[t] EXCEPT !.at = "finish", !.ending = ending]
    <3>1. ending \in {"COMPLETED", "FAILED"} /\ (ending = "COMPLETED" => model[t].end = "stop")
      BY DEF Ending
    <3>2. answer' = [answer EXCEPT ![t] = a]
      BY <1>b, <2>0, <2>2
    <3> HIDE DEF ending
    <3>3. /\ a \in AnswerStates /\ a.taken = answer[t].taken /\ a.at = "finish" /\ a.ending = ending
      BY <3>1 DEF AnswerStates
    <3> HIDE DEF a
    <3>4. AnswerGood(model[t], a, published[t])
      BY <2>0, <2>2, <3>1, <3>3 DEF AnswerGood
    <3> QED BY <1>c, <2>3, <3>2, <3>3, <3>4, AnswerMoves
  <2> QED BY <2>1, <2>2
<1>8. ASSUME NEW t \in Turns, Deadline(t) PROVE AnswerInv'
  <2> DEFINE a == [answer[t] EXCEPT !.at = "finish", !.ending = "FAILED"]
  <2>1. a \in AnswerStates /\ a.taken = answer[t].taken /\ a.at = "finish" /\ a.ending = "FAILED"
    BY DEF AnswerStates
  <2>2. answer' = [answer EXCEPT ![t] = a] /\ UNCHANGED <<model, published>>
    BY <1>8, <1>b DEF Deadline
  <2> HIDE DEF a
  <2>3. AnswerGood(model[t], a, published[t])
    <3>1. a.taken <= model[t].sent
      BY <2>1 DEF AnswerGood
    <3> QED BY <2>1, <3>1, AnswerQuiet
  <2> QED BY <1>c, <2>1, <2>2, <2>3, AnswerMoves
<1>9. ASSUME NEW t \in Turns, NEW kind \in TurnEndings, NEW a \in AnswerStates,
             published' = Emitted(t, kind, {}), answer' = [answer EXCEPT ![t] = a], UNCHANGED model,
             kind = "COMPLETED" => answer[t].at = "finish" /\ answer[t].ending = "COMPLETED",
             a.at \in {"gather", "flush", "finish"} => a = answer[t], a.taken <= model[t].sent
      PROVE  AnswerInv'
  <2> DEFINE rows == IF EndedRows(published[t]) THEN published[t]
                     ELSE Append(published[t], [kind |-> kind, pieces |-> {}])
  <2>1. published' = [published EXCEPT ![t] = rows]
    <3>1. published \in [Turns -> Seq(EventRows)] /\ {} \in SUBSET Nat /\ kind \in EventKinds
      BY DEF AnswerInv, EventKinds
    <3>2. Emitted(t, kind, {}) = [published EXCEPT ![t] = rows]
      BY <3>1, EmittedRows
    <3> HIDE DEF rows
    <3> QED BY <1>9, <3>2
  <2>2. [kind |-> kind, pieces |-> {}] \in EventRows
    BY DEF EventRows, EventKinds
  <2>3. rows \in Seq(EventRows)
    BY <2>2
  <2>4. AnswerGood(model[t], a, rows)
    <3>1. CASE EndedRows(published[t])
      <4>1. AnswerGood(model[t], a, published[t])
        BY <1>9, <3>1 DEF AnswerGood
      <4> QED BY <3>1, <4>1
    <3>2. CASE ~EndedRows(published[t])
      BY <1>9, <3>2, AnswerEnds
    <3> QED BY <3>1, <3>2
  <2> HIDE DEF rows
  <2> QED BY <1>c, <1>9, <2>1, <2>3, <2>4, AnswerMoves
<1>10. ASSUME NEW t \in Turns, Finish(t) PROVE AnswerInv'
  <2> DEFINE a == [answer[t] EXCEPT !.at = "ran"]
  <2>1. a \in AnswerStates /\ a.taken <= model[t].sent /\ a.at = "ran"
    BY DEF AnswerStates, AnswerGood
  <2>2. /\ answer' = [answer EXCEPT ![t] = a] /\ UNCHANGED model /\ answer[t].at = "finish"
        /\ published' = Emitted(t, answer[t].ending, {}) /\ answer[t].ending \in TurnEndings
    BY <1>10, <1>b DEF Finish, TurnEndings, AnswerStates
  <2> HIDE DEF a
  <2> QED BY <1>9, <2>1, <2>2
<1>11. ASSUME NEW t \in Turns, FinishFails(t) \/ Forget(t) PROVE AnswerInv'
  <2>1. PICK a \in AnswerStates :
          answer' = [answer EXCEPT ![t] = a] /\ a.at \in {"ran", "gone"} /\ a.taken <= model[t].sent
    <3>1. CASE FinishFails(t)
      <4> DEFINE a == [answer[t] EXCEPT !.at = "ran"]
      <4>1. a \in AnswerStates /\ a.at = "ran" /\ a.taken <= model[t].sent
        BY DEF AnswerStates, AnswerGood
      <4>2. answer' = [answer EXCEPT ![t] = a]
        BY <1>b, <3>1 DEF FinishFails
      <4> HIDE DEF a
      <4> QED BY <4>1, <4>2
    <3>2. CASE Forget(t)
      <4> DEFINE a == [Begun EXCEPT !.at = "gone"]
      <4>1. a \in AnswerStates /\ a.at = "gone" /\ a.taken = 0
        BY ForgottenAnswer
      <4>2. answer' = [answer EXCEPT ![t] = a]
        BY <3>2 DEF Forget
      <4>3. model[t].sent \in Nat
        BY DEF ModelStates
      <4> HIDE DEF a
      <4>4. a.taken <= model[t].sent
        BY ONLY <4>1, <4>3
      <4> QED BY ONLY <4>1, <4>2, <4>4
    <3> QED BY <1>11, <3>1, <3>2
  <2>2. UNCHANGED <<model, published>>
    BY <1>11 DEF FinishFails, Forget
  <2>3. AnswerGood(model[t], a, published[t])
    BY <2>1, AnswerQuiet
  <2> QED BY <1>c, <2>1, <2>2, <2>3, AnswerMoves
<1>12. ASSUME NEW t \in Turns, Cancel(t) PROVE AnswerInv'
  <2> DEFINE a == [answer[t] EXCEPT !.at = IF Working(t) THEN "cancelled" ELSE @]
  <2>1. a \in AnswerStates /\ a.taken <= model[t].sent /\ a.at \in {"cancelled", "gone"}
    BY DEF AnswerStates, AnswerGood, Working
  <2>2. /\ answer' = [answer EXCEPT ![t] = a] /\ UNCHANGED model
        /\ published' = Emitted(t, "CANCELLED", {}) /\ "CANCELLED" \in TurnEndings
    BY <1>12, <1>b DEF Cancel, TurnEndings
  <2> HIDE DEF a
  <2> QED BY <1>9, <2>1, <2>2
<1>13. ASSUME NEW t \in Turns, Recover(t) PROVE AnswerInv'
  <2>1. /\ answer' = [answer EXCEPT ![t] = answer[t]] /\ UNCHANGED model
        /\ published' = Emitted(t, "FAILED", {}) /\ "FAILED" \in TurnEndings
    BY <1>13, <1>c DEF Recover, TurnEndings
  <2>2. answer[t] \in AnswerStates /\ answer[t].taken <= model[t].sent
    BY DEF AnswerGood
  <2> QED BY <1>9, <2>1, <2>2
<1>14. ASSUME UNCHANGED streamVars PROVE AnswerInv'
  BY <1>14, <1>q DEF streamVars
<1>15. ASSUME NEW c \in Streams, \/ Open(c) \/ Refuse(c) \/ Start(c) \/ Yield(c) \/ ReadAgain(c) \/ EndResponse(c)
                                \/ \E cut \in BOOLEAN : EndBody(c, cut)
       PROVE AnswerInv'
  BY <1>15, <1>q DEF Open, Refuse, Start, Yield, ReadAgain, EndResponse, EndBody
<1>16. ASSUME NEW p \in Pages, NEW c \in Streams, Connect(p, c) \/ Receive(p, c) \/ Break(p, c) \/ Done(p, c)
       PROVE AnswerInv'
  BY <1>16, <1>q DEF Connect, Receive, Break, Done
<1> HIDE <1>a
<1> QED BY <1>1, <1>2, <1>3, <1>4, <1>5, <1>6, <1>7, <1>8, <1>10, <1>11, <1>12, <1>13, <1>14, <1>15, <1>16
        DEF StreamNext

LEMMA AnswerStarts == ASSUME TurnStreamAssumption, StreamInit PROVE AnswerInv
<1>1. \A t \in Turns : /\ model[t] = [sent |-> 0, end |-> "open"] /\ answer[t] = Begun
                       /\ published[t] = <<>>
  BY DEF StreamInit
<1>2. /\ model \in [Turns -> ModelStates] /\ answer \in [Turns -> AnswerStates]
      /\ published \in [Turns -> Seq(EventRows)]
  BY DEF StreamInit, ModelStates, AnswerStates, Begun
<1>3. ~EndedRows(<<>>) /\ PiecesOf(<<>>) = {} /\ InOrder(<<>>)
  BY DEF EndedRows, PiecesOf, InOrder
<1>4. AnswerGood([sent |-> 0, end |-> "open"], Begun, <<>>)
  BY <1>3 DEF AnswerGood, Begun, Earlier
<1> QED BY <1>1, <1>2, <1>4 DEF AnswerInv

LEMMA AnswersWhole == ASSUME AnswerInv PROVE WholeAnswer
BY DEF AnswerInv, WholeAnswer, AnswerGood, InOrder, Earlier, Text, PiecesOf

-----------------------------------------------------------------------------
(* The readers. *)

Grown(old, new) == Len(old) <= Len(new) /\ (EndedRows(old) => new = old)

LEMMA GrownStays ==
  ASSUME NEW old \in Seq(EventRows), NEW new \in Seq(EventRows), Grown(old, new)
  PROVE  /\ \A s \in StreamStates : StreamGood(s, old) => StreamGood(s, new)
         /\ \A y \in PageStates : PageGood(y, old) => PageGood(y, new)
         /\ \A y \in PageStates, s \in StreamStates : WireGood(y, s, old) => WireGood(y, s, new)
<1>1. Len(old) \in Nat /\ Len(new) \in Nat /\ Len(old) <= Len(new)
      /\ (EndedRows(old) => EndedRows(new) /\ Len(new) = Len(old))
  BY DEF Grown
<1>2. ASSUME NEW s \in StreamStates, StreamGood(s, old) PROVE StreamGood(s, new)
  <2>1. s.cursor \in Nat /\ s.last \in Nat
    BY DEF StreamStates
  <2> HIDE DEF Unused
  <2> QED BY <1>1, <1>2, <2>1 DEF StreamGood, Replays
<1>3. ASSUME NEW y \in PageStates, PageGood(y, old) PROVE PageGood(y, new)
  <2>1. y.cursor \in Nat
    BY DEF PageStates
  <2> QED BY <1>1, <1>3, <2>1 DEF PageGood
<1>4. ASSUME NEW y \in PageStates, NEW s \in StreamStates, WireGood(y, s, old) PROVE WireGood(y, s, new)
  <2>1. y.cursor \in Nat /\ Len(s.wire) \in Nat
    BY DEF PageStates, StreamStates
  <2> QED BY <1>1, <1>4, <2>1 DEF WireGood
<1> QED BY <1>2, <1>3, <1>4

LEMMA LogGrows ==
  ASSUME LogInv, UNCHANGED <<stream, page>>, published' \in [Turns -> Seq(EventRows)],
         \A t \in Turns : Grown(published[t], published'[t])
  PROVE  LogInv'
<1>1. \A t \in Turns : published[t] \in Seq(EventRows) /\ published'[t] \in Seq(EventRows)
  BY DEF LogInv, LogTyped
<1>2. ASSUME NEW c \in Streams PROVE StreamGood(stream[c], published[stream[c].turn])'
  <2>0. stream[c] \in StreamStates /\ StreamGood(stream[c], published[stream[c].turn])
    BY DEF LogInv, LogTyped
  <2>1. CASE stream[c].turn \in Turns
    <3>1. StreamGood(stream[c], published'[stream[c].turn])
      BY <1>1, <2>0, <2>1, GrownStays
    <3> QED BY <3>1
  <2>2. CASE stream[c].turn \notin Turns
    <3>1. StreamGood(stream[c], published'[stream[c].turn])
      BY <2>0, <2>2 DEF StreamGood
    <3> QED BY <3>1
  <2> QED BY <2>1, <2>2
<1>3. ASSUME NEW p \in Pages
      PROVE  /\ PageGood(page[p], published[page[p].turn])'
             /\ (page[p].stream # NoStream =>
                  WireGood(page[p], stream[page[p].stream], published[page[p].turn]))'
  <2>1. page[p] \in PageStates /\ page[p].turn \in Turns
        /\ (page[p].stream # NoStream => stream[page[p].stream] \in StreamStates)
    BY DEF LogInv, LogTyped, PageStates
  <2>2. /\ PageGood(page[p], published'[page[p].turn])
        /\ page[p].stream # NoStream =>
             WireGood(page[p], stream[page[p].stream], published'[page[p].turn])
    BY <1>1, <2>1, GrownStays DEF LogInv
  <2> QED BY <2>2
<1>4. LogTyped'
  BY DEF LogInv, LogTyped
<1> QED BY <1>2, <1>3, <1>4 DEF LogInv

(* One stream goes on as s. *)
LEMMA StreamMoves ==
  ASSUME LogInv, NEW c \in Streams, NEW s \in StreamStates,
         stream' = [stream EXCEPT ![c] = s], UNCHANGED <<published, page>>,
         StreamGood(s, published[s.turn]),
         \A p \in Pages : page[p].stream = c => WireGood(page[p], s, published[page[p].turn])
  PROVE  LogInv'
<1>0. \A d \in Streams : stream'[d] = IF d = c THEN s ELSE stream[d]
  BY DEF LogInv, LogTyped
<1>1. LogTyped'
  BY DEF LogInv, LogTyped
<1>2. ASSUME NEW d \in Streams PROVE StreamGood(stream'[d], published[stream'[d].turn])
  BY <1>0 DEF LogInv
<1>3. ASSUME NEW p \in Pages, page[p].stream # NoStream
      PROVE  WireGood(page[p], stream'[page[p].stream], published[page[p].turn])
  <2>1. page[p].stream \in Streams
    BY <1>3 DEF LogInv, LogTyped, PageStates
  <2> QED BY <1>0, <1>3, <2>1 DEF LogInv
<1> QED BY <1>1, <1>2, <1>3 DEF LogInv

(* A page in a state that no longer has a stream. *)
LEMMA Emptied ==
  ASSUME NEW s \in StreamStates
  PROVE  LET v == [s EXCEPT !.wire = <<>>, !.cut = TRUE] IN
         /\ v \in StreamStates /\ \A rows : s.at # "new" /\ StreamGood(s, rows) => StreamGood(v, rows)
         /\ v.at = s.at /\ v.turn = s.turn /\ v.leased = s.leased
<1> DEFINE none == <<>>
           v == [s EXCEPT !.wire = none, !.cut = TRUE]
<1>0. none \in Seq(Nat)
  OBVIOUS
<1> HIDE DEF none
<1>1. /\ v \in StreamStates /\ v.at = s.at /\ v.turn = s.turn /\ v.cursor = s.cursor /\ v.last = s.last
      /\ v.batch = s.batch /\ v.over = s.over /\ v.leased = s.leased
  BY <1>0 DEF StreamStates
<1> HIDE DEF v
<1>2. ASSUME NEW rows, s.at # "new", StreamGood(s, rows) PROVE StreamGood(v, rows)
  BY <1>1, <1>2 DEF StreamGood, Replays
<1> QED BY <1>1, <1>2 DEF v, none

(* What the events of a turn are when they are read again. *)
LEMMA ReplayGood ==
  ASSUME LogInv, NEW c \in Streams, stream[c].at \in Occupied,
         NEW at \in {"opened", "body"}
  PROVE  LET s == [Replay(c) EXCEPT !.at = at] IN
         /\ s \in StreamStates /\ s.turn = stream[c].turn /\ s.at = at /\ s.wire = stream[c].wire
         /\ s.cut = stream[c].cut /\ s.cursor = stream[c].cursor /\ s.leased = stream[c].leased
         /\ StreamGood(s, published[s.turn])
<1> DEFINE t == stream[c].turn
           k == stream[c].cursor
           n == Len(published[t])
           batch == [i \in 1..(n - k) |-> k + i]
           s == [Replay(c) EXCEPT !.at = at]
<1>1. /\ stream[c] \in StreamStates /\ t \in Turns /\ published[t] \in Seq(EventRows)
      /\ k \in Nat /\ n \in Nat /\ k <= n /\ stream[c].leased
  BY DEF LogInv, LogTyped, StreamGood, Replays, StreamStates
<1>2. n - k \in Nat
  BY <1>1
<1>3. batch \in Seq(Nat) /\ Len(batch) = n - k
  BY <1>1, <1>2
<1>4. Counting(batch, k)
  BY <1>3 DEF Counting
<1>5. (Ended(t) <=> EndedRows(published[t])) /\ Ended(t) \in BOOLEAN
  BY DEF Ended, EndedRows
<1> HIDE DEF batch
<1>6. s = [stream[c] EXCEPT !.batch = batch, !.last = n, !.over = Ended(t), !.at = at]
  BY <1>1 DEF Replay, batch, StreamStates
<1> HIDE DEF s
<1>7. /\ s \in StreamStates /\ s.turn = t /\ s.at = at /\ s.wire = stream[c].wire /\ s.cut = stream[c].cut
      /\ s.cursor = k /\ s.leased = stream[c].leased /\ s.batch = batch /\ s.last = n /\ s.over = Ended(t)
  BY <1>1, <1>3, <1>5, <1>6 DEF StreamStates
<1>8. Replays(s, published[t])
  BY <1>1, <1>3, <1>4, <1>5, <1>7 DEF Replays
<1> QED BY <1>1, <1>7, <1>8 DEF StreamGood, Occupied, s

(* One number goes on. *)
LEMMA CountsOn ==
  ASSUME NEW s \in Seq(Nat), NEW k \in Nat, Counting(s, k)
  PROVE  /\ Counting(Append(s, k + Len(s) + 1), k)
         /\ s # <<>> => Head(s) = k + 1 /\ Counting(Tail(s), k + 1) /\ Len(s) = Len(Tail(s)) + 1
<1>1. Len(s) \in Nat /\ \A i \in 1..Len(s) : s[i] = k + i
  BY DEF Counting
<1>2. Counting(Append(s, k + Len(s) + 1), k)
  <2> DEFINE u == Append(s, k + Len(s) + 1)
  <2>1. Len(u) = Len(s) + 1 /\ u \in Seq(Nat) /\ \A i \in 1..Len(u) : u[i] = k + i
    BY <1>1
  <2> QED BY <2>1 DEF Counting
<1>3. ASSUME s # <<>> PROVE Head(s) = k + 1 /\ Counting(Tail(s), k + 1) /\ Len(s) = Len(Tail(s)) + 1
  <2>1. Len(s) > 0 /\ Head(s) = s[1]
    BY <1>3
  <2>2. Len(Tail(s)) = Len(s) - 1 /\ Tail(s) \in Seq(Nat) /\ \A i \in 1..Len(Tail(s)) : Tail(s)[i] = s[i + 1]
    BY <1>3
  <2>3. \A i \in 1..Len(Tail(s)) : Tail(s)[i] = k + 1 + i
    BY <1>1, <2>1, <2>2
  <2> DEFINE u == Tail(s)
  <2>4. u \in Seq(Nat) /\ \A i \in 1..Len(u) : u[i] = k + 1 + i
    BY <2>2, <2>3
  <2> HIDE DEF u
  <2>5. Counting(u, k + 1)
    BY <2>4 DEF Counting
  <2>6. Len(s) = Len(Tail(s)) + 1 /\ Head(s) = k + 1
    BY <1>1, <2>1, <2>2
  <2> QED BY <2>5, <2>6 DEF u
<1> QED BY <1>2, <1>3

(* A page goes on as y, and with it perhaps its streams. *)
LEMMA PageMoves ==
  ASSUME LogInv, NEW p \in Pages, NEW y \in PageStates, page' = [page EXCEPT ![p] = y],
         UNCHANGED published, stream' \in [Streams -> StreamStates],
         \A e \in Streams : StreamGood(stream'[e], published[stream'[e].turn]),
         PageGood(y, published[y.turn]),
         y.stream # NoStream =>
           /\ WireGood(y, stream'[y.stream], published[y.turn])
           /\ \A q \in Pages : q # p => page[q].stream # y.stream,
         \A q \in Pages : q # p /\ page[q].stream # NoStream =>
           stream'[page[q].stream] = stream[page[q].stream]
  PROVE  LogInv'
<1>1. \A q \in Pages : page'[q] = IF q = p THEN y ELSE page[q]
  BY DEF LogInv, LogTyped
<1>2. LogTyped'
  BY DEF LogInv, LogTyped
<1>3. ASSUME NEW q \in Pages
      PROVE  /\ PageGood(page'[q], published[page'[q].turn])
             /\ page'[q].stream # NoStream =>
                  WireGood(page'[q], stream'[page'[q].stream], published[page'[q].turn])
  BY <1>1 DEF LogInv
<1>4. \A q, r \in Pages : page'[q].stream = page'[r].stream /\ page'[q].stream # NoStream => q = r
  BY <1>1 DEF LogInv
<1> QED BY <1>2, <1>3, <1>4 DEF LogInv

LEMMA UnusedTyped ==
  /\ Unused \in StreamStates /\ Unused.wire = <<>> /\ Unused.at = "new" /\ ~Unused.leased
  /\ Unused.turn = NoStream
<1> DEFINE none == <<>>
           u == [at |-> "new", turn |-> NoStream, cursor |-> 0, batch |-> none, last |-> 0,
                 over |-> FALSE, wire |-> none, leased |-> FALSE, cut |-> FALSE]
<1>1. none \in Seq(Nat)
  OBVIOUS
<1> HIDE DEF none
<1>2. u \in StreamStates /\ u.wire = none /\ u.at = "new" /\ ~u.leased /\ u.turn = NoStream
  BY <1>1 DEF StreamStates
<1>3. u = Unused
  BY DEF Unused, none
<1> HIDE DEF u
<1> QED BY <1>2, <1>3 DEF none

(* A stream that is over. *)
LEMMA ClosedTyped ==
  ASSUME NEW wire \in Seq(Nat), NEW cut \in BOOLEAN
  PROVE  /\ LET s == [Unused EXCEPT !.at = "closed", !.wire = wire, !.cut = cut]
            IN  s \in StreamStates /\ s.at = "closed" /\ s.wire = wire /\ s.cut = cut /\ ~s.leased
         /\ LET s == [Unused EXCEPT !.at = "closed", !.cut = TRUE]
            IN  s \in StreamStates /\ s.at = "closed" /\ s.wire = <<>> /\ s.cut = TRUE /\ ~s.leased
<1> DEFINE u == Unused
<1>1. u \in StreamStates /\ u.wire = <<>> /\ ~u.leased
  BY UnusedTyped
<1> HIDE DEF u
<1>2. LET s == [u EXCEPT !.at = "closed", !.wire = wire, !.cut = cut]
      IN  s \in StreamStates /\ s.at = "closed" /\ s.wire = wire /\ s.cut = cut /\ ~s.leased
  BY <1>1 DEF StreamStates
<1>3. LET s == [u EXCEPT !.at = "closed", !.cut = TRUE]
      IN  s \in StreamStates /\ s.at = "closed" /\ s.wire = u.wire /\ s.cut = TRUE /\ ~s.leased
  BY <1>1 DEF StreamStates
<1> QED BY <1>1, <1>2, <1>3 DEF u

LEMMA LogStep ==
  ASSUME TurnStreamAssumption, AnswerInv, LogInv, [StreamNext]_streamVars
  PROVE  LogInv'
<1>a. /\ \A c \in Streams : stream[c] \in StreamStates /\ StreamGood(stream[c], published[stream[c].turn])
      /\ stream = [c \in Streams |-> stream[c]] /\ page = [p \in Pages |-> page[p]]
  BY DEF LogInv, LogTyped
<1>b. /\ \A p \in Pages : page[p] \in PageStates /\ page[p].turn \in Turns
                          /\ PageGood(page[p], published[page[p].turn])
                          /\ (page[p].stream # NoStream => page[p].stream \in Streams)
      /\ \A p \in Pages, c \in Streams : page[p].stream = c =>
            WireGood(page[p], stream[c], published[page[p].turn])
      /\ published \in [Turns -> Seq(EventRows)]
  BY DEF LogInv, LogTyped, PageStates, TurnStreamAssumption
<1>c. NoStream \notin Streams
  BY DEF TurnStreamAssumption
<1>1. ASSUME NEW t \in Turns, NEW kind \in EventKinds, NEW pieces \in SUBSET Nat,
             published' = Emitted(t, kind, pieces), UNCHANGED <<stream, page>>
      PROVE  LogInv'
  <2>1. PICK rows \in Seq(EventRows) :
          /\ published' = [published EXCEPT ![t] = rows]
          /\ rows = published[t] \/ (~EndedRows(published[t]) /\ Len(rows) = Len(published[t]) + 1)
    <3> DEFINE e == [kind |-> kind, pieces |-> pieces]
    <3>1. e \in EventRows /\ published[t] \in Seq(EventRows)
      BY <1>b DEF EventRows
    <3>2. Len(Append(published[t], e)) = Len(published[t]) + 1
      BY <3>1
    <3>3. LET rows == IF EndedRows(published[t]) THEN published[t] ELSE Append(published[t], e)
          IN  published' = [published EXCEPT ![t] = rows] /\ rows \in Seq(EventRows)
      BY <1>1, <1>b, EmittedRows
    <3> DEFINE new == IF EndedRows(published[t]) THEN published[t] ELSE Append(published[t], e)
    <3>4. new = published[t] \/ (~EndedRows(published[t]) /\ Len(new) = Len(published[t]) + 1)
      BY <3>2
    <3>5. published' = [published EXCEPT ![t] = new] /\ new \in Seq(EventRows)
      BY <3>3
    <3> HIDE DEF e, new
    <3> QED BY <3>4, <3>5
  <2>2. published' \in [Turns -> Seq(EventRows)]
    BY <1>b, <2>1
  <2>3. ASSUME NEW u \in Turns PROVE Grown(published[u], published'[u])
    <3>1. published'[u] = (IF u = t THEN rows ELSE published[u]) /\ Len(published[u]) \in Nat
      BY <1>b, <2>1
    <3> QED BY <2>1, <3>1 DEF Grown
  <2> QED BY <1>1, <2>2, <2>3, LogGrows
<1>2. ASSUME UNCHANGED <<published, stream, page>> PROVE LogInv'
  BY <1>2 DEF LogInv, LogTyped
<1>3. ASSUME NEW t \in Turns,
             \/ Send(t) \/ Take(t) \/ FlushDue(t) \/ Flush(t) \/ FlushFails(t) \/ Close(t)
             \/ Deadline(t) \/ Finish(t) \/ FinishFails(t) \/ Forget(t) \/ Cancel(t) \/ Recover(t)
             \/ \E how \in {"stop", "length", "error"} : ModelEnds(t, how)
      PROVE  LogInv'
  <2>1. /\ {"answer.delta", "CANCELLED", "FAILED", "COMPLETED"} \subseteq EventKinds /\ {} \in SUBSET Nat
        /\ answer[t].buffer \in SUBSET Nat /\ answer[t].ending \in {"COMPLETED", "FAILED"}
    BY <1>3 DEF EventKinds, TurnEndings, AnswerInv, AnswerStates
  <2>2. UNCHANGED <<stream, page>>
    BY <1>3 DEF Send, Take, FlushDue, Flush, FlushFails, Close, Deadline, Finish, FinishFails,
                Forget, Cancel, Recover, ModelEnds
  <2>3. \/ UNCHANGED published
        \/ published' = Emitted(t, "answer.delta", answer[t].buffer)
        \/ published' = Emitted(t, answer[t].ending, {})
        \/ published' = Emitted(t, "CANCELLED", {}) \/ published' = Emitted(t, "FAILED", {})
    BY <1>3 DEF Send, Take, FlushDue, Flush, FlushFails, Close, Deadline, Finish, FinishFails,
                Forget, Cancel, Recover, ModelEnds
  <2> QED BY <1>1, <1>2, <2>1, <2>2, <2>3

<1>4. ASSUME NEW c \in Streams, NEW s \in StreamStates, NEW y, NEW rows,
             stream[c].at \in Occupied, s.at \in Occupied, s.turn = stream[c].turn,
             s.wire = stream[c].wire, s.cut = stream[c].cut, s.cursor = stream[c].cursor,
             WireGood(y, stream[c], rows)
      PROVE  WireGood(y, s, rows)
  BY <1>4 DEF WireGood, Occupied
<1>5. ASSUME NEW c \in Streams, Open(c) PROVE LogInv'
  <2> DEFINE s == [Replay(c) EXCEPT !.at = "opened"]
  <2>1. stream[c].at \in Occupied /\ stream' = [stream EXCEPT ![c] = s] /\ UNCHANGED <<published, page>>
    BY <1>5 DEF Open, Occupied
  <2>2. /\ s \in StreamStates /\ s.turn = stream[c].turn /\ s.at \in Occupied /\ s.wire = stream[c].wire
        /\ s.cut = stream[c].cut /\ s.cursor = stream[c].cursor /\ StreamGood(s, published[s.turn])
    BY <2>1, ReplayGood DEF Occupied
  <2> HIDE DEF s
  <2>3. \A p \in Pages : page[p].stream = c => WireGood(page[p], s, published[page[p].turn])
    BY <1>4, <1>b, <2>1, <2>2
  <2> QED BY <2>1, <2>2, <2>3, StreamMoves
<1>6. ASSUME NEW c \in Streams, ReadAgain(c) PROVE LogInv'
  <2> DEFINE s == [Replay(c) EXCEPT !.at = "body"]
  <2>1. stream[c].at \in Occupied /\ stream' = [stream EXCEPT ![c] = Replay(c)] /\ UNCHANGED <<published, page>>
        /\ stream[c].at = "body"
    BY <1>6 DEF ReadAgain, Occupied
  <2>2. /\ s \in StreamStates /\ s.turn = stream[c].turn /\ s.at \in Occupied /\ s.wire = stream[c].wire
        /\ s.cut = stream[c].cut /\ s.cursor = stream[c].cursor /\ StreamGood(s, published[s.turn])
    BY <2>1, ReplayGood DEF Occupied
  <2>3. s = Replay(c)
    BY <1>a, <2>1 DEF Replay, StreamStates
  <2> HIDE DEF s
  <2>4. \A p \in Pages : page[p].stream = c => WireGood(page[p], s, published[page[p].turn])
    BY <1>4, <1>b, <2>1, <2>2
  <2> QED BY <2>1, <2>2, <2>3, <2>4, StreamMoves
<1>7. ASSUME NEW c \in Streams, Start(c) PROVE LogInv'
  <2> DEFINE s == [stream[c] EXCEPT !.at = "body"]
  <2>1. stream[c].at = "opened" /\ UNCHANGED <<published, page>> /\ stream[c] \in StreamStates
    BY <1>7, <1>a DEF Start
  <2>2. /\ s \in StreamStates /\ s.turn = stream[c].turn /\ s.at = "body" /\ s.wire = stream[c].wire
        /\ s.cut = stream[c].cut /\ s.cursor = stream[c].cursor /\ s.batch = stream[c].batch
        /\ s.last = stream[c].last /\ s.over = stream[c].over /\ s.leased = stream[c].leased
    BY <2>1 DEF StreamStates
  <2>3. stream' = [stream EXCEPT ![c] = s]
    BY <1>7, <1>a DEF Start
  <2> HIDE DEF s
  <2>4. StreamGood(s, published[s.turn])
    BY <1>a, <2>1, <2>2 DEF StreamGood, Replays, Occupied
  <2>5. \A p \in Pages : page[p].stream = c => WireGood(page[p], s, published[page[p].turn])
    BY <1>4, <1>b, <2>1, <2>2 DEF Occupied
  <2> QED BY <2>1, <2>2, <2>3, <2>4, <2>5, StreamMoves
<1>8. ASSUME NEW c \in Streams, Yield(c) PROVE LogInv'
  <2> DEFINE h == Head(stream[c].batch)
             rest == Tail(stream[c].batch)
             wire == IF stream[c].cut THEN stream[c].wire ELSE Append(stream[c].wire, h)
             s == [stream[c] EXCEPT !.cursor = h, !.wire = wire, !.batch = rest]
  <2>1. /\ stream[c].at = "body" /\ stream[c].batch # <<>> /\ UNCHANGED <<published, page>>
        /\ stream[c] \in StreamStates
    BY <1>8, <1>a DEF Yield
  <2>0. /\ stream[c].batch \in Seq(Nat) /\ stream[c].wire \in Seq(Nat) /\ stream[c].cursor \in Nat
        /\ stream[c].last \in Nat
    BY <2>1 DEF StreamStates
  <2>2. /\ stream[c].turn \in Turns /\ Counting(stream[c].batch, stream[c].cursor)
        /\ stream[c].cursor + Len(stream[c].batch) = stream[c].last /\ stream[c].leased
        /\ stream[c].last <= Len(published[stream[c].turn])
        /\ stream[c].over => EndedRows(published[stream[c].turn])
                             /\ stream[c].last = Len(published[stream[c].turn])
    BY <1>a, <2>1 DEF StreamGood, Replays, Occupied
  <2>3. /\ h = stream[c].cursor + 1 /\ Counting(rest, h) /\ Len(stream[c].batch) = Len(rest) + 1
        /\ rest \in Seq(Nat) /\ Len(rest) \in Nat
    BY <2>1, <2>0, <2>2, CountsOn
  <2>4. wire \in Seq(Nat) /\ h \in Nat
    BY <2>0, <2>2, <2>3
  <2>5. stream' = [stream EXCEPT ![c] = s]
    BY <1>8, <1>a DEF Yield
  <2> HIDE DEF h, rest, wire
  <2>9. h + Len(rest) = stream[c].last /\ h <= Len(published[stream[c].turn])
    <3> DEFINE n == Len(published[stream[c].turn])
               k == stream[c].cursor
               i == Len(rest)
               j == Len(stream[c].batch)
               last == stream[c].last
    <3>1. n \in Nat /\ i \in Nat /\ k \in Nat /\ last \in Nat
      BY <1>b, <2>0, <2>2, <2>3
    <3>2. k + j = last /\ last <= n /\ h = k + 1 /\ j = i + 1
      BY <2>2, <2>3
    <3> HIDE DEF n, k, i, j, last
    <3>3. h + i = last /\ h <= n
      BY ONLY <3>1, <3>2
    <3> QED BY <3>3 DEF n, k, i, last
  <2>6. /\ s \in StreamStates /\ s.turn = stream[c].turn /\ s.at = "body" /\ s.wire = wire
        /\ s.cut = stream[c].cut /\ s.cursor = h /\ s.batch = rest
        /\ s.last = stream[c].last /\ s.over = stream[c].over /\ s.leased = stream[c].leased
    BY <2>1, <2>3, <2>4 DEF StreamStates
  <2> HIDE DEF s
  <2>7. StreamGood(s, published[s.turn])
    <3>1. published[s.turn] \in Seq(EventRows) /\ Len(published[s.turn]) \in Nat
      BY <1>b, <2>0, <2>2, <2>6
    <3>2. h + Len(rest) = stream[c].last /\ h <= Len(published[s.turn])
      BY <2>6, <2>9, <3>1
    <3> QED BY <2>0, <2>2, <2>3, <2>6, <3>2 DEF StreamGood, Replays, Occupied
  <2>8. ASSUME NEW p \in Pages, page[p].stream = c
        PROVE  WireGood(page[p], s, published[page[p].turn])
    <3>1. /\ Counting(stream[c].wire, page[p].cursor) /\ stream[c].turn = page[p].turn /\ ~stream[c].cut
          /\ page[p].cursor + Len(stream[c].wire) = stream[c].cursor /\ page[p].cursor \in Nat
      BY <1>b, <2>1, <2>8 DEF WireGood, Occupied, PageStates
    <3>2. wire = Append(stream[c].wire, h) /\ h = page[p].cursor + Len(stream[c].wire) + 1
      BY <2>3, <3>1 DEF wire
    <3>3. Counting(wire, page[p].cursor) /\ Len(wire) = Len(stream[c].wire) + 1
      <4>1. Counting(Append(stream[c].wire, page[p].cursor + Len(stream[c].wire) + 1), page[p].cursor)
        BY <2>0, <2>2, <3>1, CountsOn
      <4> QED BY <2>0, <2>2, <2>4, <3>2, <4>1
    <3>4. page[p].cursor + Len(wire) = h /\ h <= Len(published[page[p].turn])
      <4>1. published[page[p].turn] \in Seq(EventRows) /\ Len(published[page[p].turn]) \in Nat
        BY <1>b
      <4>2. h <= Len(published[page[p].turn])
        BY <2>9, <3>1
      <4>3. page[p].cursor + Len(wire) = h
        BY <2>0, <3>1, <3>2, <3>3
      <4> QED BY <4>2, <4>3
    <3> QED BY <2>6, <3>1, <3>3, <3>4 DEF WireGood, Occupied
  <2> QED BY <2>1, <2>5, <2>6, <2>7, <2>8, StreamMoves
<1>9. ASSUME NEW c \in Streams, NEW cut \in BOOLEAN, EndBody(c, cut) PROVE LogInv'
  <2> DEFINE s == [stream[c] EXCEPT !.at = "ending", !.cut = @ \/ cut, !.leased = FALSE]
  <2>1. /\ stream[c].at = "body" /\ UNCHANGED <<published, page>> /\ stream[c] \in StreamStates
        /\ cut \/ (stream[c].batch = <<>> /\ Complete(c))
    BY <1>9, <1>a DEF EndBody
  <2>2. /\ s \in StreamStates /\ s.at = "ending" /\ s.wire = stream[c].wire
        /\ s.cut = (stream[c].cut \/ cut) /\ s.leased = FALSE /\ s.turn = stream[c].turn
    BY <2>1 DEF StreamStates
  <2>3. stream' = [stream EXCEPT ![c] = s]
    BY <1>9, <1>a DEF EndBody
  <2> HIDE DEF s
  <2>4. StreamGood(s, published[s.turn])
    BY <2>2 DEF StreamGood, Occupied
  <2>5. ASSUME NEW p \in Pages, page[p].stream = c
        PROVE  WireGood(page[p], s, published[page[p].turn])
    <3>1. /\ Counting(stream[c].wire, page[p].cursor) /\ stream[c].turn = page[p].turn
          /\ page[p].cursor + Len(stream[c].wire) = stream[c].cursor
          /\ page[p].cursor + Len(stream[c].wire) <= Len(published[page[p].turn])
      BY <1>b, <2>1, <2>5 DEF WireGood, Occupied, PageStates
    <3>2. ASSUME ~s.cut
          PROVE  EndedRows(published[page[p].turn]) /\ stream[c].cursor = Len(published[page[p].turn])
      <4>1. stream[c].batch = <<>> /\ stream[c].over /\ stream[c].cursor >= stream[c].last
        BY <2>1, <2>2, <3>2 DEF Complete
      <4>2. /\ EndedRows(published[page[p].turn]) /\ stream[c].last = Len(published[page[p].turn])
            /\ stream[c].cursor + Len(stream[c].batch) = stream[c].last /\ stream[c].cursor \in Nat
        BY <1>a, <2>1, <3>1, <4>1 DEF StreamGood, Replays, Occupied, StreamStates
      <4>3. Len(stream[c].batch) = 0
        BY <4>1
      <4> QED BY <4>2, <4>3
    <3> QED BY <2>2, <3>1, <3>2 DEF WireGood, Occupied
  <2> QED BY <2>1, <2>2, <2>3, <2>4, <2>5, StreamMoves
<1>10. ASSUME NEW c \in Streams, Refuse(c) \/ EndResponse(c) PROVE LogInv'
  <2>1. /\ stream[c].at \in {"admitted", "opened", "ending"} /\ UNCHANGED <<published, page>>
        /\ stream[c] \in StreamStates
    BY <1>10, <1>a DEF Refuse, EndResponse
  <2>2. PICK s \in StreamStates :
          /\ stream' = [stream EXCEPT ![c] = s] /\ s.at = "closed" /\ ~s.leased
          /\ \/ s.wire = <<>> /\ s.cut = TRUE
             \/ /\ s.wire = stream[c].wire /\ s.cut = (stream[c].cut \/ stream[c].at = "opened")
                /\ stream[c].at \in {"opened", "ending"}
    <3> DEFINE v == [Unused EXCEPT !.at = "closed", !.cut = TRUE]
               w == [Unused EXCEPT !.at = "closed", !.wire = stream[c].wire,
                                   !.cut = stream[c].cut \/ stream[c].at = "opened"]
    <3>1. <<>> \in Seq(Nat) /\ stream[c].wire \in Seq(Nat)
          /\ (stream[c].cut \/ stream[c].at = "opened") \in BOOLEAN
      BY <2>1 DEF StreamStates
    <3>2. v \in StreamStates /\ v.at = "closed" /\ v.wire = <<>> /\ v.cut = TRUE /\ ~v.leased
      BY <3>1, ClosedTyped
    <3>3. /\ w \in StreamStates /\ w.at = "closed" /\ w.wire = stream[c].wire /\ ~w.leased
          /\ w.cut = (stream[c].cut \/ stream[c].at = "opened")
      <4>1. PICK wire \in Seq(Nat), cut \in BOOLEAN :
               wire = stream[c].wire /\ cut = (stream[c].cut \/ stream[c].at = "opened")
        BY <3>1
      <4>2. w = [Unused EXCEPT !.at = "closed", !.wire = wire, !.cut = cut]
        BY <4>1
      <4> HIDE DEF w
      <4>3. w \in StreamStates /\ w.at = "closed" /\ w.wire = wire /\ w.cut = cut /\ ~w.leased
        BY <4>2, ClosedTyped
      <4> QED BY <4>1, <4>3
    <3>4. CASE Refuse(c)
      <4>1. stream' = [stream EXCEPT ![c] = v]
        BY <3>4 DEF Refuse
      <4> HIDE DEF v
      <4> QED BY <3>2, <4>1
    <3>5. CASE EndResponse(c)
      <4>1. stream' = [stream EXCEPT ![c] = w] /\ stream[c].at \in {"opened", "ending"}
        BY <3>5 DEF EndResponse
      <4> HIDE DEF w
      <4> QED BY <3>3, <4>1
    <3> QED BY <1>10, <3>4, <3>5
  <2>4. StreamGood(s, published[s.turn])
    BY <2>2 DEF StreamGood, Occupied
  <2>5. ASSUME NEW p \in Pages, page[p].stream = c
        PROVE  WireGood(page[p], s, published[page[p].turn])
    <3>1. /\ WireGood(page[p], stream[c], published[page[p].turn]) /\ page[p].cursor \in Nat
          /\ page[p].cursor <= Len(published[page[p].turn])
      BY <1>b, <2>5 DEF PageGood, PageStates
    <3>2. CASE s.wire = <<>> /\ s.cut = TRUE
      <4>1. Len(s.wire) = 0 /\ Counting(s.wire, page[p].cursor)
        BY <3>2 DEF Counting
      <4> QED BY <2>2, <3>1, <3>2, <4>1 DEF WireGood, Occupied
    <3>3. CASE /\ s.wire = stream[c].wire /\ s.cut = (stream[c].cut \/ stream[c].at = "opened")
               /\ stream[c].at \in {"opened", "ending"}
      <4>1. ASSUME ~s.cut PROVE stream[c].at = "ending" /\ ~stream[c].cut
        BY <3>3, <4>1
      <4> QED BY <2>2, <3>1, <3>3, <4>1 DEF WireGood, Occupied
    <3> QED BY <2>2, <3>2, <3>3
  <2> QED BY <2>1, <2>2, <2>4, <2>5, StreamMoves

<1>11. ASSUME NEW p \in Pages, NEW c \in Streams, Connect(p, c) PROVE LogInv'
  <2> DEFINE y == page[p]
             d == y.stream
             left == Left(d)
             fresh == [Unused EXCEPT !.turn = y.turn, !.cursor = y.cursor, !.at = "admitted", !.leased = TRUE]
             none == [Unused EXCEPT !.at = "closed", !.cut = TRUE]
  <2>1. /\ stream[c].at = "new" /\ stream[c] = Unused /\ y \in PageStates /\ y.turn \in Turns
        /\ y.cursor \in Nat /\ UNCHANGED published
    BY <1>11, <1>a, <1>b DEF Connect, StreamGood, PageStates
  <2>2. d \in Streams => d # c /\ stream[d].at # "new" /\ d # NoStream
    BY <1>b, <1>c, <2>1 DEF WireGood
  <2>3. /\ left \in [Streams -> StreamStates]
        /\ \A e \in Streams : e # d => left[e] = stream[e]
        /\ \A e \in Streams : StreamGood(left[e], published[left[e].turn])
    <3>1. CASE d = NoStream
      BY <1>a, <3>1 DEF Left
    <3>2. CASE d \in Streams
      <4> DEFINE v == [stream[d] EXCEPT !.wire = <<>>, !.cut = TRUE]
      <4>1. v \in StreamStates /\ v.turn = stream[d].turn /\ StreamGood(v, published[stream[d].turn])
        BY <1>a, <2>2, <3>2, Emptied
      <4>2. left = [stream EXCEPT ![d] = v]
        BY <1>a, <2>2, <3>2 DEF Left
      <4> HIDE DEF v, left
      <4> QED BY <1>a, <3>2, <4>1, <4>2
    <3> QED BY <1>b, <3>1, <3>2
  <2>4. c # d /\ left[c] = Unused
    BY <1>c, <2>1, <2>2, <2>3
  <2>5. PICK s \in StreamStates :
          /\ stream' = [left EXCEPT ![c] = s]
          /\ \/ /\ s = fresh /\ page' = [page EXCEPT ![p] = [y EXCEPT !.stream = c]]
             \/ /\ s = none /\ page' = [page EXCEPT ![p] = [y EXCEPT !.stream = NoStream]]
    <3>1. fresh \in StreamStates
      <4> DEFINE u == Unused
      <4>1. u \in StreamStates
        BY UnusedTyped
      <4> HIDE DEF u
      <4>2. [u EXCEPT !.turn = y.turn, !.cursor = y.cursor, !.at = "admitted", !.leased = TRUE] \in StreamStates
        BY <2>1, <4>1 DEF StreamStates
      <4> QED BY <4>2 DEF u
    <3>2. none \in StreamStates
      <4>1. <<>> \in Seq(Nat)
        OBVIOUS
      <4> QED BY <4>1, ClosedTyped
    <3>3. CASE Free(y.turn)
      <4>1. /\ stream' = [[left EXCEPT ![c].turn = y.turn, ![c].cursor = y.cursor]
                            EXCEPT ![c].at = "admitted", ![c].leased = TRUE]
            /\ page' = [page EXCEPT ![p].stream = c]
        BY <1>11, <3>3 DEF Connect
      <4>2. stream' = [left EXCEPT ![c] = fresh]
        <5> HIDE DEF left
        <5> QED BY <2>3, <2>4, <4>1
      <4>3. page' = [page EXCEPT ![p] = [y EXCEPT !.stream = c]]
        BY <1>a, <4>1
      <4> HIDE DEF fresh, left
      <4> QED BY <3>1, <4>2, <4>3
    <3>4. CASE ~Free(y.turn)
      <4>1. stream' = [left EXCEPT ![c] = none] /\ page' = [page EXCEPT ![p].stream = NoStream]
        BY <1>11, <3>4 DEF Connect
      <4>2. page' = [page EXCEPT ![p] = [y EXCEPT !.stream = NoStream]]
        BY <1>a, <4>1
      <4> HIDE DEF none, left
      <4> QED BY <3>2, <4>1, <4>2
    <3> QED BY <3>3, <3>4
  <2> HIDE DEF left
  <2>6. /\ PageGood(y, published[y.turn]) /\ y.cursor <= Len(published[y.turn])
    BY <1>b DEF PageGood
  <2>7. /\ s = none => s.at = "closed" /\ ~s.leased
        /\ s = fresh => /\ s.at = "admitted" /\ s.leased /\ s.turn = y.turn /\ s.cursor = y.cursor
                        /\ s.wire = <<>> /\ ~s.cut
    BY DEF Unused
  <2> HIDE DEF fresh, none
  <2>8. StreamGood(s, published[s.turn])
    BY <2>1, <2>5, <2>6, <2>7 DEF StreamGood, Replays, Occupied
  <2>9. PICK x \in Streams \cup {NoStream} :
          /\ page' = [page EXCEPT ![p] = [y EXCEPT !.stream = x]]
          /\ x = NoStream \/ (x = c /\ s = fresh)
    BY <2>5
  <2> DEFINE z == [y EXCEPT !.stream = x]
  <2>10. /\ z \in PageStates /\ z.turn = y.turn /\ z.log = y.log /\ z.cursor = y.cursor
         /\ z.whole = y.whole /\ z.stream = x
    BY <2>1 DEF PageStates
  <2>p. page' = [page EXCEPT ![p] = z]
    BY <2>9
  <2> HIDE DEF z
  <2>11. PageGood(z, published[z.turn])
    BY <2>6, <2>10 DEF PageGood
  <2>12. stream' \in [Streams -> StreamStates] /\ \A e \in Streams : stream'[e] = IF e = c THEN s ELSE left[e]
    BY <2>3, <2>5
  <2>13. \A e \in Streams : StreamGood(stream'[e], published[stream'[e].turn])
    BY <2>3, <2>8, <2>12
  <2>14. ASSUME z.stream # NoStream
         PROVE  /\ WireGood(z, stream'[z.stream], published[z.turn])
                /\ \A q \in Pages : q # p => page[q].stream # z.stream
    <3>1. z.stream = c /\ s = fresh /\ stream'[c] = s
      BY <2>9, <2>10, <2>12, <2>14
    <3>2. Len(s.wire) = 0 /\ Counting(s.wire, z.cursor) /\ z.cursor \in Nat
      BY <2>1, <2>7, <2>10, <3>1 DEF Counting
    <3>3. WireGood(z, s, published[z.turn])
      BY <2>6, <2>7, <2>10, <3>1, <3>2 DEF WireGood, Occupied
    <3> QED BY <1>b, <2>1, <3>1, <3>3 DEF WireGood
  <2>15. ASSUME NEW q \in Pages, q # p, page[q].stream # NoStream
         PROVE  stream'[page[q].stream] = stream[page[q].stream]
    <3>1. page[q].stream \in Streams /\ stream[page[q].stream].at # "new"
      BY <1>b, <2>15 DEF WireGood
    <3>2. page[q].stream # d
      BY <2>15 DEF LogInv
    <3> QED BY <2>1, <2>3, <2>12, <3>1, <3>2
  <2> QED BY ONLY LogInv, <2>1, <2>10, <2>p, <2>11, <2>12, <2>13, <2>14, <2>15, PageMoves
<1>12. ASSUME NEW p \in Pages, NEW c \in Streams, Break(p, c) PROVE LogInv'
  <2> DEFINE y == page[p]
             v == [stream[c] EXCEPT !.wire = <<>>, !.cut = TRUE]
             z == [y EXCEPT !.stream = NoStream]
  <2>1. /\ y.stream = c /\ y \in PageStates /\ PageGood(y, published[y.turn]) /\ UNCHANGED published
        /\ c # NoStream /\ stream[c].at # "new"
    BY <1>12, <1>b, <1>c DEF Break, Current, WireGood
  <2>2. v \in StreamStates /\ StreamGood(v, published[stream[c].turn]) /\ v.turn = stream[c].turn
    BY <1>a, <2>1, Emptied
  <2>3. stream' = [stream EXCEPT ![c] = v] /\ page' = [page EXCEPT ![p] = z]
    BY <1>12, <1>a, <2>1 DEF Break, Left
  <2> HIDE DEF v
  <2>4. /\ z \in PageStates /\ z.turn = y.turn /\ z.log = y.log /\ z.cursor = y.cursor
        /\ z.whole = y.whole /\ z.stream = NoStream
    BY <2>1 DEF PageStates
  <2> HIDE DEF z
  <2>5. PageGood(z, published[z.turn])
    BY <2>1, <2>4 DEF PageGood
  <2>6. /\ stream' \in [Streams -> StreamStates]
        /\ \A e \in Streams : stream'[e] = IF e = c THEN v ELSE stream[e]
    BY <1>a, <2>2, <2>3
  <2>7. \A e \in Streams : StreamGood(stream'[e], published[stream'[e].turn])
    BY <1>a, <2>2, <2>6
  <2>8. \A q \in Pages : q # p /\ page[q].stream # NoStream => stream'[page[q].stream] = stream[page[q].stream]
    BY <1>b, <2>1, <2>6 DEF LogInv
  <2> QED BY ONLY LogInv, <2>1, <2>3, <2>4, <2>5, <2>6, <2>7, <2>8, PageMoves
<1>13. ASSUME NEW p \in Pages, NEW c \in Streams, Done(p, c) PROVE LogInv'
  <2> DEFINE y == page[p]
             z == [y EXCEPT !.stream = NoStream, !.whole = TRUE]
  <2>1. /\ y \in PageStates /\ PageGood(y, published[y.turn]) /\ UNCHANGED <<published, stream>>
        /\ WireGood(y, stream[c], published[y.turn]) /\ stream[c].at \notin Occupied /\ ~stream[c].cut
        /\ stream[c].wire = <<>>
    BY <1>13, <1>b DEF Done, Current, Occupied
  <2>2. EndedRows(published[y.turn]) /\ y.cursor = Len(published[y.turn])
    <3>1. y.cursor \in Nat /\ Len(stream[c].wire) = 0
      BY <2>1 DEF PageStates
    <3> QED BY <2>1, <3>1 DEF WireGood
  <2>3. page' = [page EXCEPT ![p] = z]
    BY <1>13, <1>a DEF Done
  <2>4. /\ z \in PageStates /\ z.turn = y.turn /\ z.log = y.log /\ z.cursor = y.cursor
        /\ z.stream = NoStream
    BY <2>1 DEF PageStates, TurnStreamAssumption
  <2> HIDE DEF z
  <2>5. PageGood(z, published[z.turn])
    BY <2>1, <2>2, <2>4 DEF PageGood
  <2>6. stream' \in [Streams -> StreamStates] /\ \A e \in Streams : stream'[e] = stream[e]
    BY <1>a, <2>1
  <2>7. \A e \in Streams : StreamGood(stream'[e], published[stream'[e].turn])
    BY <1>a, <2>6
  <2>8. \A q \in Pages : q # p /\ page[q].stream # NoStream => stream'[page[q].stream] = stream[page[q].stream]
    BY <2>1
  <2> QED BY ONLY LogInv, <2>1, <2>3, <2>4, <2>5, <2>6, <2>7, <2>8, PageMoves
<1>14. ASSUME NEW p \in Pages, NEW c \in Streams, Receive(p, c) PROVE LogInv'
  <2> DEFINE y == page[p]
             wire == stream[c].wire
             h == Head(wire)
             rest == Tail(wire)
             v == [stream[c] EXCEPT !.wire = rest]
             log == Append(y.log, h)
             z == [y EXCEPT !.log = log, !.cursor = h]
  <2>1. /\ y.stream = c /\ y \in PageStates /\ PageGood(y, published[y.turn]) /\ UNCHANGED published
        /\ stream[c] \in StreamStates /\ wire # <<>> /\ WireGood(y, stream[c], published[y.turn])
        /\ y.turn \in Turns
    BY <1>14, <1>a, <1>b DEF Receive, Current
  <2>2. wire \in Seq(Nat) /\ y.cursor \in Nat /\ y.log \in Seq(Nat) /\ c # NoStream
    BY <1>c, <2>1 DEF StreamStates, PageStates
  <2>3. /\ h = y.cursor + 1 /\ Counting(rest, h) /\ Len(wire) = Len(rest) + 1
        /\ rest \in Seq(Nat) /\ Len(rest) \in Nat /\ h \in Nat /\ ~(h <= y.cursor)
    <3>1. Counting(wire, y.cursor) /\ wire # <<>>
      BY <2>1 DEF WireGood
    <3> HIDE DEF y, wire
    <3>2. h = y.cursor + 1 /\ Counting(rest, y.cursor + 1) /\ Len(wire) = Len(rest) + 1
      BY <2>2, <3>1, CountsOn
    <3>3. rest \in Seq(Nat)
      BY <2>2, <3>1
    <3> QED BY <2>2, <3>2, <3>3
  <2>4. stream' = [stream EXCEPT ![c] = v] /\ page' = [page EXCEPT ![p] = z]
    <3>1. page' = [page EXCEPT ![p] = Logged(p, h)] /\ stream' = [stream EXCEPT ![c].wire = Tail(@)]
      BY <1>14 DEF Receive
    <3>2. Logged(p, h) = z
      BY <2>3 DEF Logged
    <3>3. stream' = [stream EXCEPT ![c] = v]
      BY <1>a, <3>1
    <3> QED BY <3>1, <3>2, <3>3
  <2>5. log \in Seq(Nat) /\ Len(log) = h /\ Counting(log, 0)
    <3>1. Len(y.log) = y.cursor /\ Counting(y.log, 0) /\ h = 0 + Len(y.log) + 1
      BY <2>1, <2>2, <2>3 DEF PageGood
    <3>2. Counting(Append(y.log, 0 + Len(y.log) + 1), 0)
      BY <2>2, <3>1, CountsOn
    <3> QED BY <2>2, <2>3, <3>1, <3>2
  <2> HIDE DEF h, rest, log
  <2>6. /\ v \in StreamStates /\ v.wire = rest /\ v.at = stream[c].at /\ v.turn = stream[c].turn
        /\ v.cursor = stream[c].cursor /\ v.batch = stream[c].batch /\ v.last = stream[c].last
        /\ v.over = stream[c].over /\ v.leased = stream[c].leased /\ v.cut = stream[c].cut
    BY <2>1, <2>3 DEF StreamStates
  <2>7. /\ z \in PageStates /\ z.turn = y.turn /\ z.log = log /\ z.cursor = h
        /\ z.whole = y.whole /\ z.stream = c
    BY <2>1, <2>3, <2>5 DEF PageStates
  <2> HIDE DEF v, z
  <2>8. Len(published[y.turn]) \in Nat /\ Len(wire) \in Nat /\ y.cursor + Len(wire) <= Len(published[y.turn])
    BY <1>b, <2>1, <2>2 DEF WireGood
  <2>9. h <= Len(published[y.turn]) /\ h + Len(rest) = y.cursor + Len(wire) /\ y.cursor # Len(published[y.turn])
    <3> DEFINE n == Len(published[y.turn])
               i == Len(rest)
               j == Len(wire)
               k == y.cursor
    <3>1. n \in Nat /\ i \in Nat /\ j = i + 1 /\ h = k + 1 /\ k \in Nat /\ k + j <= n
      BY <2>2, <2>3, <2>8
    <3> HIDE DEF n, i, j, k
    <3>2. h <= n /\ h + i = k + j /\ k # n
      BY ONLY <3>1
    <3> QED BY <3>2 DEF n, i, j, k
  <2>10. PageGood(z, published[z.turn])
    BY <2>1, <2>5, <2>7, <2>9 DEF PageGood
  <2>11. WireGood(z, v, published[z.turn])
    BY <2>1, <2>3, <2>6, <2>7, <2>9 DEF WireGood
  <2>12. StreamGood(v, published[v.turn])
    BY <1>a, <2>1, <2>6 DEF StreamGood, Replays, WireGood
  <2>13. /\ stream' \in [Streams -> StreamStates]
         /\ \A e \in Streams : stream'[e] = IF e = c THEN v ELSE stream[e]
    BY <1>a, <2>4, <2>6
  <2>14. \A e \in Streams : StreamGood(stream'[e], published[stream'[e].turn])
    BY <1>a, <2>12, <2>13
  <2>15. ASSUME NEW q \in Pages, q # p, page[q].stream # NoStream
         PROVE  page[q].stream # c /\ stream'[page[q].stream] = stream[page[q].stream]
    <3>1. page[q].stream # c /\ page[q].stream \in Streams
      BY <1>b, <2>1, <2>15 DEF LogInv
    <3> QED BY <2>13, <3>1
  <2>16. WireGood(z, stream'[z.stream], published[z.turn]) /\ \A q \in Pages : q # p => page[q].stream # z.stream
    BY <2>2, <2>7, <2>11, <2>13, <2>15
  <2> QED BY ONLY LogInv, <2>1, <2>4, <2>7, <2>10, <2>13, <2>14, <2>15, <2>16, PageMoves
<1>15. ASSUME UNCHANGED streamVars PROVE LogInv'
  BY <1>15, <1>2 DEF streamVars
<1> QED BY <1>3, <1>5, <1>6, <1>7, <1>8, <1>9, <1>10, <1>11, <1>12, <1>13, <1>14, <1>15 DEF StreamNext

LEMMA LogStarts == ASSUME TurnStreamAssumption, StreamInit PROVE LogInv
<1>1. /\ \A c \in Streams : stream[c] = Unused
      /\ \A t \in Turns : published[t] = <<>>
      /\ \A p \in Pages : \E t \in Turns : page[p] = [turn |-> t, log |-> <<>>, cursor |-> 0,
                                                      stream |-> NoStream, whole |-> FALSE]
  BY DEF StreamInit
<1>2. ASSUME NEW t \in Turns, NEW y, y = [turn |-> t, log |-> <<>>, cursor |-> 0, stream |-> NoStream, whole |-> FALSE]
      PROVE  y \in PageStates /\ y.stream = NoStream /\ PageGood(y, <<>>) /\ y.turn = t
  <2> DEFINE none == <<>>
  <2>1. none \in Seq(Nat) /\ Len(none) = 0 /\ Counting(none, 0)
    BY DEF Counting
  <2>2. y = [turn |-> t, log |-> none, cursor |-> 0, stream |-> NoStream, whole |-> FALSE]
    BY <1>2
  <2> HIDE DEF none
  <2>3. y \in PageStates /\ y.stream = NoStream /\ y.log = none /\ y.cursor = 0 /\ y.whole = FALSE /\ y.turn = t
    BY <2>1, <2>2 DEF PageStates
  <2>4. PageGood(y, none)
    BY <2>1, <2>3 DEF PageGood
  <2> QED BY <2>3, <2>4 DEF none
<1>3. \A p \in Pages : page[p] \in PageStates /\ page[p].stream = NoStream
                       /\ PageGood(page[p], published[page[p].turn])
  <2> TAKE p \in Pages
  <2>1. PICK t \in Turns : page[p] = [turn |-> t, log |-> <<>>, cursor |-> 0, stream |-> NoStream, whole |-> FALSE]
    BY <1>1
  <2>2. page[p] \in PageStates /\ page[p].stream = NoStream /\ PageGood(page[p], <<>>) /\ page[p].turn = t
    BY <1>2, <2>1
  <2> QED BY <1>1, <2>2
<1>4. \A rows : StreamGood(Unused, rows)
  BY UnusedTyped DEF StreamGood, Occupied
<1>5. LogTyped
  <2>1. stream \in [Streams -> StreamStates]
    <3>1. stream = [c \in Streams |-> Unused] /\ Unused \in StreamStates
      BY UnusedTyped DEF StreamInit
    <3> HIDE DEF Unused
    <3> QED BY <3>1
  <2>2. page \in [Pages -> PageStates]
    <3>1. page = [p \in Pages |-> page[p]]
      BY DEF StreamInit
    <3> QED BY <1>3, <3>1
  <2>3. published \in [Turns -> Seq(EventRows)]
    BY DEF StreamInit
  <2> QED BY <2>1, <2>2, <2>3 DEF LogTyped
<1> QED BY <1>1, <1>3, <1>4, <1>5 DEF LogInv

LEMMA LogsArePrefixes == ASSUME LogInv PROVE LogIsPrefix
BY DEF LogInv, LogIsPrefix, PageGood, Counting, Ended, EndedRows, LogTyped, PageStates

-----------------------------------------------------------------------------
(* The slots. *)

(* Only whether c holds a slot may change. *)
OnlyHolder(c) ==
  \A e \in Streams : e # c => /\ stream'[e].at \in Occupied <=> stream[e].at \in Occupied
                              /\ stream'[e].turn = stream[e].turn

LEMMA HeldFinite ==
  ASSUME SlotsCounted, NEW t \in Turns
  PROVE  /\ IsFiniteSet(OnTurn(t)) /\ Cardinality(OnTurn(t)) \in Nat /\ Cardinality(AllHeld) \in Nat
         /\ \A c \in OnTurn(t) : Cardinality(OnTurn(t)) > 0
<1>1. IsFiniteSet(OnTurn(t))
  <2>1. OnTurn(t) \subseteq AllHeld
    BY DEF OnTurn
  <2> QED BY <2>1, FS_Subset DEF SlotsCounted
<1>2. \A c \in OnTurn(t) : Cardinality(OnTurn(t)) # 0
  BY <1>1, FS_EmptySet
<1> QED BY <1>1, <1>2, FS_CardinalityType DEF SlotsCounted

LEMMA SlotTaken ==
  ASSUME SlotsCounted, NEW c \in Streams, OnlyHolder(c), stream[c].at \notin Occupied,
         stream'[c].at \in Occupied, NEW t \in Turns, stream'[c].turn = t,
         slots' = [total |-> slots.total + 1, turn |-> [slots.turn EXCEPT ![t] = @ + 1]]
  PROVE  SlotsCounted'
<1>1. AllHeld' = AllHeld \cup {c} /\ c \notin AllHeld
  BY DEF AllHeld, OnlyHolder
<1>2. \A u : OnTurn(u)' = (IF u = t THEN OnTurn(u) \cup {c} ELSE OnTurn(u)) /\ c \notin OnTurn(u)
  BY <1>1 DEF OnTurn, AllHeld, OnlyHolder
<1>3. /\ IsFiniteSet(AllHeld') /\ Cardinality(AllHeld') = Cardinality(AllHeld) + 1
  BY <1>1, FS_AddElement DEF SlotsCounted
<1>4. Cardinality(OnTurn(t)') = Cardinality(OnTurn(t)) + 1
  BY <1>2, HeldFinite, FS_AddElement
<1>5. slots' \in [total : Nat, turn : [Turns -> Nat]] /\ slots'.total = slots.total + 1
      /\ \A u \in Turns : slots'.turn[u] = IF u = t THEN slots.turn[u] + 1 ELSE slots.turn[u]
  BY DEF SlotsCounted
<1> QED BY <1>2, <1>3, <1>4, <1>5 DEF SlotsCounted

LEMMA SlotGiven ==
  ASSUME SlotsCounted, NEW c \in Streams, OnlyHolder(c), stream[c].at \in Occupied,
         stream'[c].at \notin Occupied, NEW t \in Turns, stream[c].turn = t,
         slots' = [total |-> slots.total - 1, turn |-> [slots.turn EXCEPT ![t] = @ - 1]]
  PROVE  SlotsCounted'
<1>1. AllHeld' = AllHeld \ {c} /\ c \in AllHeld
  BY DEF AllHeld, OnlyHolder
<1>2. /\ \A u : OnTurn(u)' = IF u = t THEN OnTurn(u) \ {c} ELSE OnTurn(u)
      /\ c \in OnTurn(t)
  BY <1>1 DEF OnTurn, AllHeld, OnlyHolder
<1>3. /\ IsFiniteSet(AllHeld') /\ Cardinality(AllHeld') = Cardinality(AllHeld) - 1
      /\ Cardinality(AllHeld') \in Nat
  <2>1. IsFiniteSet(AllHeld')
    BY <1>1, FS_RemoveElement DEF SlotsCounted
  <2> QED BY <1>1, <2>1, FS_RemoveElement, FS_CardinalityType DEF SlotsCounted
<1>4. Cardinality(OnTurn(t)') = Cardinality(OnTurn(t)) - 1 /\ Cardinality(OnTurn(t)') \in Nat
  <2>1. IsFiniteSet(OnTurn(t)')
    BY <1>2, HeldFinite, FS_RemoveElement
  <2> QED BY <1>2, <2>1, HeldFinite, FS_RemoveElement, FS_CardinalityType
<1>5. slots.total = Cardinality(AllHeld) /\ \A u \in Turns : slots.turn[u] = Cardinality(OnTurn(u))
  BY DEF SlotsCounted
<1>6. slots.total - 1 \in Nat /\ slots.turn[t] - 1 \in Nat
  BY <1>3, <1>4, <1>5
<1>7. slots' \in [total : Nat, turn : [Turns -> Nat]] /\ slots'.total = slots.total - 1
      /\ \A u \in Turns : slots'.turn[u] = IF u = t THEN slots.turn[u] - 1 ELSE slots.turn[u]
  BY <1>6 DEF SlotsCounted
<1> QED BY <1>2, <1>3, <1>4, <1>5, <1>7 DEF SlotsCounted

LEMMA SlotKept ==
  ASSUME SlotsCounted, NEW c, OnlyHolder(c), UNCHANGED slots,
         c \in Streams =>
           /\ stream'[c].at \in Occupied <=> stream[c].at \in Occupied
           /\ stream'[c].at \in Occupied => stream'[c].turn = stream[c].turn
  PROVE  SlotsCounted'
<1>1. AllHeld' = AllHeld
  BY DEF AllHeld, OnlyHolder
<1>2. \A u : OnTurn(u)' = OnTurn(u)
  BY <1>1 DEF OnTurn, AllHeld, OnlyHolder
<1> QED BY <1>1, <1>2 DEF SlotsCounted

(* Slots and signals, when a user of the turn t is gone. *)
LEMMA SignalsKept ==
  ASSUME SlotInv, NEW t, NEW w \in BOOLEAN, signals' = Cleaned(t, w, slots'.turn[t]),
         w => Working(t)', \A u \in signals : u # t => (Used(u) => Used(u)')
  PROVE  \A u \in signals' : u \in Turns /\ Used(u)'
<1>1. ASSUME NEW u \in signals' PROVE u \in signals /\ (u # t \/ w \/ slots'.turn[t] > 0)
  BY <1>1 DEF Cleaned
<1> QED BY <1>1 DEF SlotInv, Used

LEMMA SlotStep ==
  ASSUME TurnStreamAssumption, AnswerInv, LogInv, SlotInv, [StreamNext]_streamVars
  PROVE  SlotInv'
<1>a. /\ stream = [c \in Streams |-> stream[c]] /\ \A c \in Streams : stream[c] \in StreamStates
      /\ \A c \in Streams : (stream[c].leased <=> stream[c].at \in Occupied)
                            /\ (stream[c].at \in Occupied => stream[c].turn \in Turns)
  BY DEF LogInv, LogTyped, StreamGood
<1>b. /\ answer = [t \in Turns |-> answer[t]] /\ SlotsCounted
      /\ \A t \in Turns : answer[t] \in AnswerStates
  BY DEF AnswerInv, SlotInv
<1>1. ASSUME UNCHANGED <<slots, stream>>, \A t \in signals' : t \in signals /\ (Used(t) => Used(t)')
      PROVE  SlotInv'
  <2>1. SlotsCounted'
    BY <1>1, <1>b DEF SlotsCounted, AllHeld, OnTurn
  <2> QED BY <1>1, <2>1 DEF SlotInv
<1>2. ASSUME NEW t \in Turns,
             \/ Send(t) \/ Take(t) \/ FlushDue(t) \/ Flush(t) \/ FlushFails(t) \/ Close(t)
             \/ Deadline(t) \/ Finish(t) \/ FinishFails(t) \/ Cancel(t) \/ Recover(t)
             \/ \E how \in {"stop", "length", "error"} : ModelEnds(t, how)
      PROVE  SlotInv'
  <2>1. UNCHANGED <<signals, slots, stream>>
    BY <1>2 DEF Send, Take, FlushDue, Flush, FlushFails, Close, Deadline, Finish, FinishFails,
                Cancel, Recover, ModelEnds
  <2>2. ASSUME NEW u \in Turns, Working(u) PROVE Working(u)'
    <3>1. CASE UNCHANGED answer
      BY <2>2, <3>1 DEF Working
    <3>2. CASE Take(t) \/ FlushDue(t) \/ Flush(t) \/ FlushFails(t) \/ Close(t) \/ Deadline(t)
               \/ Finish(t) \/ FinishFails(t) \/ Cancel(t)
      <4>1. answer' = [v \in Turns |-> answer'[v]] /\ \A v \in Turns : v # t => answer'[v] = answer[v]
        BY <1>b, <3>2 DEF Take, FlushDue, Flush, FlushFails, Close, Deadline, Finish, FinishFails, Cancel
      <4>2. Working(t) => answer'[t].at # "gone"
        BY <1>b, <3>2 DEF Take, FlushDue, Flush, FlushFails, Close, Deadline, Finish, FinishFails, Cancel,
                          Working, AnswerStates
      <4> QED BY <2>2, <4>1, <4>2 DEF Working
    <3> QED BY <1>2, <3>1, <3>2 DEF Send, Recover, ModelEnds
  <2>3. \A u \in signals : Used(u) => Used(u)'
    BY <2>1, <2>2 DEF Used, SlotInv
  <2> QED BY <1>1, <2>1, <2>3
<1>3. ASSUME NEW t \in Turns, Forget(t) PROVE SlotInv'
  <2>1. /\ UNCHANGED <<slots, stream>> /\ signals' = Cleaned(t, FALSE, slots'.turn[t])
        /\ \A v \in Turns : v # t => answer'[v] = answer[v]
    BY <1>3, <1>b DEF Forget
  <2>2. \A u \in signals : u # t => (Used(u) => Used(u)')
    BY <2>1 DEF Used, Working, SlotInv
  <2>3. \A u \in signals' : u \in Turns /\ Used(u)'
    BY <2>1, <2>2, SignalsKept
  <2>4. SlotsCounted'
    BY <1>b, <2>1 DEF SlotsCounted, AllHeld, OnTurn
  <2> QED BY <2>3, <2>4 DEF SlotInv
<1>4. ASSUME UNCHANGED answer, NEW u, slots'.turn[u] = slots.turn[u] \/ slots'.turn[u] > 0, Used(u)
      PROVE  Used(u)'
  BY <1>4 DEF Used, Working
<1>5. ASSUME UNCHANGED <<answer, signals>>, SlotsCounted', UNCHANGED slots
      PROVE  SlotInv'
  BY <1>5 DEF SlotInv, Used, Working
<1>6. ASSUME NEW c \in Streams, Open(c) \/ Yield(c) \/ ReadAgain(c) PROVE SlotInv'
  <2>1. UNCHANGED <<answer, signals, slots>>
    BY <1>6 DEF Open, Yield, ReadAgain
  <2>2. PICK s : /\ stream' = [stream EXCEPT ![c] = s] /\ s.at \in Occupied /\ s.turn = stream[c].turn
                 /\ stream[c].at \in Occupied
    <3>1. CASE Open(c)
      <4>1. stream[c].at \in Occupied
        BY <3>1 DEF Open, Occupied
      <4> DEFINE s == [Replay(c) EXCEPT !.at = "opened"]
      <4>2. s.at = "opened" /\ s.turn = stream[c].turn
        BY <4>1, ReplayGood
      <4>3. stream' = [stream EXCEPT ![c] = s]
        BY <3>1 DEF Open
      <4> HIDE DEF s
      <4> QED BY <4>1, <4>2, <4>3 DEF Occupied
    <3>2. CASE ReadAgain(c)
      <4>1. Replay(c).at = stream[c].at /\ Replay(c).turn = stream[c].turn /\ stream[c].at = "body"
            /\ stream' = [stream EXCEPT ![c] = Replay(c)]
        BY <1>a, <3>2 DEF ReadAgain, Replay, StreamStates
      <4> QED BY <4>1 DEF Occupied
    <3>3. CASE Yield(c)
      <4> DEFINE h == Head(stream[c].batch)
                 rest == Tail(stream[c].batch)
                 wire == IF stream[c].cut THEN stream[c].wire ELSE Append(stream[c].wire, h)
                 s == [stream[c] EXCEPT !.cursor = h, !.wire = wire, !.batch = rest]
      <4>1. stream' = [stream EXCEPT ![c] = s] /\ stream[c].at = "body"
        BY <1>a, <3>3 DEF Yield
      <4> HIDE DEF h, rest, wire
      <4>2. s.at = stream[c].at /\ s.turn = stream[c].turn
        BY <1>a DEF StreamStates
      <4> HIDE DEF s
      <4> QED BY <4>1, <4>2 DEF Occupied
    <3> QED BY <1>6, <3>1, <3>2, <3>3
  <2>3. OnlyHolder(c) /\ stream'[c] = s
    BY <1>a, <2>2 DEF OnlyHolder
  <2>4. SlotsCounted'
    BY <1>b, <2>1, <2>2, <2>3, SlotKept
  <2> QED BY <1>5, <2>1, <2>4
<1>7. ASSUME NEW c \in Streams, Start(c) PROVE SlotInv'
  <2> DEFINE s == [stream[c] EXCEPT !.at = "body"]
  <2>a. stream' = [stream EXCEPT ![c] = s] /\ s.at = "body" /\ s.turn = stream[c].turn
    BY <1>7, <1>a DEF Start, StreamStates
  <2> HIDE DEF s
  <2>b. OnlyHolder(c) /\ stream'[c] = s
    BY <1>a, <2>a DEF OnlyHolder
  <2>1. /\ UNCHANGED <<answer, slots>> /\ OnlyHolder(c) /\ signals' = signals \cup {stream[c].turn}
        /\ stream[c].at \in Occupied /\ stream'[c].at \in Occupied /\ stream'[c].turn = stream[c].turn
    BY <1>7, <2>a, <2>b DEF Start, Occupied
  <2>2. SlotsCounted'
    BY <1>b, <2>1, SlotKept
  <2>3. stream[c].turn \in Turns /\ c \in OnTurn(stream[c].turn)
    BY <1>a, <2>1 DEF OnTurn, AllHeld
  <2>4. slots.turn[stream[c].turn] > 0
    BY <1>b, <2>3, HeldFinite DEF SlotsCounted
  <2> QED BY <2>1, <2>2, <2>3, <2>4 DEF SlotInv, Used, Working
<1>8. ASSUME NEW c \in Streams, Refuse(c) \/ EndResponse(c) \/ \E cut \in BOOLEAN : EndBody(c, cut)
      PROVE  SlotInv'
  <2>0. PICK t : t = stream[c].turn
    OBVIOUS
  <2>1. /\ slots' = Released(c) /\ signals' = Cleaned(t, Working(t), slots'.turn[t]) /\ UNCHANGED answer
    BY <1>8, <2>0 DEF Refuse, EndResponse, EndBody
  <2>2. OnlyHolder(c) /\ stream'[c].at \notin Occupied
    <3>1. PICK s : stream' = [stream EXCEPT ![c] = s] /\ s.at \in {"closed", "ending"}
      <4>1. CASE Refuse(c)
        <5> DEFINE s == [Unused EXCEPT !.at = "closed", !.cut = TRUE]
        <5>1. stream' = [stream EXCEPT ![c] = s] /\ s.at = "closed"
          BY <4>1 DEF Refuse, Unused
        <5> HIDE DEF s
        <5> QED BY <5>1
      <4>2. CASE EndResponse(c)
        <5> DEFINE wire == stream[c].wire
                   cut == stream[c].cut \/ stream[c].at = "opened"
                   s == [Unused EXCEPT !.at = "closed", !.wire = wire, !.cut = cut]
        <5>1. stream' = [stream EXCEPT ![c] = s]
          BY <4>2 DEF EndResponse
        <5> HIDE DEF wire, cut
        <5>2. s.at = "closed"
          BY DEF Unused
        <5> HIDE DEF s
        <5> QED BY <5>1, <5>2
      <4>3. ASSUME NEW cut \in BOOLEAN, EndBody(c, cut)
            PROVE  stream' = [stream EXCEPT ![c] = [stream[c] EXCEPT !.at = "ending", !.cut = @ \/ cut, !.leased = FALSE]]
        BY <1>a, <4>3 DEF EndBody
      <4>4. \A cut : [stream[c] EXCEPT !.at = "ending", !.cut = @ \/ cut, !.leased = FALSE].at = "ending"
        BY <1>a DEF StreamStates
      <4> QED BY <1>8, <4>1, <4>2, <4>3, <4>4
    <3> QED BY <1>a, <3>1 DEF OnlyHolder, Occupied
  <2>3. CASE stream[c].leased
    <3>1. /\ stream[c].at \in Occupied /\ t \in Turns
          /\ slots' = [total |-> slots.total - 1, turn |-> [slots.turn EXCEPT ![t] = @ - 1]]
      BY <1>a, <2>0, <2>1, <2>3 DEF Released
    <3>2. SlotsCounted'
      BY <1>b, <2>0, <2>2, <3>1, SlotGiven
    <3>3. \A u \in signals : u # t => slots'.turn[u] = slots.turn[u]
      BY <1>b, <3>1 DEF SlotsCounted, SlotInv
    <3>4. \A u \in signals : u # t => (Used(u) => Used(u)')
      BY <2>1, <3>3 DEF Used, Working
    <3>5. Working(t) \in BOOLEAN /\ (Working(t) => Working(t)')
      BY <2>1 DEF Working
    <3>6. \A u \in signals' : u \in Turns /\ Used(u)'
      BY <2>1, <3>4, <3>5, SignalsKept
    <3> QED BY <3>2, <3>6 DEF SlotInv
  <2>4. CASE ~stream[c].leased
    <3>1. stream[c].at \notin Occupied /\ UNCHANGED slots
      BY <1>a, <2>1, <2>4 DEF Released
    <3>2. SlotsCounted'
      BY <1>b, <2>2, <3>1, SlotKept
    <3>3. signals' \subseteq signals
      BY <2>1 DEF Cleaned
    <3> QED BY <2>1, <3>1, <3>2, <3>3 DEF SlotInv, Used, Working
  <2> QED BY <2>3, <2>4
<1>9. ASSUME NEW p \in Pages, NEW c \in Streams, Connect(p, c) PROVE SlotInv'
  <2> DEFINE t == page[p].turn
             left == Left(page[p].stream)
  <2>1. /\ stream[c].at = "new" /\ UNCHANGED <<answer, signals>> /\ t \in Turns
        /\ page[p].stream \in Streams \cup {NoStream}
    BY <1>9 DEF Connect, LogInv, LogTyped, PageStates
  <2>2. /\ left = [e \in Streams |-> left[e]]
        /\ \A e \in Streams : left[e].at = stream[e].at /\ left[e].turn = stream[e].turn
    <3>1. CASE page[p].stream = NoStream
      BY <1>a, <3>1 DEF Left
    <3>2. CASE page[p].stream # NoStream
      <4>1. left = [stream EXCEPT ![page[p].stream].wire = <<>>, ![page[p].stream].cut = TRUE]
        BY <3>2 DEF Left
      <4> HIDE DEF left
      <4>2. left = [e \in Streams |-> left[e]]
        BY <1>a, <4>1
      <4>3. ASSUME NEW e \in Streams PROVE left[e].at = stream[e].at /\ left[e].turn = stream[e].turn
        BY <1>a, <4>1 DEF StreamStates
      <4> QED BY <4>2, <4>3
    <3> QED BY <3>1, <3>2
  <2>3. CASE Free(t)
    <3>1. /\ slots' = [total |-> slots.total + 1, turn |-> [slots.turn EXCEPT ![t] = @ + 1]]
          /\ stream' = [[left EXCEPT ![c].turn = t, ![c].cursor = page[p].cursor]
                          EXCEPT ![c].at = "admitted", ![c].leased = TRUE]
      BY <1>9, <2>3 DEF Connect
    <3>2. OnlyHolder(c)
      <4> HIDE DEF left
      <4> QED BY <2>2, <3>1 DEF OnlyHolder
    <3>3. stream'[c].at = "admitted" /\ stream'[c].turn = t
      <4>1. left[c] = stream[c]
        <5>1. page[p].stream # c \/ c = NoStream
          BY <2>1 DEF LogInv, WireGood
        <5> QED BY <1>a, <2>1, <5>1 DEF Left
      <4> HIDE DEF left
      <4> QED BY <1>a, <2>2, <3>1, <4>1 DEF StreamStates
    <3>4. SlotsCounted'
      BY <1>b, <2>1, <3>1, <3>2, <3>3, SlotTaken DEF Occupied
    <3>5. \A u \in signals : slots'.turn[u] = slots.turn[u] \/ slots'.turn[u] > 0
      BY <1>b, <2>1, <3>1 DEF SlotsCounted, SlotInv
    <3> QED BY <1>4, <2>1, <3>4, <3>5 DEF SlotInv
  <2>4. CASE ~Free(t)
    <3>1. /\ UNCHANGED slots
          /\ stream' = [left EXCEPT ![c] = [Unused EXCEPT !.at = "closed", !.cut = TRUE]]
      BY <1>9, <2>4 DEF Connect
    <3>2. OnlyHolder(c) /\ stream'[c].at = "closed"
      <4> HIDE DEF left
      <4> QED BY <2>2, <3>1 DEF OnlyHolder, Unused
    <3>3. SlotsCounted'
      BY <1>b, <2>1, <3>1, <3>2, SlotKept DEF Occupied
    <3> QED BY <1>5, <2>1, <3>1, <3>3
  <2> QED BY <2>3, <2>4
<1>10. ASSUME NEW p \in Pages, NEW c \in Streams, Receive(p, c) \/ Break(p, c) \/ Done(p, c) PROVE SlotInv'
  <2>1. UNCHANGED <<answer, signals, slots>>
    BY <1>10 DEF Receive, Break, Done
  <2>2. OnlyHolder(c) /\ stream'[c].at = stream[c].at /\ stream'[c].turn = stream[c].turn
    BY <1>10, <1>a DEF Receive, Break, Done, Left, OnlyHolder, StreamStates
  <2> QED BY <1>5, <1>b, <2>1, <2>2, SlotKept
<1>11. ASSUME UNCHANGED streamVars PROVE SlotInv'
  BY <1>11, <1>1 DEF streamVars, Used, Working
<1> QED BY <1>2, <1>3, <1>6, <1>7, <1>8, <1>9, <1>10, <1>11 DEF StreamNext

LEMMA SlotsStart == ASSUME StreamInit PROVE SlotInv
<1>1. AllHeld = {} /\ \A t \in Turns : OnTurn(t) = {}
  BY DEF StreamInit, AllHeld, OnTurn, Unused, Occupied
<1>2. slots = [total |-> 0, turn |-> [t \in Turns |-> 0]] /\ signals = {}
  BY DEF StreamInit
<1> QED BY <1>1, <1>2, FS_EmptySet DEF SlotInv, SlotsCounted

LEMMA StreamSlots == ASSUME LogInv, SlotInv PROVE SlotsAreExact
<1> DEFINE Held(t) == {c \in Streams : stream[c].at \in {"admitted", "opened", "body"} /\ stream[c].turn = t}
<1>1. \A t : Held(t) = OnTurn(t)
  BY DEF OnTurn, AllHeld, Occupied
<1>2. UNION {OnTurn(t) : t \in Turns} = AllHeld
  BY DEF OnTurn, AllHeld, LogInv, StreamGood
<1>3. UNION {Held(t) : t \in Turns} = AllHeld
  <2>1. {Held(t) : t \in Turns} = {OnTurn(t) : t \in Turns}
    BY <1>1
  <2> QED BY <1>2, <2>1
<1> HIDE DEF Held
<1>4. /\ \A t \in Turns : slots.turn[t] = Cardinality(Held(t))
      /\ slots.total = Cardinality(UNION {Held(t) : t \in Turns})
      /\ \A t \in signals : Working(t) \/ slots.turn[t] > 0
  BY <1>1, <1>3 DEF SlotInv, SlotsCounted, Used
<1> QED BY <1>4 DEF SlotsAreExact, Held

(* For any turns, pages and connections, however the provider, the store, *)
(* the wire and the pages fail: the events of a turn have the model's *)
(* pieces in order and a completed turn has them all; a page has the *)
(* events of its turn from the first on, and all of them when a stream *)
(* ended that nobody cut; and the slots are counted exactly (streaming.py, *)
(* Store.replay, main.py events, resource_limits.py, EventLog.add). *)
THEOREM ReadersSeeTheAnswer ==
  ASSUME TurnStreamAssumption
  PROVE  StreamSpec => []StreamHolds
<1>1. StreamInit => AnswerInv /\ LogInv /\ SlotInv
  BY AnswerStarts, LogStarts, SlotsStart
<1>2. AnswerInv /\ LogInv /\ SlotInv /\ [StreamNext]_streamVars => (AnswerInv /\ LogInv /\ SlotInv)'
  BY AnswerStep, LogStep, SlotStep
<1>3. AnswerInv /\ LogInv /\ SlotInv => StreamHolds
  BY AnswersWhole, LogsArePrefixes, StreamSlots DEF StreamHolds
<1> QED BY <1>1, <1>2, <1>3, PTL DEF StreamSpec

(* The numbers of the pieces, and the limits on the streams. *)
PiecesFit ==
  \A t \in Turns : /\ model[t].sent <= MaxPieces
                    /\ answer[t].buffer \subseteq 1..answer[t].taken

SlotsFit ==
  /\ slots.total <= StreamTotal
  /\ \A t \in Turns : slots.turn[t] <= StreamPerTurn

LEMMA PiecesStep ==
  ASSUME TurnStreamAssumption, AnswerInv, PiecesFit, [StreamNext]_streamVars
  PROVE  PiecesFit'
<1>1. /\ model \in [Turns -> ModelStates] /\ answer \in [Turns -> AnswerStates] /\ MaxPieces \in Nat
      /\ \A t \in Turns : /\ model[t].sent \in Nat /\ answer[t].taken \in Nat
                          /\ answer[t] \in AnswerStates
  BY DEF AnswerInv, ModelStates, AnswerStates, TurnStreamAssumption
<1>2. CASE UNCHANGED <<model, answer>>
  BY <1>2 DEF PiecesFit
<1>3. ASSUME NEW t \in Turns, Send(t) \/ \E how \in {"stop", "length", "error"} : ModelEnds(t, how)
      PROVE  PiecesFit'
  <2>1. UNCHANGED answer
    BY <1>3 DEF Send, ModelEnds
  <2>2. \A u \in Turns : model'[u].sent = model[u].sent
                         \/ (model'[u].sent = model[u].sent + 1 /\ model[u].sent < MaxPieces)
    <3>1. CASE Send(t)
      BY <1>1, <3>1 DEF Send, ModelStates
    <3>2. CASE \E how \in {"stop", "length", "error"} : ModelEnds(t, how)
      BY <1>1, <3>2 DEF ModelEnds, ModelStates
    <3> QED BY <1>3, <3>1, <3>2
  <2>3. \A u \in Turns : model'[u].sent <= MaxPieces
    BY <1>1, <2>2 DEF PiecesFit
  <2> QED BY <2>1, <2>3 DEF PiecesFit
<1>4. ASSUME NEW t \in Turns, UNCHANGED model,
             \A u \in Turns : u # t => answer'[u] = answer[u],
             \/ answer'[t].buffer = answer[t].buffer /\ answer'[t].taken = answer[t].taken
             \/ answer'[t].buffer = {}
             \/ /\ answer'[t].buffer = answer[t].buffer \cup {answer[t].taken + 1}
                /\ answer'[t].taken = answer[t].taken + 1
      PROVE  PiecesFit'
  <2>1. answer'[t].buffer \subseteq 1..answer'[t].taken
    BY <1>1, <1>4 DEF PiecesFit
  <2> QED BY <1>4, <2>1 DEF PiecesFit
<1>5. ASSUME NEW t \in Turns, Take(t) PROVE PiecesFit'
  <2>1. /\ UNCHANGED model /\ \A u \in Turns : u # t => answer'[u] = answer[u]
        /\ answer'[t].buffer = answer[t].buffer \cup {answer[t].taken + 1}
        /\ answer'[t].taken = answer[t].taken + 1
    BY <1>1, <1>5 DEF Take, AnswerStates
  <2> QED BY <1>4, <2>1
<1>6. ASSUME NEW t \in Turns, Flush(t) \/ Forget(t) PROVE PiecesFit'
  <2>1. UNCHANGED model /\ \A u \in Turns : u # t => answer'[u] = answer[u]
    BY <1>1, <1>6 DEF Flush, Forget
  <2>2. CASE Flush(t)
    BY <1>1, <2>1, <2>2, <1>4 DEF Flush, AnswerStates
  <2>3. CASE Forget(t)
    <3>1. answer'[t] = [Begun EXCEPT !.at = "gone"]
      BY <1>1, <2>3 DEF Forget
    <3>2. answer'[t].buffer = {}
      BY <3>1 DEF Begun
    <3> QED BY <2>1, <3>2, <1>4
  <2> QED BY <1>6, <2>2, <2>3
<1>7. ASSUME NEW t \in Turns, FlushDue(t) \/ FlushFails(t) \/ Close(t) \/ Deadline(t) \/ Finish(t)
                               \/ FinishFails(t) \/ Cancel(t)
      PROVE  PiecesFit'
  <2>1. /\ UNCHANGED model /\ \A u \in Turns : u # t => answer'[u] = answer[u]
        /\ answer'[t].buffer = answer[t].buffer /\ answer'[t].taken = answer[t].taken
    BY <1>1, <1>7 DEF FlushDue, FlushFails, Close, Deadline, Finish, FinishFails, Cancel, AnswerStates
  <2> QED BY <1>4, <2>1
<1>8. ASSUME NEW t \in Turns, Recover(t) PROVE UNCHANGED <<model, answer>>
  BY <1>8 DEF Recover
<1>9. ASSUME NEW c \in Streams, \/ Open(c) \/ Refuse(c) \/ Start(c) \/ Yield(c) \/ ReadAgain(c)
                                \/ EndResponse(c) \/ \E cut \in BOOLEAN : EndBody(c, cut)
      PROVE  UNCHANGED <<model, answer>>
  BY <1>9 DEF Open, Refuse, Start, Yield, ReadAgain, EndResponse, EndBody
<1>10. ASSUME NEW p \in Pages, NEW c \in Streams, Connect(p, c) \/ Receive(p, c) \/ Break(p, c) \/ Done(p, c)
       PROVE  UNCHANGED <<model, answer>>
  BY <1>10 DEF Connect, Receive, Break, Done
<1>11. CASE UNCHANGED streamVars
  BY <1>2, <1>11 DEF streamVars
<1> QED BY <1>2, <1>3, <1>5, <1>6, <1>7, <1>8, <1>9, <1>10, <1>11 DEF StreamNext

LEMMA LimitsStep ==
  ASSUME TurnStreamAssumption, LogInv, SlotInv, SlotsFit, [StreamNext]_streamVars
  PROVE  SlotsFit'
<1>1. /\ slots \in [total : Nat, turn : [Turns -> Nat]] /\ {StreamTotal, StreamPerTurn} \subseteq Nat
      /\ \A p \in Pages : page[p].turn \in Turns
  BY DEF SlotInv, SlotsCounted, TurnStreamAssumption, LogInv, LogTyped, PageStates
<1>2. CASE UNCHANGED slots
  BY <1>2 DEF SlotsFit
<1>3. ASSUME NEW c \in Streams, slots' = Released(c) PROVE SlotsFit'
  <2>1. slots'.total \in {slots.total, slots.total - 1}
    BY <1>1, <1>3 DEF Released
  <2>2. \A t \in Turns : slots'.turn[t] \in {slots.turn[t], slots.turn[t] - 1}
    BY <1>1, <1>3 DEF Released
  <2>3. \A t \in Turns : slots.turn[t] \in Nat /\ slots.total \in Nat
    BY <1>1
  <2> QED BY <1>1, <2>1, <2>2, <2>3 DEF SlotsFit
<1>4. ASSUME NEW p \in Pages, NEW c \in Streams, Connect(p, c) PROVE SlotsFit'
  <2> DEFINE t == page[p].turn
  <2>1. \/ UNCHANGED slots
        \/ /\ Free(t)
           /\ slots' = [total |-> slots.total + 1, turn |-> [slots.turn EXCEPT ![t] = @ + 1]]
    BY <1>4 DEF Connect
  <2>2. t \in Turns /\ slots.total \in Nat /\ \A u \in Turns : slots.turn[u] \in Nat
    BY <1>1
  <2> HIDE DEF t
  <2>3. CASE /\ Free(t)
             /\ slots' = [total |-> slots.total + 1, turn |-> [slots.turn EXCEPT ![t] = @ + 1]]
    <3>1. slots'.total = slots.total + 1 /\ slots.total < StreamTotal /\ slots.turn[t] < StreamPerTurn
      BY <2>3 DEF Free
    <3>2. \A u \in Turns : slots'.turn[u] = IF u = t THEN slots.turn[u] + 1 ELSE slots.turn[u]
      BY <1>1, <2>3
    <3>3. \A u \in Turns : slots'.turn[u] <= StreamPerTurn
      BY <1>1, <2>2, <3>1, <3>2 DEF SlotsFit
    <3>4. slots'.total <= StreamTotal
      BY <1>1, <2>2, <3>1
    <3> QED BY <3>3, <3>4 DEF SlotsFit
  <2> QED BY <1>2, <2>1, <2>3
<1>5. ASSUME NEW c \in Streams, Refuse(c) \/ EndResponse(c) \/ \E cut \in BOOLEAN : EndBody(c, cut)
      PROVE  slots' = Released(c)
  BY <1>5 DEF Refuse, EndResponse, EndBody
<1>6. ASSUME NEW c \in Streams, Open(c) \/ Start(c) \/ Yield(c) \/ ReadAgain(c) PROVE UNCHANGED slots
  BY <1>6 DEF Open, Start, Yield, ReadAgain
<1>7. ASSUME NEW p \in Pages, NEW c \in Streams, Receive(p, c) \/ Break(p, c) \/ Done(p, c)
      PROVE  UNCHANGED slots
  BY <1>7 DEF Receive, Break, Done
<1>8. ASSUME NEW t \in Turns,
             \/ Send(t) \/ Take(t) \/ FlushDue(t) \/ Flush(t) \/ FlushFails(t) \/ Close(t) \/ Deadline(t)
             \/ Finish(t) \/ FinishFails(t) \/ Forget(t) \/ Cancel(t) \/ Recover(t)
             \/ \E how \in {"stop", "length", "error"} : ModelEnds(t, how)
      PROVE  UNCHANGED slots
  BY <1>8 DEF Send, Take, FlushDue, Flush, FlushFails, Close, Deadline, Finish, FinishFails, Forget,
              Cancel, Recover, ModelEnds
<1>9. CASE UNCHANGED streamVars
  BY <1>2, <1>9 DEF streamVars
<1> QED BY <1>2, <1>3, <1>4, <1>5, <1>6, <1>7, <1>8, <1>9 DEF StreamNext

(* The answer and its streams keep to their types, the streams to their *)
(* limits. *)
THEOREM StreamTypes ==
  ASSUME TurnStreamAssumption
  PROVE  StreamSpec => []StreamTypeOK
<1>1. StreamInit => AnswerInv /\ LogInv /\ SlotInv
  BY AnswerStarts, LogStarts, SlotsStart
<1>2. AnswerInv /\ LogInv /\ SlotInv /\ [StreamNext]_streamVars => (AnswerInv /\ LogInv /\ SlotInv)'
  BY AnswerStep, LogStep, SlotStep
<1>3. StreamInit => PiecesFit /\ SlotsFit
  BY DEF StreamInit, PiecesFit, SlotsFit, Begun, TurnStreamAssumption
<1>4. AnswerInv /\ LogInv /\ SlotInv /\ PiecesFit /\ SlotsFit /\ [StreamNext]_streamVars
        => (PiecesFit /\ SlotsFit)'
  BY PiecesStep, LimitsStep
<1>5. AnswerInv /\ LogInv /\ SlotInv /\ PiecesFit /\ SlotsFit => StreamTypeOK
  <2> SUFFICES ASSUME AnswerInv, LogInv, SlotInv, PiecesFit, SlotsFit PROVE StreamTypeOK
    OBVIOUS
  <2>1. {MaxPieces, StreamTotal, StreamPerTurn} \subseteq Nat
    BY DEF TurnStreamAssumption
  <2>2. \A t \in Turns : /\ model[t].sent \in 0..MaxPieces
                         /\ model[t].end \in {"open", "stop", "length", "error"}
                         /\ answer[t].taken \in 0..model[t].sent
                         /\ answer[t].buffer \subseteq 1..answer[t].taken
                         /\ answer[t].at \in {"gather", "flush", "finish", "ran", "cancelled", "gone"}
    BY <2>1 DEF AnswerInv, AnswerGood, PiecesFit, ModelStates, AnswerStates
  <2>3. slots.total \in 0..StreamTotal /\ \A t \in Turns : slots.turn[t] \in 0..StreamPerTurn
    BY <2>1 DEF SlotInv, SlotsCounted, SlotsFit
  <2>4. signals \subseteq Turns
    BY DEF SlotInv
  <2>5. /\ \A c \in Streams : /\ stream[c].at \in {"new", "admitted", "opened", "body", "ending", "closed"}
                               /\ stream[c].turn \in Turns \cup {NoStream}
        /\ \A p \in Pages : page[p].stream \in Streams \cup {NoStream}
    BY DEF LogInv, LogTyped, StreamStates, PageStates
  <2> QED BY <2>2, <2>3, <2>4, <2>5 DEF StreamTypeOK
<1> QED BY <1>1, <1>2, <1>3, <1>4, <1>5, PTL DEF StreamSpec

-----------------------------------------------------------------------------
(* CredentialFile: the deployment's value never comes back, a confirmed *)
(* save survives, and of two saves against one revision one gets through. *)

Hashing == {"mark", "markSync", "replace", "undone", "sync"}

SaveRow ==
    [at : {"lock"} \cup Hashing, expected : Revisions \cup {NoRecord}, confirm : BOOLEAN,
     made : BOOLEAN, revision : 0..MaxRevisions]

SecretTyped ==
    /\ CredentialTypeOK
    /\ damage \in Nat
    /\ save \in [Writers -> {NoSave} \cup SaveRow]

(* One save works under the lock, and with the last revision given out. *)
(* It wrote the marker only if no save was confirmed, and what it replaces *)
(* is what its page was shown, or gone. *)
UnderLock ==
    \A w \in Writers :
        /\ save[w].at = "lock" => ~save[w].made
        /\ save[w].at \in Hashing =>
             /\ holder = w
             /\ save[w].revision = written /\ written \in Revisions
             /\ save[w].at \in {"markSync", "replace", "sync"} => marker
             /\ save[w].made => ~seen
             /\ (save[w].at \in {"mark", "markSync", "replace"} /\ record \in Revisions) =>
                   save[w].expected = record

(* What the disk may hold keeps both promises as well. *)
DiskKeeps ==
    /\ seen => marker /\ \A d \in onDisk : d.marker
    /\ record \in Revisions => record =< written
    /\ confirmed # NoRecord =>
          /\ record \in Revisions /\ confirmed =< record
          /\ \A d \in onDisk : d.record \in Revisions /\ confirmed =< d.record
    /\ \A d \in onDisk : d.record \in Revisions => d.record =< written

SecretInv == SecretTyped /\ UnderLock /\ DiskKeeps

LEMMA WorkingRow ==
    ASSUME SecretTyped, NEW w \in Writers, save[w].at \in {"lock"} \cup Hashing
    PROVE  save[w] \in SaveRow
  <1>1. save[w] \in {NoSave} \cup SaveRow
    BY DEF SecretTyped
  <1>2. NoSave.at = "idle"
    BY DEF NoSave
  <1> QED
    BY <1>1, <1>2 DEF Hashing

LEMMA RowTo ==
    ASSUME NEW r \in SaveRow, NEW s \in {"lock"} \cup Hashing
    PROVE  /\ [r EXCEPT !.at = s] \in SaveRow
           /\ [r EXCEPT !.at = s].at = s
           /\ [r EXCEPT !.at = s].expected = r.expected
           /\ [r EXCEPT !.at = s].made = r.made
           /\ [r EXCEPT !.at = s].revision = r.revision
  BY DEF SaveRow

(* A step of one save: the others are where they were. *)
LEMMA OneSaves ==
    ASSUME SecretTyped, NEW w \in Writers, NEW row \in {NoSave} \cup SaveRow,
           save' = [save EXCEPT ![w] = row]
    PROVE  /\ save' \in [Writers -> {NoSave} \cup SaveRow]
           /\ save'[w] = row
           /\ \A v \in Writers : v # w => save'[v] = save[v]
  BY DEF SecretTyped

LEMMA SavesTyped ==
    ASSUME NEW s \in [Writers -> {NoSave} \cup SaveRow]
    PROVE  \A w \in Writers : s[w].at \in
              {"idle", "lock", "mark", "markSync", "replace", "undone", "sync"}
  <1>1. NoSave.at = "idle"
    BY DEF NoSave
  <1>2. \A r \in SaveRow : r.at \in {"lock"} \cup Hashing
    BY DEF SaveRow
  <1> QED
    BY <1>1, <1>2 DEF Hashing

LEMMA SecretInit ==
    ASSUME CredentialAssumption, CredentialInit
    PROVE  SecretInv
  <1> DEFINE d0 == [record |-> NoRecord, marker |-> FALSE]
  <1>1. d0 \in Directory /\ d0.record = NoRecord /\ d0.marker = FALSE
    BY DEF Directory, Records
  <1>2. onDisk = {d0}
    BY DEF CredentialInit
  <1> HIDE DEF d0
  <1>3. NoSave.at = "idle"
    BY DEF NoSave
  <1>4. NoRecord \notin Revisions
    BY DEF CredentialAssumption, Revisions
  <1>5. SecretTyped
    <2>1. save \in [Writers -> {NoSave} \cup SaveRow]
      BY DEF CredentialInit
    <2>2. 0 \in 0..MaxRevisions /\ 0 \in Nat
      BY DEF CredentialAssumption
    <2>3. CredentialTypeOK
      BY <1>1, <1>2, <2>1, <2>2, SavesTyped DEF CredentialTypeOK, CredentialInit, Records
    <2> QED
      BY <2>1, <2>2, <2>3 DEF SecretTyped, CredentialInit
  <1>6. UnderLock
    BY <1>3 DEF UnderLock, CredentialInit, Hashing
  <1>7. DiskKeeps
    BY <1>1, <1>2, <1>4 DEF DiskKeeps, CredentialInit
  <1> QED
    BY <1>5, <1>6, <1>7 DEF SecretInv

(* Where no file changes and nothing is confirmed, the disk keeps what it *)
(* kept. *)
LEMMA DiskSame ==
    ASSUME SecretInv, CredentialAssumption, UNCHANGED <<files, confirmed, seen>>,
           written' \in Nat, written =< written'
    PROVE  DiskKeeps'
  <1>1. /\ \A r \in Revisions : r \in Nat
        /\ written \in Nat
    BY DEF SecretInv, SecretTyped, CredentialTypeOK, Revisions, CredentialAssumption
  <1> QED
    BY <1>1 DEF DiskKeeps, SecretInv, files

(* One save ends: the lock, if it was its, is free. *)
LEMMA OverKeeps ==
    ASSUME SecretInv, NEW w \in Writers, Over(w), CredentialAssumption,
           UNCHANGED <<marker, record, written>>,
           \A v \in Writers : v # w /\ save[v].at \in Hashing => seen' = seen
    PROVE  /\ save' \in [Writers -> {NoSave} \cup SaveRow]
           /\ holder' \in Writers \cup {NoSaver}
           /\ UnderLock'
  <1>1. /\ save' \in [Writers -> {NoSave} \cup SaveRow]
        /\ save'[w] = NoSave
        /\ \A v \in Writers : v # w => save'[v] = save[v]
    BY OneSaves, NoSave \in {NoSave} \cup SaveRow DEF Over, SecretInv
  <1>2. NoSave.at \notin Hashing
    BY DEF NoSave, Hashing
  <1>3. holder' \in Writers \cup {NoSaver}
    BY DEF Over, SecretInv, SecretTyped, CredentialTypeOK
  <1>4. ASSUME NEW v \in Writers, save'[v].at \in Hashing
        PROVE  v # w /\ save[v].at \in Hashing /\ save'[v] = save[v] /\ holder = v /\ holder' = v
    BY <1>1, <1>2, <1>4 DEF Over, SecretInv, UnderLock
  <1>5. UnderLock'
    <2>1. \A v \in Writers : save'[v].at = "lock" => ~save'[v].made
      BY <1>1, NoSave.at # "lock" DEF UnderLock, SecretInv, NoSave
    <2> QED
      BY <1>4, <2>1 DEF UnderLock, SecretInv
  <1> QED
    BY <1>1, <1>3, <1>5

LEMMA SecretUsage ==
    ASSUME CredentialAssumption, SecretInv,
           Call \/ \E revision \in Revisions : CallSucceeds(revision)
    PROVE  SecretInv'
  <1>1. UNCHANGED <<given, files, holder, save, written, confirmed, seen, damage>>
    BY DEF Call, CallSucceeds, given, files
  <1>2. calls' \subseteq Revisions /\ success' \in Revisions \cup {NoRecord}
    BY DEF Call, CallSucceeds, Counts, SecretInv, SecretTyped, CredentialTypeOK
  <1>3. SecretTyped'
    BY <1>1, <1>2 DEF SecretInv, SecretTyped, CredentialTypeOK, given, files
  <1>4. UnderLock'
    BY <1>1 DEF SecretInv, UnderLock, files
  <1>5. DiskKeeps'
    BY <1>1 DEF SecretInv, DiskKeeps, files
  <1> QED
    BY <1>3, <1>4, <1>5 DEF SecretInv

LEMMA SecretBegin ==
    ASSUME CredentialAssumption, SecretInv, NEW w \in Writers,
           NEW expected \in Revisions \cup {NoRecord}, NEW confirm \in BOOLEAN,
           Begin(w, expected, confirm)
    PROVE  SecretInv'
  <1> DEFINE row == [at |-> "lock", expected |-> expected, confirm |-> confirm,
                     made |-> FALSE, revision |-> 0]
  <1>1. row \in SaveRow /\ row.at = "lock" /\ row.made = FALSE
    BY DEF SaveRow, CredentialAssumption
  <1>2. save' = [save EXCEPT ![w] = row]
    BY DEF Begin
  <1> HIDE DEF row
  <1>3. /\ save' \in [Writers -> {NoSave} \cup SaveRow]
        /\ save'[w] = row
        /\ \A v \in Writers : v # w => save'[v] = save[v]
    BY <1>1, <1>2, OneSaves DEF SecretInv
  <1>4. UNCHANGED <<given, files, holder, written, confirmed, seen, usage, damage>>
    BY DEF Begin, quiet, files, given, usage
  <1>5. SecretTyped'
    BY <1>3, <1>4, SavesTyped DEF SecretInv, SecretTyped, CredentialTypeOK, given, files, usage
  <1>6. UnderLock'
    BY <1>1, <1>3, <1>4 DEF SecretInv, UnderLock, files, Hashing
  <1>7. DiskKeeps'
    BY <1>4 DEF SecretInv, DiskKeeps, files
  <1> QED
    BY <1>5, <1>6, <1>7 DEF SecretInv

(* A save that only gives up leaves files and promises alone. *)
LEMMA SecretOver ==
    ASSUME CredentialAssumption, SecretInv, NEW w \in Writers, Over(w),
           UNCHANGED <<given, files, written, confirmed, seen, usage, damage>>
    PROVE  SecretInv'
  <1>1. /\ save' \in [Writers -> {NoSave} \cup SaveRow]
        /\ holder' \in Writers \cup {NoSaver}
        /\ UnderLock'
    BY OverKeeps DEF files
  <1>2. SecretTyped'
    BY <1>1, SavesTyped DEF SecretInv, SecretTyped, CredentialTypeOK, given, files, usage
  <1>3. DiskKeeps'
    BY DEF SecretInv, DiskKeeps, files
  <1> QED
    BY <1>1, <1>2, <1>3 DEF SecretInv

LEMMA SecretLock ==
    ASSUME CredentialAssumption, SecretInv, NEW w \in Writers, Lock(w)
    PROVE  SecretInv'
  <1>1. UNCHANGED <<given, files, confirmed, seen, usage, damage>>
    BY DEF Lock, quiet, given, files, usage
  <1>2. CASE Over(w) /\ UNCHANGED written
    BY <1>1, <1>2, SecretOver
  <1>3. CASE /\ Unchanged(w) /\ written < MaxRevisions /\ holder = NoSaver
             /\ holder' = w /\ written' = written + 1
             /\ save' = [save EXCEPT ![w].at = "mark", ![w].revision = written + 1]
    <2> DEFINE row == [save[w] EXCEPT !.at = "mark", !.revision = written + 1]
    <2>1. save[w] \in SaveRow
      BY WorkingRow DEF Lock, SecretInv
    <2>2. written \in Nat /\ written + 1 \in Revisions /\ written + 1 \in 0..MaxRevisions
      BY <1>3 DEF SecretInv, SecretTyped, CredentialTypeOK, CredentialAssumption, Revisions
    <2>3. row \in SaveRow /\ row.at = "mark" /\ row.revision = written + 1
      BY <2>1, <2>2 DEF SaveRow, Hashing
    <2>4. row.expected = save[w].expected /\ row.made = save[w].made
      BY <2>1 DEF SaveRow
    <2>5. save' = [save EXCEPT ![w] = row]
      BY <1>3
    <2> HIDE DEF row
    <2>6. /\ save' \in [Writers -> {NoSave} \cup SaveRow]
          /\ save'[w] = row
          /\ \A v \in Writers : v # w => save'[v] = save[v]
      BY <2>3, <2>5, OneSaves DEF SecretInv
    <2>7. SecretTyped'
      BY <1>1, <1>3, <2>2, <2>6, SavesTyped
      DEF SecretInv, SecretTyped, CredentialTypeOK, given, files, usage
    <2>8. \A v \in Writers : v # w => save'[v].at \notin Hashing
      BY <1>3, <2>6 DEF SecretInv, UnderLock, CredentialAssumption
    <2>9. row.made = FALSE /\ (record \in Revisions => row.expected = record)
      BY <2>4, <1>3 DEF SecretInv, UnderLock, Unchanged, Lock
    <2>10. UnderLock'
      <3>1. \A v \in Writers : v # w /\ save'[v].at = "lock" => ~save'[v].made
        BY <2>6 DEF SecretInv, UnderLock
      <3>2. row.at # "lock" /\ written' = row.revision /\ written' \in Revisions
        BY <1>3, <2>2, <2>3
      <3>3. record' \in Revisions => row.expected = record'
        BY <1>1, <2>9 DEF files
      <3> QED
        BY <1>3, <2>3, <2>6, <2>8, <2>9, <3>1, <3>2, <3>3 DEF UnderLock
    <2>11. DiskKeeps'
      BY <1>1, <1>3, <2>2, DiskSame
    <2> QED
      BY <2>7, <2>10, <2>11 DEF SecretInv
  <1> QED
    BY <1>2, <1>3 DEF Lock

(* The files change under the lock: the new directory is one more of those *)
(* the disk may hold. *)
LEMMA ChangedFiles ==
    ASSUME CredentialAssumption, SecretInv, NEW new \in Records, NEW mark \in BOOLEAN,
           Changed(new, mark)
    PROVE  /\ record' = new /\ marker' = mark
           /\ onDisk' \subseteq Directory /\ onDisk' # {}
           /\ \A d \in onDisk' : d \in onDisk \/ (d.record = new /\ d.marker = mark)
  <1> DEFINE entries == [record |-> new, marker |-> mark]
  <1>1. entries \in Directory /\ entries.record = new /\ entries.marker = mark
    BY DEF Directory
  <1>2. record' = new /\ marker' = mark /\ onDisk' = onDisk \cup {entries}
    BY DEF Changed
  <1> HIDE DEF entries
  <1> QED
    BY <1>1, <1>2 DEF SecretInv, SecretTyped, CredentialTypeOK

LEMMA SynchronisedDisk ==
    ASSUME SecretInv, Synchronised
    PROVE  /\ onDisk' \subseteq Directory /\ onDisk' # {}
           /\ \A d \in onDisk' : d.record = record /\ d.marker = marker
  <1> DEFINE entries == [record |-> record, marker |-> marker]
  <1>1. entries \in Directory /\ entries.record = record /\ entries.marker = marker
    BY DEF Directory, SecretInv, SecretTyped, CredentialTypeOK
  <1>2. onDisk' = {entries}
    BY DEF Synchronised
  <1> HIDE DEF entries
  <1> QED
    BY <1>1, <1>2

(* A step of the save that has the lock, to another place of _save: what *)
(* it does to the files and to its row is a hypothesis of each. *)
LEMMA SecretMoves ==
    ASSUME CredentialAssumption, SecretInv, NEW w \in Writers, NEW row \in SaveRow,
           save[w].at \in Hashing, save' = [save EXCEPT ![w] = row],
           row.at \in Hashing, row.revision = written,
           row.at \in {"markSync", "replace", "sync"} => marker',
           row.made => ~seen,
           (row.at \in {"mark", "markSync", "replace"} /\ record' \in Revisions) =>
                row.expected = record',
           UNCHANGED <<given, holder, written, confirmed, seen, usage, damage>>,
           record' \in Records, marker' \in BOOLEAN,
           onDisk' \subseteq Directory, onDisk' # {}, DiskKeeps'
    PROVE  SecretInv'
  <1>1. /\ save' \in [Writers -> {NoSave} \cup SaveRow]
        /\ save'[w] = row
        /\ \A v \in Writers : v # w => save'[v] = save[v]
    BY OneSaves DEF SecretInv
  <1>2. SecretTyped'
    BY <1>1, SavesTyped DEF SecretInv, SecretTyped, CredentialTypeOK, given, usage
  <1>3. \A v \in Writers : v # w => save'[v].at \notin Hashing
    BY <1>1 DEF SecretInv, UnderLock
  <1>4. holder = w /\ written \in Revisions
    BY DEF SecretInv, UnderLock
  <1>5. row.at # "lock"
    BY DEF Hashing
  <1>6. \A v \in Writers : v # w /\ save'[v].at = "lock" => ~save'[v].made
    BY <1>1 DEF SecretInv, UnderLock
  <1>7. UnderLock'
    BY <1>1, <1>3, <1>4, <1>5, <1>6 DEF UnderLock
  <1> QED
    BY <1>2, <1>7 DEF SecretInv

LEMMA SecretMark ==
    ASSUME CredentialAssumption, SecretInv, NEW w \in Writers, Mark(w)
    PROVE  SecretInv'
  <1> DEFINE moved == [save[w] EXCEPT !.at = "replace"]
             marked == [save[w] EXCEPT !.at = "markSync", !.made = TRUE]
  <1>1. save[w] \in SaveRow /\ save[w].at = "mark" /\ save[w].at \in Hashing
    BY WorkingRow DEF Mark, SecretInv, Hashing
  <1>2. UNCHANGED <<given, holder, written, confirmed, seen, usage, damage>>
    BY DEF Mark, quiet, given, usage
  <1>3. /\ moved \in SaveRow /\ moved.at = "replace" /\ moved.expected = save[w].expected
        /\ moved.made = save[w].made /\ moved.revision = save[w].revision
    BY <1>1, RowTo DEF Hashing
  <1>4. /\ marked \in SaveRow /\ marked.at = "markSync" /\ marked.made = TRUE
        /\ marked.revision = save[w].revision /\ marked.expected = save[w].expected
    BY <1>1 DEF SaveRow, Hashing
  <1>5. marker => save' = [save EXCEPT ![w] = moved] /\ UNCHANGED files
    BY DEF Mark, To
  <1>6. ~marker => save' = [save EXCEPT ![w] = marked] /\ Changed(record, TRUE)
    BY DEF Mark
  <1> HIDE DEF moved, marked
  <1>7. /\ save[w].revision = written /\ (save[w].made => ~seen)
        /\ (record \in Revisions => save[w].expected = record)
        /\ written \in Nat
    BY <1>1 DEF SecretInv, UnderLock, Revisions
  <1>8. CASE marker
    <2>1. DiskKeeps'
      BY <1>2, <1>5, <1>7, <1>8, DiskSame
    <2>2. /\ record' \in Records /\ marker' \in BOOLEAN
          /\ onDisk' \subseteq Directory /\ onDisk' # {}
      BY <1>5, <1>8 DEF files, SecretInv, SecretTyped, CredentialTypeOK
    <2>3. marker' /\ record' = record
      BY <1>5, <1>8 DEF files
    <2> QED
      BY <1>1, <1>2, <1>3, <1>5, <1>7, <1>8, <2>1, <2>2, <2>3, SecretMoves DEF Hashing
  <1>9. CASE ~marker
    <2>1. record \in Records
      BY DEF SecretInv, SecretTyped, CredentialTypeOK
    <2>2. /\ record' = record /\ marker' = TRUE
          /\ onDisk' \subseteq Directory /\ onDisk' # {}
          /\ \A d \in onDisk' : d \in onDisk \/ (d.record = record /\ d.marker = TRUE)
      BY <1>6, <1>9, <2>1, ChangedFiles
    <2>3. ~seen
      BY <1>9 DEF SecretInv, DiskKeeps
    <2>4. DiskKeeps'
      BY <1>2, <2>2, <2>3 DEF DiskKeeps, SecretInv
    <2> QED
      BY <1>1, <1>2, <1>4, <1>6, <1>7, <1>9, <2>1, <2>2, <2>3, <2>4, SecretMoves DEF Hashing
  <1> QED
    BY <1>8, <1>9

LEMMA SecretMarkSync ==
    ASSUME CredentialAssumption, SecretInv, NEW w \in Writers, MarkSync(w)
    PROVE  SecretInv'
  <1> DEFINE moved == [save[w] EXCEPT !.at = "replace"]
  <1>1. save[w] \in SaveRow /\ save[w].at = "markSync" /\ save[w].at \in Hashing
    BY WorkingRow DEF MarkSync, SecretInv, Hashing
  <1>2. UNCHANGED <<given, holder, written, confirmed, seen, usage, damage, record, marker>>
    BY DEF MarkSync, quiet, given, usage
  <1>3. /\ moved \in SaveRow /\ moved.at = "replace" /\ moved.expected = save[w].expected
        /\ moved.made = save[w].made /\ moved.revision = save[w].revision
    BY <1>1, RowTo DEF Hashing
  <1>4. save' = [save EXCEPT ![w] = moved]
    BY DEF MarkSync, To
  <1> HIDE DEF moved
  <1>5. /\ save[w].revision = written /\ (save[w].made => ~seen) /\ marker
        /\ (record \in Revisions => save[w].expected = record)
    BY <1>1 DEF SecretInv, UnderLock
  <1>6. /\ onDisk' \subseteq Directory /\ onDisk' # {}
        /\ \A d \in onDisk' : d.record = record /\ d.marker = marker
    BY SynchronisedDisk DEF MarkSync
  <1>7. DiskKeeps'
    BY <1>2, <1>5, <1>6 DEF DiskKeeps, SecretInv
  <1>8. record' \in Records /\ marker' \in BOOLEAN
    BY <1>2 DEF SecretInv, SecretTyped, CredentialTypeOK
  <1> QED
    BY <1>1, <1>2, <1>3, <1>4, <1>5, <1>6, <1>7, <1>8, SecretMoves DEF Hashing

LEMMA SecretReplace ==
    ASSUME CredentialAssumption, SecretInv, NEW w \in Writers, Replace(w)
    PROVE  SecretInv'
  <1> DEFINE moved == [save[w] EXCEPT !.at = "sync"]
  <1>1. save[w] \in SaveRow /\ save[w].at = "replace" /\ save[w].at \in Hashing
    BY WorkingRow DEF Replace, SecretInv, Hashing
  <1>2. UNCHANGED <<given, holder, written, confirmed, seen, usage, damage>>
    BY DEF Replace, quiet, given, usage
  <1>3. /\ moved \in SaveRow /\ moved.at = "sync" /\ moved.expected = save[w].expected
        /\ moved.made = save[w].made /\ moved.revision = save[w].revision
    BY <1>1, RowTo DEF Hashing
  <1>4. save' = [save EXCEPT ![w] = moved]
    BY DEF Replace, To
  <1> HIDE DEF moved
  <1>5. save[w].revision = written /\ (save[w].made => ~seen) /\ marker /\ written \in Revisions
    BY <1>1 DEF SecretInv, UnderLock
  <1>6. written \in Records /\ Changed(written, marker) /\ marker \in BOOLEAN
    BY <1>5 DEF Records, Replace, SecretInv, SecretTyped, CredentialTypeOK
  <1>7. /\ record' = written /\ marker' = marker
        /\ onDisk' \subseteq Directory /\ onDisk' # {}
        /\ \A d \in onDisk' : d \in onDisk \/ (d.record = written /\ d.marker = marker)
    BY <1>6, ChangedFiles
  <1>8. DiskKeeps'
    <2>1. \A r \in Revisions : r \in Nat
      BY DEF Revisions
    <2>2. confirmed # NoRecord => confirmed \in Revisions /\ confirmed =< written
      <3> SUFFICES ASSUME confirmed # NoRecord
                   PROVE  confirmed \in Revisions /\ confirmed =< written
        OBVIOUS
      <3>1. confirmed \in Revisions /\ record \in Revisions
        BY DEF SecretInv, SecretTyped, CredentialTypeOK, DiskKeeps
      <3>2. confirmed =< record /\ record =< written
        BY <3>1 DEF SecretInv, DiskKeeps
      <3> QED
        BY <3>1, <3>2, <1>5, <2>1
    <2>3. (seen => marker)' /\ (seen => \A d \in onDisk : d.marker)'
      BY <1>2, <1>7 DEF DiskKeeps, SecretInv
    <2>4. written =< written
      BY <1>5, <2>1
    <2>5. (confirmed # NoRecord =>
             /\ record \in Revisions /\ confirmed =< record
             /\ \A d \in onDisk : d.record \in Revisions /\ confirmed =< d.record)'
      BY <1>2, <1>5, <1>7, <2>2 DEF DiskKeeps, SecretInv
    <2>6. (\A d \in onDisk : d.record \in Revisions => d.record =< written)'
      BY <1>2, <1>7, <2>4 DEF DiskKeeps, SecretInv
    <2> QED
      BY <1>2, <1>7, <2>3, <2>4, <2>5, <2>6 DEF DiskKeeps
  <1> QED
    BY <1>1, <1>2, <1>3, <1>4, <1>5, <1>6, <1>7, <1>8, SecretMoves DEF Hashing

LEMMA SecretFails ==
    ASSUME CredentialAssumption, SecretInv, NEW w \in Writers, Fails(w)
    PROVE  SecretInv'
  <1> DEFINE moved == [save[w] EXCEPT !.at = "undone"]
  <1>1. save[w] \in SaveRow /\ save[w].at \in Hashing
    BY WorkingRow DEF Fails, SecretInv, Hashing
  <1>2. UNCHANGED <<given, written, confirmed, seen, usage, damage>>
    BY DEF Fails, quiet, given, usage
  <1>3. CASE Over(w) /\ UNCHANGED files
    BY <1>2, <1>3, SecretOver
  <1>4. CASE TakesBack(w) /\ Changed(record, FALSE) /\ To(w, "undone") /\ UNCHANGED holder
    <2>1. /\ moved \in SaveRow /\ moved.at = "undone"
          /\ moved.made = save[w].made /\ moved.revision = save[w].revision
      BY <1>1, RowTo DEF Hashing
    <2>2. save' = [save EXCEPT ![w] = moved]
      BY <1>4 DEF To
    <2> HIDE DEF moved
    <2>3. save[w].revision = written /\ ~seen
      BY <1>1, <1>4 DEF SecretInv, UnderLock, TakesBack
    <2>4. record \in Records
      BY DEF SecretInv, SecretTyped, CredentialTypeOK
    <2>5. /\ record' = record /\ marker' = FALSE
          /\ onDisk' \subseteq Directory /\ onDisk' # {}
          /\ \A d \in onDisk' : d \in onDisk \/ (d.record = record /\ d.marker = FALSE)
      BY <1>4, <2>4, ChangedFiles
    <2>6. DiskKeeps'
      BY <1>2, <2>3, <2>5 DEF DiskKeeps, SecretInv
    <2> QED
      BY <1>1, <1>2, <1>4, <2>1, <2>2, <2>3, <2>4, <2>5, <2>6, SecretMoves DEF Hashing
  <1> QED
    BY <1>3, <1>4 DEF Fails

(* The save ends, the directory synchronised or not. *)
LEMMA SecretUndone ==
    ASSUME CredentialAssumption, SecretInv, NEW w \in Writers, Undone(w)
    PROVE  SecretInv'
  <1>1. Over(w) /\ UNCHANGED <<given, record, marker, written, confirmed, seen, usage, damage>>
    BY DEF Undone, quiet, given, usage
  <1>2. CASE UNCHANGED onDisk
    BY <1>1, <1>2, SecretOver DEF files
  <1>3. CASE Synchronised
    <2>1. /\ onDisk' \subseteq Directory /\ onDisk' # {}
          /\ \A d \in onDisk' : d.record = record /\ d.marker = marker
      BY <1>3, SynchronisedDisk
    <2>2. /\ save' \in [Writers -> {NoSave} \cup SaveRow]
          /\ holder' \in Writers \cup {NoSaver}
          /\ UnderLock'
      BY <1>1, OverKeeps
    <2>3. SecretTyped'
      BY <1>1, <2>1, <2>2, SavesTyped DEF SecretInv, SecretTyped, CredentialTypeOK, given, usage
    <2>4. DiskKeeps'
      BY <1>1, <2>1 DEF DiskKeeps, SecretInv
    <2> QED
      BY <2>2, <2>3, <2>4 DEF SecretInv
  <1> QED
    BY <1>2, <1>3 DEF Undone

LEMMA SecretConfirm ==
    ASSUME CredentialAssumption, SecretInv, NEW w \in Writers, Confirm(w)
    PROVE  SecretInv'
  <1>1. Over(w) /\ UNCHANGED <<given, record, marker, written, usage, damage>>
    BY DEF Confirm, quiet, given, usage
  <1>2. CASE UNCHANGED <<onDisk, confirmed, seen>>
    BY <1>1, <1>2, SecretOver DEF files
  <1>3. CASE Synchronised /\ record = save[w].revision /\ confirmed' = record /\ seen' = TRUE
    <2>1. save[w].at \in Hashing /\ save[w].at = "sync"
      BY DEF Confirm, Hashing
    <2>2. save[w].revision = written /\ marker /\ written \in Revisions
      BY <2>1 DEF SecretInv, UnderLock
    <2>3. /\ onDisk' \subseteq Directory /\ onDisk' # {}
          /\ \A d \in onDisk' : d.record = record /\ d.marker = marker
      BY <1>3, SynchronisedDisk
    <2>4. \A v \in Writers : v # w => save[v].at \notin Hashing
      BY <2>1 DEF SecretInv, UnderLock
    <2>5. /\ save' \in [Writers -> {NoSave} \cup SaveRow]
          /\ holder' \in Writers \cup {NoSaver}
          /\ UnderLock'
      BY <1>1, <2>4, OverKeeps
    <2>6. SecretTyped'
      BY <1>1, <1>3, <2>2, <2>3, <2>5, SavesTyped
      DEF SecretInv, SecretTyped, CredentialTypeOK, given, usage
    <2>7. record \in Revisions /\ record =< record /\ record =< written
      BY <1>3, <2>2 DEF Revisions
    <2>8. DiskKeeps'
      BY <1>1, <1>3, <2>2, <2>3, <2>7 DEF DiskKeeps
    <2> QED
      BY <2>5, <2>6, <2>8 DEF SecretInv
  <1> QED
    BY <1>2, <1>3 DEF Confirm, SyncRecord

LEMMA SecretBreaks ==
    ASSUME CredentialAssumption, SecretInv, PowerFails \/ Damaged
    PROVE  SecretInv'
  <1>1. damage' \in Nat /\ UNCHANGED <<given, written, seen>>
    BY DEF PowerFails, Damaged, Breaks, given, SecretInv, SecretTyped
  <1>2. NoSave.at = "idle" /\ "idle" \notin Hashing
    BY DEF NoSave, Hashing
  <1>3. NoRecord \notin Revisions /\ BadRecord \notin Revisions
    BY DEF CredentialAssumption, Revisions
  <1>4. CASE PowerFails
    <2>1. PICK d \in onDisk : record' = d.record /\ marker' = d.marker /\ onDisk' = {d}
      BY <1>4 DEF PowerFails
    <2>2. d \in Directory /\ d.record \in Records /\ d.marker \in BOOLEAN
      BY DEF SecretInv, SecretTyped, CredentialTypeOK, Directory
    <2>3. /\ save' = [v \in Writers |-> NoSave] /\ holder' = NoSaver
          /\ calls' = {} /\ success' = NoRecord /\ confirmed' = confirmed
      BY <1>4 DEF PowerFails
    <2>4. save' \in [Writers -> {NoSave} \cup SaveRow]
      BY <2>3
    <2>5. SecretTyped'
      BY <1>1, <2>1, <2>2, <2>3, <2>4, SavesTyped
      DEF SecretInv, SecretTyped, CredentialTypeOK, given
    <2>6. UnderLock'
      BY <1>2, <2>3 DEF UnderLock
    <2>7. DiskKeeps'
      BY <1>1, <2>1, <2>3 DEF DiskKeeps, SecretInv
    <2> QED
      BY <2>5, <2>6, <2>7 DEF SecretInv
  <1>5. CASE Damaged
    <2>1. PICK d \in {NoRecord, BadRecord} :
             record' = d /\ onDisk' = {[record |-> d, marker |-> marker]}
      BY <1>5 DEF Damaged
    <2> DEFINE entries == [record |-> d, marker |-> marker]
    <2>2. entries \in Directory /\ entries.record = d /\ entries.marker = marker
      BY DEF Directory, Records, SecretInv, SecretTyped, CredentialTypeOK
    <2>3. onDisk' = {entries}
      BY <2>1
    <2> HIDE DEF entries
    <2>4. UNCHANGED <<marker, holder, save, usage>> /\ confirmed' = NoRecord
      BY <1>5 DEF Damaged
    <2>5. SecretTyped'
      BY <1>1, <2>1, <2>2, <2>3, <2>4
      DEF SecretInv, SecretTyped, CredentialTypeOK, given, usage, Records
    <2>6. UnderLock'
      BY <1>1, <1>3, <2>1, <2>4 DEF UnderLock, SecretInv
    <2>7. DiskKeeps'
      BY <1>1, <1>3, <2>1, <2>2, <2>3, <2>4 DEF DiskKeeps, SecretInv
    <2> QED
      BY <2>5, <2>6, <2>7 DEF SecretInv
  <1> QED
    BY <1>4, <1>5

LEMMA SecretStep ==
    ASSUME CredentialAssumption, SecretInv, [CredentialNext]_credentialVars
    PROVE  SecretInv'
  <1>1. ASSUME NEW w \in Writers, WriterStep(w)
        PROVE  SecretInv'
    <2>1. CASE Dies(w)
      BY <2>1, SecretOver DEF Dies, quiet
    <2> QED
      BY <1>1, <2>1, SecretBegin, SecretLock, SecretMark, SecretMarkSync, SecretReplace,
         SecretFails, SecretUndone, SecretConfirm DEF WriterStep
  <1>2. CASE Call \/ \E revision \in Revisions : CallSucceeds(revision)
    BY <1>2, SecretUsage
  <1>3. CASE PowerFails \/ Damaged
    BY <1>3, SecretBreaks
  <1>4. CASE UNCHANGED credentialVars
    BY <1>4 DEF credentialVars, SecretInv, SecretTyped, CredentialTypeOK, UnderLock, DiskKeeps
  <1> QED
    BY <1>1, <1>2, <1>3, <1>4 DEF CredentialNext

(* Once a save was confirmed, the deployment's value is never used again, *)
(* and the record that is read is the confirmed one or a later one, unless *)
(* it was damaged: for any number of saves, of failures of their system *)
(* calls and of losses of power. *)
THEOREM ConfirmedForGood ==
    ASSUME CredentialAssumption
    PROVE  CredentialSpec => [](CredentialTypeOK /\ NoFallback /\ ConfirmedSurvives)
  <1>1. CredentialInit => SecretInv
    BY SecretInit
  <1>2. SecretInv /\ [CredentialNext]_credentialVars => SecretInv'
    BY SecretStep
  <1>3. SecretInv => CredentialTypeOK /\ NoFallback /\ ConfirmedSurvives
    <2> SUFFICES ASSUME SecretInv
                 PROVE  CredentialTypeOK /\ NoFallback /\ ConfirmedSurvives
      OBVIOUS
    <2>1. \A a, b \in Nat : a =< b => b >= a
      OBVIOUS
    <2>2. ConfirmedSurvives
      BY <2>1 DEF SecretInv, SecretTyped, CredentialTypeOK, DiskKeeps, ConfirmedSurvives, Revisions
    <2> QED
      BY <2>2 DEF SecretInv, SecretTyped, DiskKeeps, NoFallback, UsesDeployment
  <1> QED
    BY <1>1, <1>2, <1>3, PTL DEF CredentialSpec

(* A save replaces the revision its page was shown and no other, and a *)
(* late answer to a call with a replaced key does not hide the success of *)
(* the current one. *)
THEOREM SavesReplaceTheShown ==
    ASSUME CredentialAssumption
    PROVE  CredentialSpec => NoLostUpdate /\ SuccessStays
  <1>1. CredentialInit => SecretInv
    BY SecretInit
  <1>2. SecretInv /\ [CredentialNext]_credentialVars => SecretInv'
    BY SecretStep
  <1>3. SecretInv => ReplacesWhatItSaw
    <2> SUFFICES ASSUME SecretInv, NEW w \in Writers, save[w].at = "replace", record \in Revisions
                 PROVE  save[w].expected = record
      BY DEF ReplacesWhatItSaw
    <2> QED
      BY DEF SecretInv, UnderLock, Hashing
  <1>4. SecretInv /\ [CredentialNext]_credentialVars => KeepsSuccess
    <2> SUFFICES ASSUME SecretInv, [CredentialNext]_credentialVars, success = record,
                        damage' = damage
                 PROVE  success' = success
      BY DEF KeepsSuccess
    <2>1. ASSUME NEW revision \in Revisions, CallSucceeds(revision)
          PROVE  success' = success
      BY <2>1 DEF CallSucceeds, Counts
    <2>2. ~Breaks
      BY DEF Breaks, SecretInv, SecretTyped
    <2>3. ASSUME NEW w \in Writers, WriterStep(w)
          PROVE  success' = success
      BY <2>3 DEF WriterStep, Begin, Lock, Mark, MarkSync, Replace, Fails, Undone, Confirm, Dies,
         quiet, usage
    <2> QED
      BY <2>1, <2>2, <2>3 DEF CredentialNext, Call, PowerFails, Damaged, credentialVars
  <1> QED
    BY <1>1, <1>2, <1>3, <1>4, PTL DEF CredentialSpec, NoLostUpdate, SuccessStays

-----------------------------------------------------------------------------
(* ConsoleLogin: one hash at a time, the throttle, and rotation wins. *)

LoginRow ==
    [stage : Stages, peer : Peers \cup {Nobody}, at : Nat, credential : Nat, right : BOOLEAN,
     old : Logins \cup {Nobody}]

Tried(s) == login[s].peer # Nobody

Attempt(s) == [at |-> login[s].at, peer |-> login[s].peer, of |-> s]

(* The attempts in the window of time that ends at t. *)
InWindow(t) == {s \in Logins : Tried(s) /\ login[s].at \in (t - Window + 1)..t}
ByPeer(t, b) == {s \in InWindow(t) : login[s].peer = b}

Within(S, n) == IsFiniteSet(S) /\ Cardinality(S) =< n

LoginTyped ==
    /\ clock \in 0..MaxClock /\ credential \in 0..MaxCredential
    /\ slot \in BOOLEAN /\ threads \subseteq Logins
    /\ login \in [Logins -> LoginRow]
    /\ cookie \in [Peers -> Logins \cup {Nobody}]
    /\ outrun \subseteq Logins
    /\ Within(sessions, MaxSessions)

OneThread == IF slot THEN threads = {} ELSE \E r \in Logins : threads = {r}

(* Every attempt of the window that ends now is still known to the *)
(* throttle, and no window up to now has too many. *)
Throttled ==
    /\ IsFiniteSet(attempts)
    /\ \A s \in Logins :
          /\ login[s].stage = "new" => ~Tried(s)
          /\ login[s].at =< clock
          /\ Tried(s) /\ login[s].at > clock - Window => Attempt(s) \in attempts
    /\ \A t \in 0..clock :
          /\ Within(InWindow(t), AllPeers)
          /\ \A b \in Peers : Within(ByPeer(t, b), PerPeer)

LoginInv == LoginTyped /\ OneThread /\ Throttled

LEMMA LoginNumbers ==
    ASSUME ConsoleLoginAssumption
    PROVE  {MaxClock, Window, PerPeer, AllPeers, TTL, MaxSessions, MaxCredential} \subseteq Nat \ {0}
  BY DEF ConsoleLoginAssumption

LEMMA WithinSubset ==
    ASSUME NEW S, NEW n \in Nat, Within(S, n), NEW T \in SUBSET S
    PROVE  Within(T, n)
  <1>1. IsFiniteSet(T) /\ Cardinality(T) =< Cardinality(S)
    BY FS_Subset DEF Within
  <1>2. Cardinality(T) \in Nat /\ Cardinality(S) \in Nat
    BY <1>1, FS_CardinalityType DEF Within
  <1> QED
    BY <1>1, <1>2 DEF Within

LEMMA WithinOneMore ==
    ASSUME NEW S, NEW n \in Nat, IsFiniteSet(S), Cardinality(S) < n, NEW x
    PROVE  Within(S \cup {x}, n)
  <1>1. IsFiniteSet(S \cup {x}) /\ Cardinality(S) \in Nat
    BY FS_AddElement, FS_CardinalityType
  <1>2. Cardinality(S \cup {x}) = Cardinality(S) \/ Cardinality(S \cup {x}) = Cardinality(S) + 1
    BY FS_AddElement
  <1> QED
    BY <1>1, <1>2 DEF Within

(* As many logins as the throttle knows attempts of them. *)
LEMMA KnownAttempts ==
    ASSUME NEW S \in SUBSET Logins, NEW T, IsFiniteSet(T), \A s \in S : Attempt(s) \in T
    PROVE  IsFiniteSet(S) /\ Cardinality(S) =< Cardinality(T)
  <1> DEFINE f == [s \in S |-> Attempt(s)]
  <1>1. f \in [S -> T]
    OBVIOUS
  <1>2. \A a, b \in S : f[a] = f[b] => a = b
    <2> SUFFICES ASSUME NEW a \in S, NEW b \in S, Attempt(a) = Attempt(b)
                 PROVE  a = b
      OBVIOUS
    <2>1. Attempt(a).of = a /\ Attempt(b).of = b
      BY DEF Attempt
    <2> QED
      BY <2>1
  <1> HIDE DEF f
  <1>3. f \in Injection(S, T)
    BY <1>1, <1>2 DEF Injection, IsInjective
  <1> QED
    BY <1>3, FS_Injection

(* A step that makes no attempt: the requests keep their peers and times. *)
LEMMA NoNewAttempt ==
    ASSUME LoginInv, UNCHANGED <<clock, attempts>>,
           \A s \in Logins : /\ login'[s].peer = login[s].peer /\ login'[s].at = login[s].at
                             /\ login'[s].stage = "new" => login[s].stage = "new"
    PROVE  Throttled'
  <1>1. \A s \in Logins : Tried(s)' = Tried(s) /\ Attempt(s)' = Attempt(s)
    BY DEF Tried, Attempt
  <1>2. \A t \in 0..clock : InWindow(t)' = InWindow(t)
    BY <1>1 DEF InWindow
  <1>3. \A t \in 0..clock : \A b \in Peers : ByPeer(t, b)' = ByPeer(t, b)
    BY <1>2 DEF ByPeer, InWindow
  <1> QED
    BY <1>1, <1>2, <1>3 DEF Throttled, LoginInv

LEMMA RowAt ==
    ASSUME LoginTyped, NEW r \in Logins, NEW s \in Stages, login' = At(r, s)
    PROVE  /\ login' \in [Logins -> LoginRow]
           /\ \A q \in Logins :
                 /\ login'[q].peer = login[q].peer /\ login'[q].at = login[q].at
                 /\ login'[q].credential = login[q].credential
                 /\ q # r => login'[q] = login[q]
           /\ login'[r].stage = s
  <1>1. login[r] \in LoginRow
    BY DEF LoginTyped
  <1> DEFINE row == [login[r] EXCEPT !.stage = s]
  <1>2. /\ row \in LoginRow /\ row.stage = s /\ row.peer = login[r].peer /\ row.at = login[r].at
        /\ row.credential = login[r].credential
    BY <1>1 DEF LoginRow
  <1>3. login' = [login EXCEPT ![r] = row]
    BY DEF At
  <1> HIDE DEF row
  <1> QED
    BY <1>2, <1>3 DEF LoginTyped

LEMMA LoginInitially ==
    ASSUME ConsoleLoginAssumption, LoginInit
    PROVE  LoginInv
  <1>1. NewLogin \in LoginRow /\ NewLogin.peer = Nobody /\ NewLogin.at = 0
    BY DEF NewLogin, LoginRow, Stages
  <1>2. IsFiniteSet({}) /\ Cardinality({}) = 0
    BY FS_EmptySet
  <1>3. MaxClock \in Nat /\ MaxCredential \in Nat \ {0} /\ MaxSessions \in Nat
        /\ AllPeers \in Nat /\ PerPeer \in Nat
    BY LoginNumbers
  <1>4. LoginTyped
    BY <1>1, <1>2, <1>3 DEF LoginTyped, LoginInit, Within
  <1>5. OneThread
    BY DEF OneThread, LoginInit
  <1>6. \A t : InWindow(t) = {} /\ \A b : ByPeer(t, b) = {}
    BY <1>1 DEF InWindow, ByPeer, Tried, LoginInit
  <1>7. Throttled
    <2>1. \A s \in Logins : ~Tried(s) /\ login[s].at = 0
      BY <1>1 DEF Tried, LoginInit
    <2>2. clock = 0 /\ attempts = {} /\ Window \in Nat \ {0}
      BY LoginNumbers DEF LoginInit
    <2>3. \A t \in 0..clock : Within(InWindow(t), AllPeers) /\ \A b \in Peers : Within(ByPeer(t, b), PerPeer)
      BY <1>2, <1>3, <1>6 DEF Within
    <2> QED
      BY <1>2, <2>1, <2>2, <2>3 DEF Throttled
  <1> QED
    BY <1>4, <1>5, <1>7 DEF LoginInv

(* An attempt that the throttle lets past: the windows that end now had *)
(* room for it, since what they hold is known. *)
LEMMA LoginArrive ==
    ASSUME ConsoleLoginAssumption, LoginInv, NEW r \in Logins, NEW b \in Peers,
           NEW right \in BOOLEAN, Arrive(r, b, right)
    PROVE  LoginInv'
  <1> DEFINE row == [stage |-> "waiting", peer |-> b, at |-> clock,
                     credential |-> credential, right |-> right, old |-> cookie[b]]
             mine == [at |-> clock, peer |-> b, of |-> r]
  <1>1. /\ clock \in Nat /\ credential \in Nat /\ Window \in Nat \ {0}
        /\ AllPeers \in Nat /\ PerPeer \in Nat
    BY LoginNumbers DEF LoginInv, LoginTyped
  <1>2. row \in LoginRow /\ row.stage = "waiting" /\ row.peer = b /\ row.at = clock
    BY <1>1 DEF LoginRow, Stages, LoginInv, LoginTyped
  <1>3. login' = [login EXCEPT ![r] = row] /\ attempts' = Recent(clock) \cup {mine}
    BY DEF Arrive
  <1> HIDE DEF row
  <1>4. /\ login' \in [Logins -> LoginRow]
        /\ login'[r] = row
        /\ \A q \in Logins : q # r => login'[q] = login[q]
    BY <1>2, <1>3 DEF LoginInv, LoginTyped
  <1>5. UNCHANGED <<clock, credential, slot, threads, sessions, cookie, outrun>>
    BY DEF Arrive
  <1>6. b # Nobody /\ login[r].stage = "new" /\ ~Tried(r)
    BY DEF ConsoleLoginAssumption, Arrive, Stage, LoginInv, Throttled
  <1>7. Attempt(r)' = mine /\ Tried(r)'
    BY <1>2, <1>4, <1>6 DEF Attempt, Tried
  <1> HIDE DEF mine
  <1>8. \A q \in Logins : q # r => Attempt(q)' = Attempt(q) /\ Tried(q)' = Tried(q)
    BY <1>4 DEF Attempt, Tried
  <1>9. LoginTyped'
    BY <1>4, <1>5 DEF LoginInv, LoginTyped
  <1>10. OneThread'
    BY <1>5 DEF LoginInv, OneThread
  <1>11. IsFiniteSet(Recent(clock)) /\ IsFiniteSet(attempts')
    <2>1. Recent(clock) \in SUBSET attempts
      BY DEF Recent
    <2>2. IsFiniteSet(Recent(clock))
      BY <2>1, FS_Subset DEF LoginInv, Throttled
    <2> QED
      BY <2>2, <1>3, FS_AddElement
  <1>12. ASSUME NEW s \in Logins
         PROVE  /\ login'[s].stage = "new" => ~Tried(s)'
                /\ login'[s].at =< clock'
                /\ Tried(s)' /\ login'[s].at > clock' - Window => Attempt(s)' \in attempts'
    <2>1. CASE s = r
      BY <1>1, <1>2, <1>3, <1>4, <1>5, <1>7, <2>1
    <2>2. CASE s # r
      <3>1. /\ login[s].stage = "new" => ~Tried(s)
            /\ login[s].at =< clock
            /\ Tried(s) /\ login[s].at > clock - Window => Attempt(s) \in attempts
        BY DEF LoginInv, Throttled
      <3>2. Attempt(s).at = login[s].at
        BY DEF Attempt
      <3>3. Tried(s) /\ login[s].at > clock - Window => Attempt(s) \in Recent(clock)
        BY <3>1, <3>2 DEF Recent
      <3> QED
        BY <1>3, <1>4, <1>5, <1>8, <2>2, <3>1, <3>3
    <2> QED
      BY <2>1, <2>2
  <1>13. \A q \in Logins : login[q].at \in Nat
    BY DEF LoginInv, LoginTyped, LoginRow
  <1>14. ASSUME NEW t \in 0..clock, t # clock
         PROVE  InWindow(t)' = InWindow(t) /\ \A c \in Peers : ByPeer(t, c)' = ByPeer(t, c)
    <2>1. t \in Nat /\ t < clock
      BY <1>1, <1>14
    <2>2. r \notin InWindow(t) /\ r \notin InWindow(t)'
      BY <1>1, <1>2, <1>4, <1>6, <2>1 DEF InWindow
    <2>3. \A q \in Logins : q # r => (q \in InWindow(t)' <=> q \in InWindow(t))
      BY <1>4, <1>8 DEF InWindow
    <2>4. InWindow(t)' = InWindow(t)
      BY <2>2, <2>3 DEF InWindow
    <2>5. \A q \in InWindow(t) : q \in Logins /\ q # r
      BY <2>2 DEF InWindow
    <2> QED
      BY <1>4, <2>4, <2>5 DEF ByPeer
  <1>15. ASSUME NEW s \in InWindow(clock)
         PROVE  s \in Logins /\ s # r /\ Attempt(s) \in Recent(clock)
    <2>1. s \in Logins /\ Tried(s) /\ login[s].at \in (clock - Window + 1)..clock
      BY DEF InWindow
    <2>2. login[s].at > clock - Window
      BY <1>1, <1>13, <2>1
    <2>3. Attempt(s) \in attempts /\ Attempt(s).at = login[s].at
      BY <2>1, <2>2 DEF LoginInv, Throttled, Attempt
    <2> QED
      BY <1>6, <2>1, <2>2, <2>3 DEF Recent
  <1>16. InWindow(clock)' = InWindow(clock) \cup {r}
    <2>1. r \in InWindow(clock)'
      BY <1>1, <1>2, <1>4, <1>5, <1>7 DEF InWindow
    <2>2. \A q \in Logins : q # r => (q \in InWindow(clock)' <=> q \in InWindow(clock))
      BY <1>4, <1>5, <1>8 DEF InWindow
    <2> QED
      BY <2>1, <2>2, <1>5 DEF InWindow
  <1>17. Within(InWindow(clock)', AllPeers)
    <2>1. IsFiniteSet(InWindow(clock)) /\ Cardinality(InWindow(clock)) =< Cardinality(Recent(clock))
      BY <1>11, <1>15, KnownAttempts
    <2>2. Cardinality(Recent(clock)) < AllPeers
      BY DEF Arrive, Admits
    <2>3. Cardinality(InWindow(clock)) \in Nat /\ Cardinality(Recent(clock)) \in Nat
      BY <1>11, <2>1, FS_CardinalityType
    <2>4. Cardinality(InWindow(clock)) < AllPeers
      BY <1>1, <2>1, <2>2, <2>3
    <2>5. Within(InWindow(clock) \cup {r}, AllPeers)
      BY <1>1, <2>1, <2>4, WithinOneMore
    <2> QED
      BY <1>16, <2>5 DEF Within
  <1>18. ASSUME NEW c \in Peers
         PROVE  Within(ByPeer(clock, c)', PerPeer)
    <2> DEFINE known == {a \in Recent(clock) : a.peer = b}
    <2>1. CASE c # b
      <3>1. ByPeer(clock, c)' = ByPeer(clock, c)
        BY <1>2, <1>4, <1>5, <1>15, <1>16, <2>1 DEF ByPeer
      <3>2. clock \in 0..clock
        BY <1>1
      <3> QED
        BY <3>1, <3>2 DEF LoginInv, Throttled
    <2>2. CASE c = b
      <3>1. ByPeer(clock, b)' = ByPeer(clock, b) \cup {r}
        BY <1>2, <1>4, <1>5, <1>15, <1>16 DEF ByPeer
      <3>2. \A s \in ByPeer(clock, b) : Attempt(s) \in known /\ s \in Logins
        BY <1>15 DEF ByPeer, Attempt
      <3>3. known \in SUBSET Recent(clock)
        OBVIOUS
      <3>4. Cardinality(known) < PerPeer
        BY DEF Arrive, Admits
      <3> HIDE DEF known
      <3>5. IsFiniteSet(known)
        BY <1>11, <3>3, FS_Subset
      <3>6. IsFiniteSet(ByPeer(clock, b)) /\ Cardinality(ByPeer(clock, b)) =< Cardinality(known)
        BY <3>2, <3>5, KnownAttempts
      <3>7. Cardinality(ByPeer(clock, b)) \in Nat /\ Cardinality(known) \in Nat
        BY <3>5, <3>6, FS_CardinalityType
      <3>8. Cardinality(ByPeer(clock, b)) < PerPeer
        BY <1>1, <3>4, <3>6, <3>7
      <3>9. Within(ByPeer(clock, b) \cup {r}, PerPeer)
        BY <1>1, <3>6, <3>8, WithinOneMore
      <3> QED
        BY <2>2, <3>1, <3>9 DEF Within
    <2> QED
      BY <2>1, <2>2
  <1>19. ASSUME NEW t \in 0..clock'
         PROVE  Within(InWindow(t)', AllPeers) /\ \A c \in Peers : Within(ByPeer(t, c)', PerPeer)
    <2>1. CASE t # clock
      BY <1>5, <1>14, <2>1 DEF LoginInv, Throttled
    <2>2. CASE t = clock
      BY <1>5, <1>17, <1>18, <2>2 DEF InWindow, ByPeer
    <2> QED
      BY <2>1, <2>2
  <1>20. Throttled'
    BY <1>11, <1>12, <1>19 DEF Throttled, Within
  <1> QED
    BY <1>9, <1>10, <1>20 DEF LoginInv

(* The steps of a request that has its attempt: its place changes, and *)
(* perhaps the slot. *)
LEMMA LoginMoves ==
    ASSUME ConsoleLoginAssumption, LoginInv, NEW r \in Logins,
           Hash(r) \/ Disconnect(r) \/ ThreadEnds(r) \/ Reread(r) \/ RefuseLogin(r)
    PROVE  LoginInv'
  <1>1. login' = login \/ \E s \in Stages \ {"new"} : login' = At(r, s)
    BY DEF Hash, Disconnect, ThreadEnds, Reread, RefuseLogin, Stages
  <1>2. UNCHANGED <<clock, credential, attempts, sessions, cookie, outrun>>
    BY DEF Hash, Disconnect, ThreadEnds, Reread, RefuseLogin
  <1>3. /\ login' \in [Logins -> LoginRow]
        /\ \A s \in Logins : /\ login'[s].peer = login[s].peer /\ login'[s].at = login[s].at
                             /\ login'[s].stage = "new" => login[s].stage = "new"
    <2>1. CASE login' = login
      BY <2>1 DEF LoginInv, LoginTyped
    <2>2. ASSUME NEW s \in Stages \ {"new"}, login' = At(r, s)
          PROVE  <1>3!1 /\ <1>3!2
      BY <2>2, RowAt DEF LoginInv
    <2> QED
      BY <1>1, <2>1, <2>2
  <1>4. slot' \in BOOLEAN /\ threads' \subseteq Logins /\ OneThread'
    <2>1. CASE Hash(r)
      BY <2>1 DEF Hash, LoginInv, LoginTyped, OneThread
    <2>2. CASE ThreadEnds(r)
      <3>1. threads = {r}
        BY <2>2 DEF ThreadEnds, LoginInv, OneThread
      <3> QED
        BY <2>2, <3>1 DEF ThreadEnds, OneThread
    <2>3. CASE Disconnect(r) \/ Reread(r) \/ RefuseLogin(r)
      BY <2>3 DEF Disconnect, Reread, RefuseLogin, LoginInv, LoginTyped, OneThread
    <2> QED
      BY <2>1, <2>2, <2>3
  <1>5. LoginTyped'
    BY <1>2, <1>3, <1>4 DEF LoginInv, LoginTyped, Within
  <1>6. Throttled'
    BY <1>2, <1>3, NoNewAttempt
  <1> QED
    BY <1>4, <1>5, <1>6 DEF LoginInv

(* The table of sessions only loses rows, but for a login that succeeds, *)
(* which looks at the limit first. *)
LEMMA LoginSessions ==
    ASSUME ConsoleLoginAssumption, LoginInv,
           \/ \E r \in Logins, received \in BOOLEAN : Succeed(r, received)
           \/ \E b \in Peers : Access(b) \/ Logout(b)
    PROVE  LoginInv'
  <1>1. MaxSessions \in Nat
    BY LoginNumbers
  <1>2. \A c : Live(c) \in SUBSET sessions
    BY DEF Live
  <1>3. UNCHANGED <<clock, credential, attempts, slot, threads, outrun>>
    BY DEF Succeed, Access, Logout
  <1>4. ASSUME NEW r \in Logins, NEW received \in BOOLEAN, Succeed(r, received)
        PROVE  LoginInv'
    <2> DEFINE new == [token |-> r, credential |-> login[r].credential, expires |-> clock + TTL]
    <2>1. Stage(r, "confirmed") /\ "done" \in Stages /\ login' = At(r, "done")
      BY <1>4 DEF Succeed, Stages
    <2>2. /\ login' \in [Logins -> LoginRow]
          /\ \A s \in Logins : /\ login'[s].peer = login[s].peer /\ login'[s].at = login[s].at
                               /\ s # r => login'[s] = login[s]
          /\ login'[r].stage = "done"
      BY <2>1, RowAt DEF LoginInv
    <2>3. cookie' \in [Peers -> Logins \cup {Nobody}]
      BY <1>4 DEF Succeed, LoginInv, LoginTyped
    <2>4. sessions' = OtherSessions(r) \cup {new} /\ Cardinality(OtherSessions(r)) < MaxSessions
      BY <1>4 DEF Succeed
    <2> HIDE DEF new
    <2>5. OtherSessions(r) \in SUBSET sessions
      BY <1>2 DEF OtherSessions
    <2>6. IsFiniteSet(OtherSessions(r))
      BY <2>5, FS_Subset DEF LoginInv, LoginTyped, Within
    <2>7. Within(OtherSessions(r) \cup {new}, MaxSessions)
      BY <1>1, <2>4, <2>6, WithinOneMore
    <2>8. LoginTyped'
      BY <1>3, <2>2, <2>3, <2>4, <2>7 DEF LoginInv, LoginTyped, Within
    <2>9. Throttled'
      BY <1>3, <2>2, NoNewAttempt
    <2> QED
      BY <1>3, <2>8, <2>9 DEF LoginInv, OneThread
  <1>5. ASSUME NEW b \in Peers, Access(b) \/ Logout(b)
        PROVE  LoginInv'
    <2>1. sessions' \in SUBSET sessions /\ login' = login
      BY <1>2, <1>5 DEF Access, Logout
    <2>2. cookie' \in [Peers -> Logins \cup {Nobody}]
      BY <1>5 DEF Access, Logout, LoginInv, LoginTyped
    <2>3. IsFiniteSet(sessions') /\ Cardinality(sessions') =< MaxSessions
      <3>1. ASSUME NEW T \in SUBSET sessions
            PROVE  IsFiniteSet(T) /\ Cardinality(T) =< MaxSessions
        BY <1>1, WithinSubset DEF LoginInv, LoginTyped, Within
      <3> QED
        BY <2>1, <3>1
    <2>4. LoginTyped'
      BY <1>3, <2>1, <2>2, <2>3 DEF LoginInv, LoginTyped, Within
    <2>5. Throttled'
      BY <1>3, <2>1, NoNewAttempt
    <2> QED
      BY <1>3, <2>4, <2>5 DEF LoginInv, OneThread
  <1> QED
    BY <1>4, <1>5

LEMMA LoginTicks ==
    ASSUME ConsoleLoginAssumption, LoginInv, Tick
    PROVE  LoginInv'
  <1>1. /\ clock \in Nat /\ clock < MaxClock /\ MaxClock \in Nat /\ Window \in Nat \ {0}
        /\ AllPeers \in Nat /\ PerPeer \in Nat
    BY LoginNumbers DEF LoginInv, LoginTyped, Tick
  <1>2. clock' = clock + 1 /\ UNCHANGED <<credential, attempts, slot, threads, login, sessions, cookie, outrun>>
    BY DEF Tick
  <1>3. \A s \in Logins : /\ Tried(s)' = Tried(s) /\ Attempt(s)' = Attempt(s)
                          /\ login[s].at \in Nat
    BY <1>2 DEF Tried, Attempt, LoginInv, LoginTyped, LoginRow
  <1>4. LoginTyped'
    BY <1>1, <1>2 DEF LoginInv, LoginTyped, Within
  <1>5. ASSUME NEW t \in 0..(clock + 1)
        PROVE  /\ InWindow(t)' = InWindow(t)
               /\ \A b \in Peers : ByPeer(t, b)' = ByPeer(t, b)
    BY <1>2, <1>3 DEF InWindow, ByPeer
  <1>6. ASSUME NEW t \in 0..(clock + 1)
        PROVE  Within(InWindow(t), AllPeers) /\ \A b \in Peers : Within(ByPeer(t, b), PerPeer)
    <2>1. CASE t =< clock
      BY <1>1, <2>1 DEF LoginInv, Throttled
    <2>2. CASE t = clock + 1
      <3>1. InWindow(t) \in SUBSET InWindow(clock)
        BY <1>1, <1>3, <2>2 DEF InWindow, LoginInv, Throttled
      <3>2. \A b \in Peers : ByPeer(t, b) \in SUBSET ByPeer(clock, b)
        BY <3>1 DEF ByPeer
      <3>3. clock \in 0..clock
        BY <1>1
      <3>4. Within(InWindow(clock), AllPeers) /\ \A b \in Peers : Within(ByPeer(clock, b), PerPeer)
        BY <3>3 DEF LoginInv, Throttled
      <3> QED
        BY <1>1, <3>1, <3>2, <3>4, WithinSubset
    <2> QED
      BY <1>1, <2>1, <2>2
  <1>7. \A s \in Logins : /\ login[s].stage = "new" => ~Tried(s)
                          /\ login[s].at =< clock + 1
                          /\ Tried(s) /\ login[s].at > clock + 1 - Window => Attempt(s) \in attempts
    BY <1>1, <1>3 DEF LoginInv, Throttled
  <1>8. IsFiniteSet(attempts)'
    BY <1>2 DEF LoginInv, Throttled
  <1>9. ASSUME NEW t \in 0..clock'
        PROVE  Within(InWindow(t)', AllPeers) /\ \A b \in Peers : Within(ByPeer(t, b)', PerPeer)
    BY <1>2, <1>5, <1>6 DEF Within
  <1>10. \A s \in Logins :
            /\ login'[s].stage = "new" => ~Tried(s)'
            /\ login'[s].at =< clock'
            /\ Tried(s)' /\ login'[s].at > clock' - Window => Attempt(s)' \in attempts'
    BY <1>1, <1>2, <1>3, <1>7
  <1>11. Throttled'
    BY <1>8, <1>9, <1>10 DEF Throttled, Within
  <1> QED
    BY <1>2, <1>4, <1>11 DEF LoginInv, OneThread

LEMMA LoginRestarts ==
    ASSUME ConsoleLoginAssumption, LoginInv, Restart
    PROVE  LoginInv'
  <1> DEFINE ended == [NewLogin EXCEPT !.stage = "done"]
  <1>1. ended \in LoginRow /\ ended.peer = Nobody /\ ended.at = 0
    BY DEF NewLogin, LoginRow, Stages
  <1>2. login' = [r \in Logins |-> IF Stage(r, "new") THEN login[r] ELSE ended]
    BY DEF Restart
  <1> HIDE DEF ended
  <1>3. /\ attempts' = {} /\ slot' = TRUE /\ threads' = {}
        /\ UNCHANGED <<clock, credential, sessions, cookie, outrun>>
    BY DEF Restart
  <1>4. clock \in Nat /\ AllPeers \in Nat /\ PerPeer \in Nat
    BY LoginNumbers DEF LoginInv, LoginTyped
  <1>5. /\ login' \in [Logins -> LoginRow]
        /\ \A r \in Logins : login'[r].peer = Nobody /\ login'[r].at =< clock
    BY <1>1, <1>2, <1>4 DEF LoginInv, LoginTyped, Throttled, Tried, Stage
  <1>6. LoginTyped'
    BY <1>3, <1>5 DEF LoginInv, LoginTyped, Within
  <1>7. \A s \in Logins : ~Tried(s)'
    BY <1>5 DEF Tried
  <1>8. \A t : InWindow(t)' = {} /\ \A b : ByPeer(t, b)' = {}
    BY <1>7 DEF InWindow, ByPeer
  <1>9. IsFiniteSet({}) /\ Cardinality({}) = 0
    BY FS_EmptySet
  <1>10. ASSUME NEW t \in 0..clock'
         PROVE  Within(InWindow(t)', AllPeers) /\ \A b \in Peers : Within(ByPeer(t, b)', PerPeer)
    BY <1>4, <1>8, <1>9 DEF Within
  <1>11. IsFiniteSet(attempts')
    BY <1>3, <1>9
  <1>12. Throttled'
    BY <1>3, <1>5, <1>7, <1>10, <1>11 DEF Throttled, Within
  <1> QED
    BY <1>3, <1>6, <1>12 DEF LoginInv, OneThread

LEMMA LoginStep ==
    ASSUME ConsoleLoginAssumption, LoginInv, [LoginNext]_loginVars
    PROVE  LoginInv'
  <1>1. ASSUME NEW c \in 1..MaxCredential, Rotate(c)
        PROVE  LoginInv'
    <2>1. /\ UNCHANGED <<clock, attempts, slot, threads, login, sessions, cookie>>
          /\ credential' \in 0..MaxCredential /\ outrun' \subseteq Logins
      BY <1>1, LoginNumbers DEF Rotate, LoginInv, LoginTyped
    <2>2. LoginTyped' /\ OneThread'
      BY <2>1 DEF LoginInv, LoginTyped, OneThread, Within
    <2>3. Throttled'
      BY <2>1, NoNewAttempt
    <2> QED
      BY <2>2, <2>3 DEF LoginInv
  <1>2. CASE UNCHANGED loginVars
    <2>1. LoginTyped' /\ OneThread'
      BY <1>2 DEF loginVars, LoginInv, LoginTyped, OneThread, Within
    <2>2. Throttled'
      BY <1>2, NoNewAttempt DEF loginVars
    <2> QED
      BY <2>1, <2>2 DEF LoginInv
  <1> QED
    BY <1>1, <1>2, LoginArrive, LoginMoves, LoginSessions, LoginTicks, LoginRestarts DEF LoginNext

LEMMA LoginPromises ==
    ASSUME ConsoleLoginAssumption, LoginInv
    PROVE  LoginTypeOK /\ OneHashAtATime /\ AttemptsAreBounded
  <1>1. LoginTypeOK
    BY DEF LoginInv, LoginTyped, LoginTypeOK, LoginRow, Within
  <1>2. OneHashAtATime
    BY FS_EmptySet, FS_Singleton DEF LoginInv, LoginTyped, OneThread, OneHashAtATime
  <1>3. ASSUME NEW r \in Logins
        PROVE  LET within == {s \in Logins : /\ login[s].peer # Nobody
                                             /\ login[s].at \in
                                                  (login[r].at - Window + 1)..login[r].at}
               IN  /\ Cardinality(within) <= AllPeers
                   /\ Cardinality({s \in within : login[s].peer = login[r].peer}) <= PerPeer
    <2>1. login[r].at \in 0..clock /\ login[r].peer \in Peers \cup {Nobody} /\ PerPeer \in Nat
      BY LoginNumbers DEF LoginInv, LoginTyped, LoginRow, Throttled
    <2> DEFINE t == login[r].at
    <2>2. InWindow(t) = {s \in Logins : /\ login[s].peer # Nobody
                                        /\ login[s].at \in (t - Window + 1)..t}
      BY DEF InWindow, Tried
    <2>3. Cardinality(InWindow(t)) <= AllPeers
      BY <2>1 DEF LoginInv, Throttled, Within
    <2>4. Cardinality({s \in InWindow(t) : login[s].peer = login[r].peer}) <= PerPeer
      <3>1. CASE login[r].peer = Nobody
        <4>1. {s \in InWindow(t) : login[s].peer = login[r].peer} = {}
          BY <3>1 DEF InWindow, Tried
        <4>2. Cardinality({}) = 0 /\ PerPeer >= 0
          BY <2>1, FS_EmptySet
        <4> HIDE DEF t
        <4>3. \A c \in {{}} : Cardinality(c) <= PerPeer
          BY <2>1, <4>2
        <4> QED
          BY <4>1, <4>3
      <3>2. CASE login[r].peer \in Peers
        <4>1. Within(ByPeer(t, login[r].peer), PerPeer)
          BY <2>1, <3>2 DEF LoginInv, Throttled
        <4> QED
          BY <4>1 DEF ByPeer, Within
      <3> QED
        BY <2>1, <3>1, <3>2
    <2> HIDE DEF t
    <2> QED
      BY <2>2, <2>3, <2>4 DEF t
  <1>4. AttemptsAreBounded
    BY <1>3 DEF AttemptsAreBounded
  <1> QED
    BY <1>1, <1>2, <1>4

(* One password is hashed at a time, no window of time holds more attempts *)
(* than the throttle allows, and the table of sessions keeps its limit, *)
(* whatever clients go away and however often the process restarts. *)
THEOREM LoginIsThrottled ==
    ASSUME ConsoleLoginAssumption
    PROVE  LoginSpec => [](LoginTypeOK /\ OneHashAtATime /\ AttemptsAreBounded)
  <1>1. LoginInit => LoginInv
    BY LoginInitially
  <1>2. LoginInv /\ [LoginNext]_loginVars => LoginInv'
    BY LoginStep
  <1>3. LoginInv => LoginTypeOK /\ OneHashAtATime /\ AttemptsAreBounded
    BY LoginPromises
  <1> QED
    BY <1>1, <1>2, <1>3, PTL DEF LoginSpec

(* What is known of the logins a rotation outran: none of them has a *)
(* session or is about to make one, and the credential they were checked *)
(* against is no longer that of the file. *)
Hopeful == {"waiting", "hashing", "checked"}

Outran ==
    /\ \A s \in sessions : s.token \in Logins \ outrun /\ Stage(s.token, "done")
    /\ \A r \in Logins : login[r].stage \in Hopeful =>
          login[r].credential =< credential /\ (r \in outrun => login[r].credential < credential)
    /\ \A r \in outrun : login[r].stage \notin {"new", "confirmed"}

LEMMA OutranStep ==
    ASSUME ConsoleLoginAssumption, LoginInv, Outran, [LoginNext]_loginVars
    PROVE  Outran'
  <1>1. /\ credential \in Nat /\ LoginTyped /\ outrun \subseteq Logins
        /\ \A r \in Logins : login[r].credential \in Nat
    BY LoginNumbers DEF LoginInv, LoginTyped, LoginRow
  <1>2. ASSUME NEW r \in Logins, NEW b \in Peers, NEW right \in BOOLEAN, Arrive(r, b, right)
        PROVE  Outran'
    <2> DEFINE row == [stage |-> "waiting", peer |-> b, at |-> clock,
                       credential |-> credential, right |-> right, old |-> cookie[b]]
    <2>1. row.stage = "waiting" /\ row.credential = credential
      OBVIOUS
    <2>2. login' = [login EXCEPT ![r] = row] /\ login[r].stage = "new"
      BY <1>2 DEF Arrive, Stage
    <2> HIDE DEF row
    <2>3. login'[r] = row /\ \A q \in Logins : q # r => login'[q] = login[q]
      BY <1>1, <2>2 DEF LoginTyped
    <2>4. UNCHANGED <<credential, sessions, outrun>> /\ r \notin outrun
      BY <1>2, <2>2 DEF Arrive, Outran
    <2> QED
      BY <1>1, <2>1, <2>2, <2>3, <2>4 DEF Outran, Stage
  <1>3. ASSUME NEW r \in Logins, NEW s \in Stages \ {"new"}, login' = At(r, s),
               login[r].stage \notin {"new", "done"},
               s \in Hopeful => login[r].stage \in Hopeful,
               s = "confirmed" => login[r].stage \in Hopeful /\ login[r].credential = credential,
               UNCHANGED <<credential, sessions, outrun>>
        PROVE  Outran'
    <2>1. /\ \A q \in Logins : login'[q].credential = login[q].credential
          /\ \A q \in Logins : q # r => login'[q] = login[q]
          /\ login'[r].stage = s
      BY <1>1, <1>3, RowAt
    <2>2. s = "confirmed" => r \notin outrun
      BY <1>1, <1>3 DEF Outran
    <2> QED
      BY <1>1, <1>3, <2>1, <2>2 DEF Outran, Stage
  <1>4. ASSUME NEW r \in Logins, Hash(r) \/ Disconnect(r) \/ Reread(r) \/ RefuseLogin(r)
        PROVE  Outran'
    <2>1. CASE Hash(r)
      BY <1>3, <2>1 DEF Hash, Stage, Stages, Hopeful
    <2>2. CASE Disconnect(r)
      BY <1>3, <2>2 DEF Disconnect, Stage, Stages, Hopeful
    <2>3. CASE Reread(r)
      BY <1>3, <2>3 DEF Reread, Passes, Stage, Stages, Hopeful
    <2>4. CASE RefuseLogin(r)
      BY <1>3, <2>4 DEF RefuseLogin, Stage, Stages, Hopeful
    <2> QED
      BY <1>4, <2>1, <2>2, <2>3, <2>4
  <1>5. ASSUME NEW r \in Logins, ThreadEnds(r)
        PROVE  Outran'
    <2>1. CASE Stage(r, "hashing")
      BY <1>3, <1>5, <2>1 DEF ThreadEnds, Stage, Stages, Hopeful
    <2>2. CASE ~Stage(r, "hashing")
      BY <1>5, <2>2 DEF ThreadEnds, Outran, Stage
    <2> QED
      BY <2>1, <2>2
  <1>6. ASSUME NEW r \in Logins, NEW received \in BOOLEAN, Succeed(r, received)
        PROVE  Outran'
    <2> DEFINE new == [token |-> r, credential |-> login[r].credential, expires |-> clock + TTL]
    <2>1. new.token = r
      OBVIOUS
    <2>2. sessions' = OtherSessions(r) \cup {new}
      BY <1>6 DEF Succeed
    <2> HIDE DEF new
    <2>3. /\ login' = At(r, "done") /\ login[r].stage = "confirmed" /\ r \notin outrun
          /\ UNCHANGED <<credential, outrun>> /\ "done" \in Stages
      BY <1>6 DEF Succeed, Stage, Stages, Outran
    <2>4. /\ \A q \in Logins : q # r => login'[q] = login[q]
          /\ login'[r].stage = "done"
      BY <1>1, <2>3, RowAt
    <2>5. OtherSessions(r) \subseteq sessions
      BY DEF OtherSessions, Live
    <2>6. \A s \in sessions' : s.token \in Logins \ outrun' /\ Stage(s.token, "done")'
      BY <2>1, <2>2, <2>3, <2>4, <2>5 DEF Outran, Stage
    <2> QED
      BY <1>1, <2>3, <2>4, <2>6 DEF Outran, Hopeful
  <1>7. ASSUME sessions' \subseteq sessions, UNCHANGED <<credential, login, outrun>>
        PROVE  Outran'
    BY <1>7 DEF Outran, Stage
  <1>8. ASSUME NEW b \in Peers, Access(b) \/ Logout(b)
        PROVE  Outran'
    BY <1>7, <1>8 DEF Access, Logout, Live
  <1>9. ASSUME NEW c \in 1..MaxCredential, Rotate(c)
        PROVE  Outran'
    <2>1. /\ c \in Nat /\ c > credential /\ credential' = c /\ UNCHANGED <<login, sessions>>
          /\ outrun' = outrun \cup {r \in Logins : login[r].stage \in Hopeful}
      BY <1>9, LoginNumbers DEF Rotate, Hopeful
    <2>2. \A s \in sessions : s.token \notin outrun'
      BY <2>1 DEF Outran, Stage, Hopeful
    <2>3. \A r \in Logins : login[r].stage \in Hopeful => login[r].credential < c
      BY <1>1, <2>1 DEF Outran
    <2>4. \A r \in outrun' : login[r].stage \notin {"new", "confirmed"}
      BY <2>1 DEF Outran, Hopeful
    <2>5. \A r \in Logins : login[r].stage \in Hopeful => login[r].credential =< c
      BY <1>1, <2>1, <2>3
    <2> QED
      BY <2>1, <2>2, <2>3, <2>4, <2>5 DEF Outran, Stage
  <1>10. ASSUME Restart
         PROVE  Outran'
    <2> DEFINE ended == [NewLogin EXCEPT !.stage = "done"]
    <2>1. ended.stage = "done"
      BY DEF NewLogin
    <2>2. login' = [r \in Logins |-> IF Stage(r, "new") THEN login[r] ELSE ended]
      BY <1>10 DEF Restart
    <2> HIDE DEF ended
    <2>3. \A r \in Logins : login'[r].stage = IF login[r].stage = "new" THEN "new" ELSE "done"
      BY <2>1, <2>2 DEF Stage
    <2>4. UNCHANGED <<credential, sessions, outrun>>
      BY <1>10 DEF Restart
    <2> QED
      BY <1>1, <2>3, <2>4 DEF Outran, Stage, Hopeful
  <1>11. CASE Tick \/ UNCHANGED loginVars
    BY <1>7, <1>11 DEF Tick, loginVars
  <1> QED
    BY <1>2, <1>4, <1>5, <1>6, <1>8, <1>9, <1>10, <1>11 DEF LoginNext

(* RotationWins: a login whose credential was rotated before it looked *)
(* again makes no session, whatever is cancelled, logged out or restarted *)
(* meanwhile. *)
THEOREM RotationWinsOverLogins ==
    ASSUME ConsoleLoginAssumption
    PROVE  LoginSpec => []RotationWins
  <1>1. LoginInit => LoginInv /\ Outran
    <2>1. LoginInit => Outran
      BY DEF LoginInit, Outran, NewLogin, Hopeful
    <2> QED
      BY <2>1, LoginInitially
  <1>2. (LoginInv /\ Outran) /\ [LoginNext]_loginVars => (LoginInv /\ Outran)'
    BY LoginStep, OutranStep
  <1>3. Outran => RotationWins
    BY DEF Outran, RotationWins
  <1> QED
    BY <1>1, <1>2, <1>3, PTL DEF LoginSpec

-----------------------------------------------------------------------------
(* What people say of an answer. *)

FiledRows == [about : Answers \cup Conversations, payload : Payloads, updated : 0..MaxReportTime,
              workflow : Statuses \cup {NoReport}, reviewed : BOOLEAN]
Judgements == [fid : Reports, status : Statuses]
Sendable == Submissions \cup Decisions \cup Marks
Filings == [at : {"new", "begun", "locked", "checked", "saved", "refused"},
            stamp : 0..MaxReportTime, ask : Sendable \cup {NoReport}]
Readings == [at : {"new", "reading", "read"}, newest : BOOLEAN, cursor : Nat \X Nat,
             seen : [Reports -> Nat], there : SUBSET Reports, changed : SUBSET Reports]

ReportsTyped ==
  /\ reportTime \in 0..MaxReportTime
  /\ answered \subseteq Answers
  /\ reports \in [Tables -> [Reports -> FiledRows \cup {NoReport}]]
  /\ reviews \in [Reviews -> Judgements \cup {NoReport}]
  /\ idLocks \in [Reports \cup Reviews -> Calls \cup {NoReport}]
  /\ filing \in [Calls -> Filings]
  /\ pages \in Readings
  /\ \A q \in Calls : filing[q].at # "new" => filing[q].ask \in Sendable

(* A call past its first lock holds the locks it waited for. *)
CallsHoldLocks ==
  \A q \in Calls : filing[q].at \in {"locked", "checked"} =>
    /\ filing[q].ask.kind # "mark"
    /\ idLocks[filing[q].ask.fid] = q
    /\ filing[q].at = "checked" /\ filing[q].ask.kind = "review" => idLocks[filing[q].ask.rid] = q

(* A report about to be inserted is in neither table. *)
CheckedIsFree ==
  \A q \in Calls : filing[q].at = "checked" /\ filing[q].ask.kind = "report" =>
    \A t \in Tables : reports[t][filing[q].ask.fid] = NoReport

OneTable ==
  \A f \in Reports, t, u \in Tables :
    reports[t][f] # NoReport /\ reports[u][f] # NoReport => t = u

SavedStands ==
  \A q \in Calls : filing[q].at = "saved" =>
    /\ filing[q].ask.kind = "report" =>
         LET row == reports[TableOf(filing[q].ask.about)][filing[q].ask.fid]
         IN row # NoReport /\ row.about = filing[q].ask.about /\ row.payload = filing[q].ask.payload
    /\ filing[q].ask.kind = "review" =>
         reviews[filing[q].ask.rid] = [fid |-> filing[q].ask.fid, status |-> filing[q].ask.status]

Decided(t, f) ==
  reports[t][f] # NoReport /\ reports[t][f].workflow # NoReport
     => \E r \in Reviews : reviews[r] = [fid |-> f, status |-> reports[t][f].workflow]

ReviewsStand == \A t \in Tables, f \in Reports : Decided(t, f)

(* What a reader has of the report f, if nobody touched it: it was there *)
(* when the first page was read if it is there now, and it was shown once *)
(* if the cursor is past it, else not at all. *)
ReadSoFar(f) ==
  /\ pages.at # "new" => (f \in pages.there <=> \E t \in Tables : reports[t][f] # NoReport)
  /\ f \notin pages.there => pages.seen[f] = 0
  /\ pages.at = "read" /\ f \in pages.there => pages.seen[f] = 1
  /\ \A t \in Tables : pages.at = "reading" /\ reports[t][f] # NoReport =>
       pages.seen[f] = IF Precedes(pages.cursor, <<reports[t][f].updated, f>>) THEN 0 ELSE 1

PagesSoFar ==
  /\ pages.at = "new" => \A f \in Reports : pages.seen[f] = 0
  /\ \A f \in Reports \ pages.changed : ReadSoFar(f)

ReportsInv ==
  /\ ReportsTyped /\ CallsHoldLocks /\ CheckedIsFree /\ OneTable
  /\ SavedStands /\ ReviewsStand /\ PagesSoFar

LEMMA AskedFields ==
  ASSUME NEW ask \in Sendable
  PROVE  /\ ask.fid \in Reports
         /\ ask.kind \in {"report", "review", "mark"}
         /\ ask.kind = "report" => ask.about \in Answers \cup Conversations /\ ask.payload \in Payloads
         /\ ask.kind = "review" => ask.rid \in Reviews /\ ask.status \in Statuses
         /\ ask.kind = "mark" => ask.table \in Tables /\ ask.reviewed \in BOOLEAN
BY DEF Sendable, Submissions, Decisions, Marks

LEMMA TableFields ==
  /\ \A target : TableOf(target) \in Tables
  /\ \A t, u \in Tables : u # t => u = Other(t)
  /\ \A t \in Tables : Other(t) \in Tables /\ Other(t) # t
<1>1. \A target : TableOf(target) \in Tables
  BY DEF TableOf, Tables
<1>2. ASSUME NEW t \in Tables PROVE Other(t) \in Tables /\ Other(t) # t
  <2>1. \E u \in Tables : u # t
    BY DEF Tables
  <2> QED BY <2>1 DEF Other
<1>3. ASSUME NEW t \in Tables, NEW u \in Tables, u # t PROVE u = Other(t)
  BY <1>2, <1>3 DEF Tables
<1> QED BY <1>1, <1>2, <1>3

(* What a call does to itself alone. *)
LEMMA FilingMoves ==
  ASSUME ReportsTyped, NEW q \in Calls,
         NEW at \in {"new", "begun", "locked", "checked", "saved", "refused"},
         filing[q].at # "new", filing' = Replied(q, at)
  PROVE  /\ filing' \in [Calls -> Filings]
         /\ filing'[q].at = at /\ filing'[q].ask = filing[q].ask /\ filing'[q].stamp = filing[q].stamp
         /\ \A p \in Calls \ {q} : filing'[p] = filing[p]
         /\ \A p \in Calls : filing'[p].at # "new" => filing'[p].ask \in Sendable
<1>1. /\ filing \in [Calls -> Filings] /\ filing[q] \in Filings /\ filing[q].ask \in Sendable
      /\ \A p \in Calls : filing[p].at # "new" => filing[p].ask \in Sendable
  BY DEF ReportsTyped
<1>2. PICK v : v = [filing[q] EXCEPT !.at = at]
  OBVIOUS
<1>3. v \in Filings /\ v.at = at /\ v.ask = filing[q].ask /\ v.stamp = filing[q].stamp
  BY <1>1, <1>2 DEF Filings
<1>4. filing' = [filing EXCEPT ![q] = v]
  BY <1>1, <1>2 DEF Replied
<1> QED BY <1>1, <1>3, <1>4

(* The locks a call frees at its end, and those it leaves alone. *)
LEMMA UnlocksOwn ==
  ASSUME ReportsTyped, ChatReportsAssumption, NEW q \in Calls, idLocks' = Unlocked(q)
  PROVE  /\ idLocks' \in [Reports \cup Reviews -> Calls \cup {NoReport}]
         /\ \A i \in Reports \cup Reviews : idLocks[i] \notin {q, NoReport} => idLocks'[i] = idLocks[i]
BY DEF ReportsTyped, Unlocked

(* Reports, reviews and pages left alone. *)
LEMMA RowsLeft ==
  ASSUME ReportsInv, UNCHANGED <<reports, reviews, pages>>
  PROVE  OneTable' /\ ReviewsStand' /\ PagesSoFar'
<1>1. OneTable'
  BY DEF ReportsInv, OneTable
<1>2. ReviewsStand'
  BY DEF ReportsInv, ReviewsStand, Decided
<1>3. PagesSoFar'
  BY DEF ReportsInv, PagesSoFar, ReadSoFar, Precedes
<1> QED BY <1>1, <1>2, <1>3

(* What is saved and left alone stays. *)
LEMMA SavedKept ==
  ASSUME SavedStands, UNCHANGED <<reports, reviews>>,
         \A p \in Calls : filing'[p].at = "saved" => filing'[p] = filing[p]
  PROVE  SavedStands'
<1> SUFFICES ASSUME NEW p \in Calls, filing'[p].at = "saved"
             PROVE  /\ filing'[p].ask.kind = "report" =>
                         LET row == reports'[TableOf(filing'[p].ask.about)][filing'[p].ask.fid]
                         IN row # NoReport /\ row.about = filing'[p].ask.about /\ row.payload = filing'[p].ask.payload
                    /\ filing'[p].ask.kind = "review" =>
                         reviews'[filing'[p].ask.rid] = [fid |-> filing'[p].ask.fid, status |-> filing'[p].ask.status]
  BY DEF SavedStands, TableOf
<1>1. filing'[p] = filing[p] /\ filing[p].at = "saved"
  OBVIOUS
<1>2. /\ filing[p].ask.kind = "report" =>
           LET row == reports[TableOf(filing[p].ask.about)][filing[p].ask.fid]
           IN row # NoReport /\ row.about = filing[p].ask.about /\ row.payload = filing[p].ask.payload
      /\ filing[p].ask.kind = "review" =>
           reviews[filing[p].ask.rid] = [fid |-> filing[p].ask.fid, status |-> filing[p].ask.status]
  BY <1>1 DEF SavedStands
<1> QED BY <1>1, <1>2

(* A call of which only the answer changes, the tables left alone. *)
LEMMA CallsAnswered ==
  ASSUME ReportsInv, ChatReportsAssumption, NEW q \in Calls,
         NEW at \in {"saved", "refused"},
         filing[q].at # "new", filing' = Replied(q, at),
         idLocks' = Unlocked(q) \/ (UNCHANGED idLocks /\ filing[q].ask.kind = "mark"),
         UNCHANGED <<reportTime, answered>>,
         reports' \in [Tables -> [Reports -> FiledRows \cup {NoReport}]],
         reviews' \in [Reviews -> Judgements \cup {NoReport}],
         pages' \in Readings,
         (* rows stay, and say what they said *)
         \A t \in Tables, f \in Reports :
            reports[t][f] # NoReport =>
               /\ reports'[t][f] # NoReport
               /\ reports'[t][f].about = reports[t][f].about
               /\ reports'[t][f].payload = reports[t][f].payload,
         \A r \in Reviews : reviews[r] # NoReport => reviews'[r] = reviews[r],
         (* a row appears under the lock of the one call that checked *)
         \A t \in Tables, f \in Reports :
            reports[t][f] = NoReport /\ reports'[t][f] # NoReport =>
               filing[q].at = "checked" /\ filing[q].ask.kind = "report" /\ f = filing[q].ask.fid,
         at = "saved" =>
           /\ filing[q].ask.kind = "report" =>
                LET row == reports'[TableOf(filing[q].ask.about)][filing[q].ask.fid]
                IN row # NoReport /\ row.about = filing[q].ask.about /\ row.payload = filing[q].ask.payload
           /\ filing[q].ask.kind = "review" =>
                reviews'[filing[q].ask.rid] = [fid |-> filing[q].ask.fid, status |-> filing[q].ask.status]
  PROVE  ReportsTyped' /\ CallsHoldLocks' /\ CheckedIsFree' /\ SavedStands'
<1>1. /\ filing' \in [Calls -> Filings]
      /\ filing'[q].at = at /\ filing'[q].ask = filing[q].ask
      /\ \A p \in Calls \ {q} : filing'[p] = filing[p]
      /\ \A p \in Calls : filing'[p].at # "new" => filing'[p].ask \in Sendable
  BY FilingMoves DEF ReportsInv
<1>2. /\ idLocks' \in [Reports \cup Reviews -> Calls \cup {NoReport}]
      /\ \A i \in Reports \cup Reviews : idLocks[i] \notin {q, NoReport} => idLocks'[i] = idLocks[i]
  BY UnlocksOwn DEF ReportsInv, ReportsTyped
<1>3. \A p \in Calls : filing[p].at # "new" => filing[p].ask \in Sendable
  BY DEF ReportsInv, ReportsTyped
<1>4. ReportsTyped'
  BY <1>1, <1>2 DEF ReportsInv, ReportsTyped
<1>5. NoReport \notin Calls
  BY DEF ChatReportsAssumption
<1>6. CallsHoldLocks'
  <2> SUFFICES ASSUME NEW p \in Calls, filing'[p].at \in {"locked", "checked"}
               PROVE  /\ filing'[p].ask.kind # "mark"
                      /\ idLocks'[filing'[p].ask.fid] = p
                      /\ filing'[p].at = "checked" /\ filing'[p].ask.kind = "review" => idLocks'[filing'[p].ask.rid] = p
    BY DEF CallsHoldLocks
  <2>1. p # q /\ filing'[p] = filing[p]
    BY <1>1
  <2>2. filing[p].ask \in Sendable
    BY <1>3, <2>1
  <2>3. filing[p].ask.fid \in Reports /\ (filing[p].ask.kind = "review" => filing[p].ask.rid \in Reviews)
    BY <2>2, AskedFields
  <2>4. /\ filing[p].ask.kind # "mark" /\ idLocks[filing[p].ask.fid] = p
        /\ filing[p].at = "checked" /\ filing[p].ask.kind = "review" => idLocks[filing[p].ask.rid] = p
    BY <2>1 DEF ReportsInv, CallsHoldLocks
  <2> QED BY <1>2, <1>5, <2>1, <2>3, <2>4
<1>7. CheckedIsFree'
  <2> SUFFICES ASSUME NEW p \in Calls, filing'[p].at = "checked", filing'[p].ask.kind = "report", NEW t \in Tables
               PROVE  reports'[t][filing'[p].ask.fid] = NoReport
    BY DEF CheckedIsFree
  <2>1. p # q /\ filing'[p] = filing[p]
    BY <1>1
  <2>2. filing[p].ask \in Sendable
    BY <1>3, <2>1
  <2>3. filing[p].ask.fid \in Reports
    BY <2>2, AskedFields
  <2>4. idLocks[filing[p].ask.fid] = p /\ reports[t][filing[p].ask.fid] = NoReport
    BY <2>1 DEF ReportsInv, CallsHoldLocks, CheckedIsFree
  <2>5. filing[q].at = "checked" => idLocks[filing[q].ask.fid] = q
    BY DEF ReportsInv, CallsHoldLocks
  <2> QED BY <2>1, <2>3, <2>4, <2>5
<1>8. SavedStands'
  <2> SUFFICES ASSUME NEW p \in Calls, filing'[p].at = "saved"
               PROVE  /\ filing'[p].ask.kind = "report" =>
                           LET row == reports'[TableOf(filing'[p].ask.about)][filing'[p].ask.fid]
                           IN row # NoReport /\ row.about = filing'[p].ask.about /\ row.payload = filing'[p].ask.payload
                      /\ filing'[p].ask.kind = "review" =>
                           reviews'[filing'[p].ask.rid] = [fid |-> filing'[p].ask.fid, status |-> filing'[p].ask.status]
    BY DEF SavedStands, TableOf
  <2>1. CASE p = q
    BY <1>1, <2>1
  <2>2. CASE p # q
    <3>1. filing'[p] = filing[p] /\ filing[p].at = "saved" /\ filing[p].ask \in Sendable
      BY <1>1, <1>3, <2>2
    <3>2. filing[p].ask.fid \in Reports /\ (filing[p].ask.kind = "review" => filing[p].ask.rid \in Reviews)
      BY <3>1, AskedFields
    <3>3. TableOf(filing[p].ask.about) \in Tables
      BY TableFields
    <3>4. [fid |-> filing[p].ask.fid, status |-> filing[p].ask.status] # NoReport \/ filing[p].ask.kind # "review"
      <4>1. SUFFICES ASSUME filing[p].ask.kind = "review"
                     PROVE  [fid |-> filing[p].ask.fid, status |-> filing[p].ask.status] # NoReport
        OBVIOUS
      <4>2. filing[p].ask.status \in Statuses
        BY <3>1, <4>1, AskedFields
      <4> QED BY <3>2, <4>2 DEF ChatReportsAssumption
    <3>5. /\ filing[p].ask.kind = "report" =>
               LET row == reports[TableOf(filing[p].ask.about)][filing[p].ask.fid]
               IN row # NoReport /\ row.about = filing[p].ask.about /\ row.payload = filing[p].ask.payload
          /\ filing[p].ask.kind = "review" =>
               reviews[filing[p].ask.rid] = [fid |-> filing[p].ask.fid, status |-> filing[p].ask.status]
      BY <3>1 DEF ReportsInv, SavedStands
    <3>6. ASSUME filing[p].ask.kind = "report"
          PROVE  LET row == reports'[TableOf(filing[p].ask.about)][filing[p].ask.fid]
                 IN row # NoReport /\ row.about = filing[p].ask.about /\ row.payload = filing[p].ask.payload
      BY <3>2, <3>3, <3>5, <3>6
    <3>7. ASSUME filing[p].ask.kind = "review"
          PROVE  reviews'[filing[p].ask.rid] = [fid |-> filing[p].ask.fid, status |-> filing[p].ask.status]
      BY <3>2, <3>4, <3>5, <3>7
    <3> QED BY <3>1, <3>6, <3>7
  <2> QED BY <2>1, <2>2
<1> QED BY <1>4, <1>6, <1>7, <1>8

(* A call begins. *)
LEMMA Begins ==
  ASSUME ReportsInv, ChatReportsAssumption, NEW q \in Calls, NEW ask \in Sendable, BeginFiling(q, ask)
  PROVE  ReportsInv'
<1>1. PICK v : v = [at |-> "begun", stamp |-> reportTime, ask |-> ask]
  OBVIOUS
<1>2. v \in Filings /\ v.at = "begun" /\ v.ask = ask
  BY <1>1 DEF Filings, ReportsInv, ReportsTyped
<1>3. filing' = [filing EXCEPT ![q] = v] /\ UNCHANGED <<reportTime, answered, reports, reviews, idLocks, pages>>
  BY <1>1 DEF BeginFiling
<1>4. /\ filing' \in [Calls -> Filings] /\ filing'[q] = v
      /\ \A p \in Calls \ {q} : filing'[p] = filing[p]
  BY <1>2, <1>3 DEF ReportsInv, ReportsTyped
<1>5. ReportsTyped'
  BY <1>2, <1>3, <1>4 DEF ReportsInv, ReportsTyped
<1>6. CallsHoldLocks' /\ CheckedIsFree'
  BY <1>2, <1>3, <1>4 DEF ReportsInv, CallsHoldLocks, CheckedIsFree
<1>7. SavedStands'
  BY <1>2, <1>3, <1>4 DEF ReportsInv, SavedStands, TableOf
<1> QED BY <1>3, <1>5, <1>6, <1>7, RowsLeft DEF ReportsInv

(* A lock is taken: the call goes on, and no other call had that lock. *)
LEMMA LockTaken ==
  ASSUME ReportsInv, ChatReportsAssumption, NEW q \in Calls, NEW at \in {"locked", "checked"},
         NEW id \in Reports \cup Reviews, LockId(q, id), filing[q].at # "new", filing' = Replied(q, at),
         filing[q].ask.kind # "mark",
         IF at = "locked" THEN id = filing[q].ask.fid
         ELSE filing[q].at = "locked" /\ filing[q].ask.kind = "review" /\ id = filing[q].ask.rid,
         UNCHANGED <<reportTime, answered, reports, reviews, pages>>
  PROVE  ReportsInv'
<1>1. /\ filing' \in [Calls -> Filings]
      /\ filing'[q].at = at /\ filing'[q].ask = filing[q].ask
      /\ \A p \in Calls \ {q} : filing'[p] = filing[p]
      /\ \A p \in Calls : filing'[p].at # "new" => filing'[p].ask \in Sendable
  BY FilingMoves DEF ReportsInv
<1>2. /\ idLocks[id] = NoReport /\ idLocks' \in [Reports \cup Reviews -> Calls \cup {NoReport}]
      /\ idLocks'[id] = q /\ \A i \in (Reports \cup Reviews) \ {id} : idLocks'[i] = idLocks[i]
  BY DEF LockId, ReportsInv, ReportsTyped
<1>3. ReportsTyped'
  BY <1>1, <1>2 DEF ReportsInv, ReportsTyped
<1>4. CallsHoldLocks'
  <2> SUFFICES ASSUME NEW p \in Calls, filing'[p].at \in {"locked", "checked"}
               PROVE  /\ filing'[p].ask.kind # "mark"
                      /\ idLocks'[filing'[p].ask.fid] = p
                      /\ filing'[p].at = "checked" /\ filing'[p].ask.kind = "review" => idLocks'[filing'[p].ask.rid] = p
    BY DEF CallsHoldLocks
  <2>1. filing'[p].ask = filing[p].ask /\ filing[p].ask \in Sendable
    BY <1>1
  <2>2. filing[p].ask.fid \in Reports /\ (filing[p].ask.kind = "review" => filing[p].ask.rid \in Reviews)
    BY <2>1, AskedFields
  <2>3. NoReport \notin Calls
    BY DEF ChatReportsAssumption
  <2>4. filing[p].at \in {"locked", "checked"} =>
          /\ filing[p].ask.kind # "mark"
          /\ idLocks[filing[p].ask.fid] = p
          /\ filing[p].at = "checked" /\ filing[p].ask.kind = "review" => idLocks[filing[p].ask.rid] = p
    BY DEF ReportsInv, CallsHoldLocks
  <2>5. CASE p = q
    BY <1>1, <1>2, <2>1, <2>2, <2>3, <2>4, <2>5
  <2>6. CASE p # q
    <3>1. filing'[p] = filing[p]
      BY <1>1, <2>6
    <3> QED BY <1>2, <2>2, <2>3, <2>4, <3>1
  <2> QED BY <2>5, <2>6
<1>5. CheckedIsFree'
  BY <1>1 DEF ReportsInv, CheckedIsFree
<1>6. SavedStands'
  <2>1. \A p \in Calls : filing'[p].at = "saved" => filing'[p] = filing[p]
    BY <1>1
  <2>2. UNCHANGED <<reports, reviews>> /\ SavedStands
    BY DEF ReportsInv
  <2> QED BY <2>1, <2>2, SavedKept
<1> QED BY <1>3, <1>4, <1>5, <1>6, RowsLeft DEF ReportsInv

LEMMA Locks ==
  ASSUME ReportsInv, ChatReportsAssumption, NEW q \in Calls, LockReport(q)
  PROVE  ReportsInv'
<1>1. filing[q].ask \in Sendable
  BY DEF LockReport, ReportsInv, ReportsTyped
<1>2. filing[q].ask.fid \in Reports
  BY <1>1, AskedFields
<1> QED BY <1>2, LockTaken DEF LockReport

(* A submission is compared with what its id already stands for. *)
LEMMA Checks ==
  ASSUME ReportsInv, ChatReportsAssumption, NEW q \in Calls, Check(q)
  PROVE  ReportsInv'
<1>1. /\ filing[q].at = "locked" /\ filing[q].ask.kind = "report" /\ filing[q].ask \in Sendable
      /\ UNCHANGED <<reportTime, answered, reports, reviews, pages>>
  BY DEF Check, ReportsInv, ReportsTyped
<1>2. filing[q].ask.fid \in Reports /\ TableOf(filing[q].ask.about) \in Tables
  BY <1>1, AskedFields, TableFields
<1>3. CASE ~Conflicts(q) /\ ~Repeated(q) /\ ~TooEarly(q)
  <2>1. filing' = Replied(q, "checked")
    BY <1>3 DEF Check
  <2>2. /\ filing' \in [Calls -> Filings]
        /\ filing'[q].at = "checked" /\ filing'[q].ask = filing[q].ask
        /\ \A p \in Calls \ {q} : filing'[p] = filing[p]
        /\ \A p \in Calls : filing'[p].at # "new" => filing'[p].ask \in Sendable
    BY <1>1, <2>1, FilingMoves DEF ReportsInv
  <2>3. UNCHANGED idLocks
    BY <2>2 DEF Check
  <2>4. ReportsTyped'
    BY <1>1, <2>2, <2>3 DEF ReportsInv, ReportsTyped
  <2>5. CallsHoldLocks'
    BY <1>1, <2>2, <2>3 DEF ReportsInv, CallsHoldLocks
  <2>6. \A t \in Tables : reports[t][filing[q].ask.fid] = NoReport
    <3>1. /\ reports[Other(TableOf(filing[q].ask.about))][filing[q].ask.fid] = NoReport
          /\ reports[TableOf(filing[q].ask.about)][filing[q].ask.fid] = NoReport
      BY <1>3 DEF Conflicts, Repeated
    <3> QED BY <1>2, <3>1, TableFields
  <2>7. CheckedIsFree'
    BY <1>1, <2>2, <2>6 DEF ReportsInv, CheckedIsFree
  <2>8. SavedStands'
    BY <1>1, <2>2, SavedKept DEF ReportsInv
  <2> QED BY <1>1, <2>4, <2>5, <2>7, <2>8, RowsLeft DEF ReportsInv
<1>4. CASE ~(~Conflicts(q) /\ ~Repeated(q) /\ ~TooEarly(q))
  <2>1. PICK at \in {"saved", "refused"} :
          /\ filing' = Replied(q, at)
          /\ at = "saved" => ~Conflicts(q) /\ Repeated(q)
    BY <1>4 DEF Check
  <2>2. filing'[q].at = at
    BY <1>1, <2>1, FilingMoves DEF ReportsInv
  <2>3. idLocks' = Unlocked(q)
    BY <2>2 DEF Check
  <2>4. at = "saved" =>
          LET row == reports[TableOf(filing[q].ask.about)][filing[q].ask.fid]
          IN row # NoReport /\ row.about = filing[q].ask.about /\ row.payload = filing[q].ask.payload
    BY <2>1 DEF Conflicts, Repeated
  <2>5. /\ reports \in [Tables -> [Reports -> FiledRows \cup {NoReport}]]
        /\ reviews \in [Reviews -> Judgements \cup {NoReport}] /\ pages \in Readings
    BY DEF ReportsInv, ReportsTyped
  <2>6. ReportsTyped' /\ CallsHoldLocks' /\ CheckedIsFree' /\ SavedStands'
    BY <1>1, <2>1, <2>3, <2>4, <2>5, CallsAnswered
  <2> QED BY <1>1, <2>6, RowsLeft DEF ReportsInv
<1> QED BY <1>3, <1>4

LEMMA FindsReport ==
  ASSUME ReportsInv, ChatReportsAssumption, NEW q \in Calls, Find(q)
  PROVE  ReportsInv'
<1>1. /\ filing[q].at = "locked" /\ filing[q].ask.kind = "review" /\ filing[q].ask \in Sendable
      /\ UNCHANGED <<reportTime, answered, reports, reviews, pages>>
  BY DEF Find, ReportsInv, ReportsTyped
<1>2. filing[q].ask.rid \in Reviews
  BY <1>1, AskedFields
<1>3. CASE Cardinality(Stored(filing[q].ask.fid)) = 1
  <2>1. LockId(q, filing[q].ask.rid) /\ filing' = Replied(q, "checked")
    BY <1>3 DEF Find
  <2> QED BY <1>1, <1>2, <2>1, LockTaken
<1>4. CASE Cardinality(Stored(filing[q].ask.fid)) # 1
  <2>1. filing' = Replied(q, "refused") /\ idLocks' = Unlocked(q)
    BY <1>4 DEF Find
  <2>2. /\ reports \in [Tables -> [Reports -> FiledRows \cup {NoReport}]]
        /\ reviews \in [Reviews -> Judgements \cup {NoReport}] /\ pages \in Readings
    BY DEF ReportsInv, ReportsTyped
  <2>3. ReportsTyped' /\ CallsHoldLocks' /\ CheckedIsFree' /\ SavedStands'
    BY <1>1, <2>1, <2>2, CallsAnswered
  <2> QED BY <1>1, <2>3, RowsLeft DEF ReportsInv
<1> QED BY <1>3, <1>4

(* The row of one report is written: what a reader has of the others stays. *)
LEMMA RowWritten ==
  ASSUME ReportsInv, NEW t \in Tables, NEW f \in Reports, NEW row \in FiledRows,
         reports' = [reports EXCEPT ![t] = [@ EXCEPT ![f] = row]],
         pages' = [pages EXCEPT !.changed = @ \cup {f}]
  PROVE  /\ reports' \in [Tables -> [Reports -> FiledRows \cup {NoReport}]]
         /\ reports'[t][f] = row
         /\ \A u \in Tables, g \in Reports : u # t \/ g # f => reports'[u][g] = reports[u][g]
         /\ pages' \in Readings
         /\ PagesSoFar'
<1>1. /\ reports \in [Tables -> [Reports -> FiledRows \cup {NoReport}]] /\ pages \in Readings
  BY DEF ReportsInv, ReportsTyped
<1>2. /\ reports' \in [Tables -> [Reports -> FiledRows \cup {NoReport}]]
      /\ reports'[t][f] = row
      /\ \A u \in Tables, g \in Reports : u # t \/ g # f => reports'[u][g] = reports[u][g]
  BY <1>1
<1>3. /\ pages' \in Readings /\ pages'.at = pages.at /\ pages'.newest = pages.newest
      /\ pages'.cursor = pages.cursor /\ pages'.seen = pages.seen /\ pages'.there = pages.there
      /\ pages'.changed = pages.changed \cup {f}
  BY <1>1 DEF Readings
<1>4. PagesSoFar'
  <2>1. pages'.at = "new" => \A g \in Reports : pages'.seen[g] = 0
    BY <1>3 DEF ReportsInv, PagesSoFar
  <2>2. ASSUME NEW g \in Reports \ pages'.changed PROVE ReadSoFar(g)'
    <3>1. g # f /\ g \in Reports \ pages.changed
      BY <1>3, <2>2
    <3>2. ReadSoFar(g)
      BY <3>1 DEF ReportsInv, PagesSoFar
    <3>3. \A u \in Tables : reports'[u][g] = reports[u][g]
      BY <1>2, <3>1
    <3>4. \A x, y : Precedes(x, y)' <=> Precedes(x, y)
      BY <1>3 DEF Precedes
    <3> QED BY <1>3, <3>2, <3>3, <3>4 DEF ReadSoFar
  <2> QED BY <2>1, <2>2 DEF PagesSoFar
<1> QED BY <1>2, <1>3, <1>4

LEMMA Inserts ==
  ASSUME ReportsInv, ChatReportsAssumption, NEW q \in Calls, Insert(q)
  PROVE  ReportsInv'
<1>1. /\ filing[q].at = "checked" /\ filing[q].ask.kind = "report" /\ filing[q].ask \in Sendable
      /\ filing[q] \in Filings
      /\ filing' = Replied(q, "saved") /\ idLocks' = Unlocked(q)
      /\ UNCHANGED <<reportTime, answered, reviews>>
  BY DEF Insert, ReportsInv, ReportsTyped
<1>2. PICK t \in Tables : t = TableOf(filing[q].ask.about)
  BY TableFields
<1>3. PICK f \in Reports : f = filing[q].ask.fid
  BY <1>1, AskedFields
<1>4. PICK row : row = [about |-> filing[q].ask.about, payload |-> filing[q].ask.payload,
                        updated |-> filing[q].stamp, workflow |-> NoReport, reviewed |-> FALSE]
  OBVIOUS
<1>5. /\ row \in FiledRows /\ row.about = filing[q].ask.about /\ row.payload = filing[q].ask.payload
      /\ row.workflow = NoReport
  <2>1. filing[q].stamp \in 0..MaxReportTime
    BY <1>1 DEF Filings
  <2> QED BY <1>1, <1>4, <2>1, AskedFields DEF FiledRows
<1>6. /\ reports' = [reports EXCEPT ![t] = [@ EXCEPT ![f] = row]]
      /\ pages' = [pages EXCEPT !.changed = @ \cup {f}]
  BY <1>2, <1>3, <1>4 DEF Insert
<1>7. /\ reports' \in [Tables -> [Reports -> FiledRows \cup {NoReport}]]
      /\ reports'[t][f] = row
      /\ \A u \in Tables, g \in Reports : u # t \/ g # f => reports'[u][g] = reports[u][g]
      /\ pages' \in Readings /\ PagesSoFar'
  BY <1>5, <1>6, RowWritten
<1>8. row # NoReport /\ \A u \in Tables : reports[u][f] = NoReport
  BY <1>1, <1>3, <1>5 DEF ReportsInv, CheckedIsFree, ChatReportsAssumption, FiledRows
<1>9. ReportsTyped' /\ CallsHoldLocks' /\ CheckedIsFree' /\ SavedStands'
  <2>1. \A u \in Tables, g \in Reports :
            reports[u][g] # NoReport =>
               /\ reports'[u][g] # NoReport
               /\ reports'[u][g].about = reports[u][g].about
               /\ reports'[u][g].payload = reports[u][g].payload
    BY <1>7, <1>8
  <2>2. \A u \in Tables, g \in Reports :
            reports[u][g] = NoReport /\ reports'[u][g] # NoReport =>
               /\ filing[q].at = "checked" /\ filing[q].ask.kind = "report" /\ g = filing[q].ask.fid
    BY <1>1, <1>3, <1>7
  <2>3. LET r == reports'[TableOf(filing[q].ask.about)][filing[q].ask.fid]
        IN r # NoReport /\ r.about = filing[q].ask.about /\ r.payload = filing[q].ask.payload
    BY <1>2, <1>3, <1>5, <1>7, <1>8
  <2>4. reviews' \in [Reviews -> Judgements \cup {NoReport}]
    BY <1>1 DEF ReportsInv, ReportsTyped
  <2> QED BY <1>1, <1>7, <2>1, <2>2, <2>3, <2>4, CallsAnswered
<1>10. OneTable'
  BY <1>7, <1>8 DEF ReportsInv, OneTable
<1>11. ReviewsStand'
  <2> SUFFICES ASSUME NEW u \in Tables, NEW g \in Reports,
                      reports'[u][g] # NoReport /\ reports'[u][g].workflow # NoReport
               PROVE  \E r \in Reviews : reviews[r] = [fid |-> g, status |-> reports'[u][g].workflow]
    BY <1>1 DEF ReviewsStand, Decided
  <2>1. reports'[u][g] = reports[u][g]
    BY <1>5, <1>7
  <2> QED BY <2>1 DEF ReportsInv, ReviewsStand, Decided
<1> QED BY <1>7, <1>9, <1>10, <1>11 DEF ReportsInv

(* A row that stays what it is about, with its report's reviews. *)
LEMMA RowUpdated ==
  ASSUME ReportsInv, ChatReportsAssumption, NEW q \in Calls, filing[q].at # "new",
         NEW t \in Tables, NEW f \in Reports, NEW row \in FiledRows,
         reports[t][f] # NoReport, row.about = reports[t][f].about, row.payload = reports[t][f].payload,
         reports' = [reports EXCEPT ![t] = [@ EXCEPT ![f] = row]],
         pages' = [pages EXCEPT !.changed = @ \cup {f}],
         reviews' \in [Reviews -> Judgements \cup {NoReport}],
         \A r \in Reviews : reviews[r] # NoReport => reviews'[r] = reviews[r],
         row.workflow = reports[t][f].workflow
           \/ \E r \in Reviews : reviews'[r] = [fid |-> f, status |-> row.workflow],
         filing[q].ask.kind # "report",
         filing[q].ask.kind = "review" =>
           reviews'[filing[q].ask.rid] = [fid |-> filing[q].ask.fid, status |-> filing[q].ask.status],
         filing' = Replied(q, "saved"), UNCHANGED <<reportTime, answered>>,
         idLocks' = Unlocked(q) \/ (UNCHANGED idLocks /\ filing[q].ask.kind = "mark")
  PROVE  ReportsInv'
<1>1. /\ reports' \in [Tables -> [Reports -> FiledRows \cup {NoReport}]]
      /\ reports'[t][f] = row
      /\ \A u \in Tables, g \in Reports : u # t \/ g # f => reports'[u][g] = reports[u][g]
      /\ pages' \in Readings /\ PagesSoFar'
  BY RowWritten
<1>2. row # NoReport
  BY DEF ChatReportsAssumption, FiledRows
<1>3. ReportsTyped' /\ CallsHoldLocks' /\ CheckedIsFree' /\ SavedStands'
  <2>1. \A u \in Tables, g \in Reports :
            reports[u][g] # NoReport =>
               /\ reports'[u][g] # NoReport
               /\ reports'[u][g].about = reports[u][g].about
               /\ reports'[u][g].payload = reports[u][g].payload
    BY <1>1, <1>2
  <2>2. \A u \in Tables, g \in Reports :
            ~(reports[u][g] = NoReport /\ reports'[u][g] # NoReport)
    BY <1>1
  <2> QED BY <1>1, <2>1, <2>2, CallsAnswered
<1>4. OneTable'
  BY <1>1 DEF ReportsInv, OneTable
<1>5. ReviewsStand'
  <2> SUFFICES ASSUME NEW u \in Tables, NEW g \in Reports,
                      reports'[u][g] # NoReport /\ reports'[u][g].workflow # NoReport
               PROVE  \E r \in Reviews : reviews'[r] = [fid |-> g, status |-> reports'[u][g].workflow]
    BY DEF ReviewsStand, Decided
  <2>1. CASE u = t /\ g = f /\ row.workflow # reports[t][f].workflow
    BY <1>1, <2>1
  <2>2. CASE ~(u = t /\ g = f /\ row.workflow # reports[t][f].workflow)
    <3>1. reports[u][g] # NoReport /\ reports'[u][g].workflow = reports[u][g].workflow
      BY <1>1, <2>2
    <3>2. PICK r \in Reviews : reviews[r] = [fid |-> g, status |-> reports[u][g].workflow]
      BY <3>1 DEF ReportsInv, ReviewsStand, Decided
    <3>3. reports[u][g].workflow \in Statuses
      BY <3>1 DEF ReportsInv, ReportsTyped, FiledRows
    <3>4. reviews[r] # NoReport
      BY <3>2, <3>3 DEF ChatReportsAssumption
    <3> QED BY <3>1, <3>2, <3>4
  <2> QED BY <2>1, <2>2
<1> QED BY <1>1, <1>3, <1>4, <1>5 DEF ReportsInv

LEMMA Decides ==
  ASSUME ReportsInv, ChatReportsAssumption, NEW q \in Calls, Decide(q)
  PROVE  ReportsInv'
<1>1. /\ filing[q].at = "checked" /\ filing[q].ask.kind = "review" /\ filing[q].ask \in Sendable
      /\ filing[q] \in Filings /\ idLocks' = Unlocked(q)
      /\ UNCHANGED <<reportTime, answered>>
  BY DEF Decide, ReportsInv, ReportsTyped
<1>2. /\ filing[q].ask.fid \in Reports /\ filing[q].ask.rid \in Reviews /\ filing[q].ask.status \in Statuses
      /\ filing[q].stamp \in 0..MaxReportTime
  BY <1>1, AskedFields DEF Filings
<1>3. /\ reports \in [Tables -> [Reports -> FiledRows \cup {NoReport}]]
      /\ reviews \in [Reviews -> Judgements \cup {NoReport}] /\ pages \in Readings
  BY DEF ReportsInv, ReportsTyped
<1>4. CASE reviews[filing[q].ask.rid] # NoReport
  <2>1. /\ filing' = Replied(q, IF SameReview(q) THEN "saved" ELSE "refused")
        /\ UNCHANGED <<reports, reviews, pages>>
    BY <1>4 DEF Decide
  <2>2. PICK at \in {"saved", "refused"} : filing' = Replied(q, at) /\ (at = "saved" => SameReview(q))
    BY <2>1
  <2>3. at = "saved" =>
          reviews[filing[q].ask.rid] = [fid |-> filing[q].ask.fid, status |-> filing[q].ask.status]
    <3>1. reviews[filing[q].ask.rid] \in Judgements
      BY <1>2, <1>3, <1>4
    <3> QED BY <2>2, <3>1 DEF SameReview, Judgements
  <2>4. ReportsTyped' /\ CallsHoldLocks' /\ CheckedIsFree' /\ SavedStands'
    BY <1>1, <1>3, <2>1, <2>2, <2>3, CallsAnswered
  <2> QED BY <2>1, <2>4, RowsLeft DEF ReportsInv
<1>5. CASE reviews[filing[q].ask.rid] = NoReport
  <2>1. PICK t \in Stored(filing[q].ask.fid) :
           reports' = [reports EXCEPT ![t][filing[q].ask.fid].workflow = filing[q].ask.status,
                                      ![t][filing[q].ask.fid].updated = filing[q].stamp]
    BY <1>5 DEF Decide
  <2>2. PICK f \in Reports : f = filing[q].ask.fid
    BY <1>2
  <2>3. t \in Tables /\ reports[t][f] # NoReport /\ reports[t][f] \in FiledRows
    BY <1>3, <2>2 DEF Stored
  <2>4. PICK row : row = [reports[t][f] EXCEPT !.workflow = filing[q].ask.status, !.updated = filing[q].stamp]
    OBVIOUS
  <2>5. /\ row \in FiledRows /\ row.about = reports[t][f].about /\ row.payload = reports[t][f].payload
        /\ row.workflow = filing[q].ask.status
    BY <1>2, <2>3, <2>4 DEF FiledRows
  <2>6. reports' = [reports EXCEPT ![t] = [@ EXCEPT ![f] = row]]
    BY <1>3, <2>1, <2>2, <2>3, <2>4
  <2>7. /\ reviews' = [reviews EXCEPT ![filing[q].ask.rid] =
                        [fid |-> filing[q].ask.fid, status |-> filing[q].ask.status]]
        /\ pages' = [pages EXCEPT !.changed = @ \cup {f}]
        /\ filing' = Replied(q, "saved")
    BY <1>5, <2>2 DEF Decide
  <2>8. /\ reviews' \in [Reviews -> Judgements \cup {NoReport}]
        /\ reviews'[filing[q].ask.rid] = [fid |-> filing[q].ask.fid, status |-> filing[q].ask.status]
        /\ \A r \in Reviews : reviews[r] # NoReport => reviews'[r] = reviews[r]
    BY <1>2, <1>3, <1>5, <2>7 DEF Judgements
  <2>9. \E r \in Reviews : reviews'[r] = [fid |-> f, status |-> row.workflow]
    BY <1>2, <2>2, <2>5, <2>8
  <2> QED BY <1>1, <2>3, <2>5, <2>6, <2>7, <2>8, <2>9, RowUpdated
<1> QED BY <1>4, <1>5

LEMMA MarksRow ==
  ASSUME ReportsInv, ChatReportsAssumption, NEW q \in Calls, MarkReport(q)
  PROVE  ReportsInv'
<1>1. /\ filing[q].at = "begun" /\ filing[q].ask.kind = "mark" /\ filing[q].ask \in Sendable
      /\ filing[q] \in Filings
      /\ UNCHANGED <<reportTime, answered, reviews, idLocks>>
  BY DEF MarkReport, ReportsInv, ReportsTyped
<1>2. /\ reports \in [Tables -> [Reports -> FiledRows \cup {NoReport}]]
      /\ reviews \in [Reviews -> Judgements \cup {NoReport}] /\ pages \in Readings
  BY DEF ReportsInv, ReportsTyped
<1>3. PICK t \in Tables, f \in Reports : t = filing[q].ask.table /\ f = filing[q].ask.fid
  BY <1>1, AskedFields
<1>4. CASE reports[t][f] = NoReport
  <2>1. filing' = Replied(q, "refused") /\ UNCHANGED <<reports, pages>>
    BY <1>3, <1>4 DEF MarkReport
  <2>2. ReportsTyped' /\ CallsHoldLocks' /\ CheckedIsFree' /\ SavedStands'
    BY <1>1, <1>2, <2>1, CallsAnswered
  <2> QED BY <1>1, <2>1, <2>2, RowsLeft DEF ReportsInv
<1>5. CASE reports[t][f] # NoReport
  <2>1. PICK row : row = [reports[t][f] EXCEPT !.reviewed = filing[q].ask.reviewed, !.updated = filing[q].stamp]
    OBVIOUS
  <2>2. /\ row \in FiledRows /\ row.about = reports[t][f].about /\ row.payload = reports[t][f].payload
        /\ row.workflow = reports[t][f].workflow
    <3>1. filing[q].ask.reviewed \in BOOLEAN /\ filing[q].stamp \in 0..MaxReportTime
      BY <1>1, AskedFields DEF Filings
    <3>2. reports[t][f] \in FiledRows
      BY <1>2, <1>5
    <3> QED BY <2>1, <3>1, <3>2 DEF FiledRows
  <2>3. /\ reports' = [reports EXCEPT ![t] = [@ EXCEPT ![f] = row]]
        /\ pages' = [pages EXCEPT !.changed = @ \cup {f}]
        /\ filing' = Replied(q, "saved")
    BY <1>3, <1>5, <2>1 DEF MarkReport
  <2> QED BY <1>1, <1>2, <1>5, <2>2, <2>3, RowUpdated
<1> QED BY <1>4, <1>5

(* What a page shows of a report that is in one table: its entry or none. *)
LEMMA ShownOnce ==
  ASSUME ReportsTyped, OneTable, NEW f \in Reports, NEW leaf \in SUBSET Listed
  PROVE  /\ \A t \in Tables : reports[t][f] # NoReport =>
              /\ Shows(leaf, f) = IF <<reports[t][f].updated, f>> \in leaf THEN 1 ELSE 0
              /\ <<reports[t][f].updated, f>> \in Listed
         /\ (\A t \in Tables : reports[t][f] = NoReport) => Shows(leaf, f) = 0
         /\ Shows(leaf, f) \in Nat
         /\ \A x \in Listed : x \in Nat \X Reports /\ \E t \in Tables : reports[t][x[2]] # NoReport
<1>1. \A t \in Tables, g \in Reports : Row(<<t, g>>) = reports[t][g] /\ Entry(<<t, g>>) = <<reports[t][g].updated, g>>
  BY DEF Row, Entry
<1>2. \A x : x \in Listed <=> \E t \in Tables, g \in Reports : reports[t][g] # NoReport /\ x = <<reports[t][g].updated, g>>
  <2>1. ASSUME NEW x \in Listed
        PROVE  \E t \in Tables, g \in Reports : reports[t][g] # NoReport /\ x = <<reports[t][g].updated, g>>
    <3>1. PICK k \in Tables \X Reports : Row(k) # NoReport /\ x = Entry(k)
      BY DEF Listed
    <3>2. PICK t \in Tables, g \in Reports : k = <<t, g>>
      OBVIOUS
    <3> QED BY <1>1, <3>1, <3>2
  <2>2. ASSUME NEW t \in Tables, NEW g \in Reports, reports[t][g] # NoReport
        PROVE  <<reports[t][g].updated, g>> \in Listed
    <3>1. <<t, g>> \in Tables \X Reports /\ Row(<<t, g>>) # NoReport
      BY <1>1, <2>2
    <3>2. Entry(<<t, g>>) \in Listed
      BY <3>1 DEF Listed
    <3> QED BY <1>1, <3>2
  <2> QED BY <2>1, <2>2
<1>3. \A t \in Tables, g \in Reports : reports[t][g] # NoReport => reports[t][g].updated \in Nat
  BY DEF ReportsTyped, FiledRows
<1>4. ASSUME NEW t \in Tables, reports[t][f] # NoReport
      PROVE  /\ Shows(leaf, f) = IF <<reports[t][f].updated, f>> \in leaf THEN 1 ELSE 0
             /\ <<reports[t][f].updated, f>> \in Listed
  <2>1. <<reports[t][f].updated, f>> \in Listed
    BY <1>2, <1>4
  <2>2. \A x \in leaf : x[2] = f => x = <<reports[t][f].updated, f>>
    <3> SUFFICES ASSUME NEW x \in leaf, x[2] = f PROVE x = <<reports[t][f].updated, f>>
      OBVIOUS
    <3>1. PICK u \in Tables, g \in Reports : reports[u][g] # NoReport /\ x = <<reports[u][g].updated, g>>
      BY <1>2
    <3>2. g = f
      BY <3>1
    <3>3. u = t
      BY <1>4, <3>1, <3>2 DEF OneTable
    <3> QED BY <3>1, <3>2, <3>3
  <2>3. CASE <<reports[t][f].updated, f>> \in leaf
    <3>1. {x \in leaf : x[2] = f} = {<<reports[t][f].updated, f>>}
      BY <2>2, <2>3
    <3> QED BY <2>1, <2>3, <3>1, FS_Singleton DEF Shows
  <2>4. CASE <<reports[t][f].updated, f>> \notin leaf
    <3>1. {x \in leaf : x[2] = f} = {}
      BY <2>2, <2>4
    <3> QED BY <2>1, <2>4, <3>1, FS_EmptySet DEF Shows
  <2> QED BY <2>3, <2>4
<1>5. ASSUME \A t \in Tables : reports[t][f] = NoReport PROVE Shows(leaf, f) = 0
  <2>1. {x \in leaf : x[2] = f} = {}
    BY <1>2, <1>5
  <2> QED BY <2>1, FS_EmptySet DEF Shows
<1>6. Shows(leaf, f) \in Nat
  <2>1. ASSUME NEW t \in Tables, reports[t][f] # NoReport PROVE Shows(leaf, f) \in Nat
    <3>1. Shows(leaf, f) = 0 \/ Shows(leaf, f) = 1
      BY <1>4, <2>1
    <3> QED BY <3>1
  <2>2. CASE \A t \in Tables : reports[t][f] = NoReport
    BY <1>5, <2>2
  <2> QED BY <2>1, <2>2
<1>7. \A x \in Listed : x \in Nat \X Reports /\ \E t \in Tables : reports[t][x[2]] # NoReport
  BY <1>2, <1>3
<1> QED BY <1>4, <1>5, <1>6, <1>7

(* A page is turned: what the reader has is what is not behind the cursor *)
(* any more. *)
LEMMA PageTurned ==
  ASSUME ReportsInv, ChatReportsAssumption, TurnPage
  PROVE  ReportsInv'
<1>1. /\ pages.at \in {"new", "reading"} /\ pages \in Readings
      /\ UNCHANGED <<reportTime, answered, reports, reviews, idLocks, filing>>
  BY DEF TurnPage, ReportsInv, ReportsTyped
<1>2. PICK leaf \in SUBSET Behind :
        /\ \A x \in leaf, y \in Behind \ leaf : Precedes(x, y)
        /\ \/ /\ leaf = Behind
              /\ pages' = [Turned(leaf) EXCEPT !.at = "read"]
           \/ \E last \in leaf :
                 /\ \A x \in leaf \ {last} : Precedes(x, last)
                 /\ pages' = [Turned(leaf) EXCEPT !.at = "reading", !.cursor = last]
  BY DEF TurnPage
<1>3. Behind \subseteq Listed /\ leaf \subseteq Listed
  BY <1>2 DEF Behind
<1>4. /\ \A f \in Reports, t \in Tables : reports[t][f] # NoReport =>
              /\ Shows(leaf, f) = IF <<reports[t][f].updated, f>> \in leaf THEN 1 ELSE 0
              /\ <<reports[t][f].updated, f>> \in Listed
      /\ \A f \in Reports : (\A t \in Tables : reports[t][f] = NoReport) => Shows(leaf, f) = 0
      /\ \A f \in Reports : Shows(leaf, f) \in Nat
      /\ \A x \in Listed : x \in Nat \X Reports /\ \E t \in Tables : reports[t][x[2]] # NoReport
  <2>1. leaf \in SUBSET Listed
    BY <1>3
  <2>2. ReportsTyped /\ OneTable
    BY DEF ReportsInv
  <2>3. Listed = {} \/ \E f \in Reports : TRUE
    BY DEF Listed
  <2> QED BY <2>1, <2>2, <2>3, ShownOnce
<1>5. PICK tally \in [Reports -> Nat] : tally = [f \in Reports |-> pages.seen[f] + Shows(leaf, f)]
  <2>1. \A f \in Reports : pages.seen[f] + Shows(leaf, f) \in Nat
    BY <1>1, <1>4 DEF Readings
  <2> QED BY <2>1
<1>6. PICK there \in SUBSET Reports : there = IF pages.at = "new" THEN {x[2] : x \in Listed} ELSE pages.there
  <2>1. {x[2] : x \in Listed} \subseteq Reports
    BY <1>4
  <2> QED BY <1>1, <2>1 DEF Readings
<1>7. PICK changed \in SUBSET Reports : changed = IF pages.at = "new" THEN {} ELSE pages.changed
  BY <1>1 DEF Readings
<1>8. PICK p : p = Turned(leaf)
  OBVIOUS
<1>9. /\ p \in Readings /\ p.at = pages.at /\ p.newest = pages.newest /\ p.cursor = pages.cursor
      /\ p.seen = tally /\ p.there = there /\ p.changed = changed
  <2>1. p = [pages EXCEPT !.seen = tally, !.there = there, !.changed = changed]
    BY <1>1, <1>5, <1>6, <1>7, <1>8 DEF Turned, Readings
  <2> QED BY <1>1, <2>1 DEF Readings
<1>10. PICK at \in {"read", "reading"}, last \in Nat \X Nat :
        /\ pages' = [p EXCEPT !.at = at, !.cursor = last]
        /\ at = "read" => leaf = Behind
        /\ at = "reading" => last \in leaf /\ \A x \in leaf \ {last} : Precedes(x, last)
  <2>1. CASE leaf = Behind /\ pages' = [Turned(leaf) EXCEPT !.at = "read"]
    <3>1. pages' = [p EXCEPT !.at = "read", !.cursor = pages.cursor] /\ pages.cursor \in Nat \X Nat
      BY <1>1, <1>8, <1>9, <2>1 DEF Readings
    <3> QED BY <2>1, <3>1
  <2>2. CASE \E last \in leaf :
               /\ \A x \in leaf \ {last} : Precedes(x, last)
               /\ pages' = [Turned(leaf) EXCEPT !.at = "reading", !.cursor = last]
    <3>1. \A x \in leaf : x \in Nat \X Nat
      BY <1>3, <1>4 DEF ChatReportsAssumption
    <3> QED BY <1>8, <2>2, <3>1
  <2> QED BY <1>2, <2>1, <2>2
<1>11. /\ pages' \in Readings /\ pages'.at = at /\ pages'.newest = pages.newest /\ pages'.cursor = last
       /\ pages'.seen = tally /\ pages'.there = there /\ pages'.changed = changed
  BY <1>9, <1>10 DEF Readings
<1>12. ASSUME NEW f \in Reports \ changed PROVE ReadSoFar(f)'
  <2>1. pages.at = "new" \/ f \notin pages.changed
    BY <1>7, <1>12
  <2>2. \A x, y : Precedes(x, y)' <=> Precedes(x, y)
    BY <1>11 DEF Precedes
  <2>3. f \in there <=> \E t \in Tables : reports[t][f] # NoReport
    <3>1. CASE pages.at = "new"
      <4>1. there = {x[2] : x \in Listed}
        BY <1>6, <3>1
      <4>2. ASSUME f \in there PROVE \E t \in Tables : reports[t][f] # NoReport
        BY <1>4, <4>1, <4>2
      <4>3. ASSUME NEW t \in Tables, reports[t][f] # NoReport PROVE f \in there
        <5>1. <<reports[t][f].updated, f>> \in Listed /\ <<reports[t][f].updated, f>>[2] = f
          BY <1>4, <4>3
        <5> QED BY <4>1, <5>1
      <4> QED BY <4>2, <4>3
    <3>2. CASE pages.at = "reading"
      BY <1>6, <2>1, <3>2 DEF ReportsInv, PagesSoFar, ReadSoFar
    <3> QED BY <1>1, <3>1, <3>2
  <2>4. ASSUME f \notin there PROVE tally[f] = 0
    <3>1. Shows(leaf, f) = 0
      BY <1>4, <2>3, <2>4
    <3>2. pages.seen[f] = 0
      BY <1>1, <1>6, <2>1, <2>4 DEF ReportsInv, PagesSoFar, ReadSoFar
    <3> QED BY <1>5, <3>1, <3>2
  <2>5. ASSUME NEW t \in Tables, reports[t][f] # NoReport
        PROVE  /\ at = "read" => tally[f] = 1
               /\ at = "reading" => tally[f] = IF Precedes(last, <<reports[t][f].updated, f>>) THEN 0 ELSE 1
    <3> DEFINE x == <<reports[t][f].updated, f>>
    <3>1. x \in Listed /\ x \in Nat \X Nat /\ Shows(leaf, f) = IF x \in leaf THEN 1 ELSE 0
      BY <1>4, <2>5 DEF ChatReportsAssumption
    <3>2. pages.seen[f] = IF x \in Behind THEN 0 ELSE 1
      <4>1. CASE pages.at = "new"
        BY <3>1, <4>1 DEF ReportsInv, PagesSoFar, Behind
      <4>2. CASE pages.at = "reading"
        <5>1. pages.seen[f] = IF Precedes(pages.cursor, x) THEN 0 ELSE 1
          BY <2>1, <2>5, <4>2 DEF ReportsInv, PagesSoFar, ReadSoFar
        <5> QED BY <3>1, <4>2, <5>1 DEF Behind
      <4> QED BY <1>1, <4>1, <4>2
    <3> HIDE DEF x
    <3>3. tally[f] = IF x \in Behind /\ x \notin leaf THEN 0 ELSE 1
      <4>1. tally[f] = pages.seen[f] + Shows(leaf, f)
        BY <1>5
      <4>2. x \in leaf => x \in Behind
        BY <1>2
      <4> QED BY <3>1, <3>2, <4>1, <4>2
    <3>4. CASE at = "read"
      BY <1>10, <3>3, <3>4
    <3>5. CASE at = "reading"
      <4>1. last \in leaf /\ last \in Behind /\ \A y \in leaf \ {last} : Precedes(y, last)
        BY <1>2, <1>10, <3>5
      <4>2. CASE x \in Behind /\ x \notin leaf
        BY <1>2, <3>3, <4>1, <4>2, <3>5 DEF x
      <4>3. CASE x \in leaf
        <5>1. x = last \/ Precedes(x, last)
          BY <4>1, <4>3
        <5>2. ~Precedes(last, x)
          BY <3>1, <5>1 DEF Precedes, Before
        <5> QED BY <3>3, <3>5, <4>3, <5>2 DEF x
      <4>4. CASE x \notin Behind
        <5>1. pages.at = "reading" /\ ~Precedes(pages.cursor, x)
          BY <3>1, <4>4 DEF Behind
        <5>2. Precedes(pages.cursor, last) /\ pages.cursor \in Nat \X Nat
          BY <1>1, <4>1, <5>1 DEF Behind, Readings
        <5>3. ~Precedes(last, x)
          BY <3>1, <5>1, <5>2 DEF Precedes, Before
        <5> QED BY <3>3, <3>5, <4>4, <5>3 DEF x
      <4> QED BY <4>2, <4>3, <4>4
    <3> QED BY <3>4, <3>5
  <2> QED BY <1>1, <1>11, <2>2, <2>3, <2>4, <2>5 DEF ReadSoFar
<1>13. PagesSoFar'
  BY <1>10, <1>11, <1>12 DEF PagesSoFar
<1>14. ReportsTyped' /\ CallsHoldLocks' /\ CheckedIsFree' /\ OneTable'
  BY <1>1, <1>11 DEF ReportsInv, ReportsTyped, CallsHoldLocks, CheckedIsFree, OneTable
<1>15. SavedStands'
  BY <1>1 DEF ReportsInv, SavedStands, TableOf
<1>16. ReviewsStand'
  BY <1>1 DEF ReportsInv, ReviewsStand, Decided
<1> QED BY <1>13, <1>14, <1>15, <1>16 DEF ReportsInv

LEMMA ReportsStart ==
  ASSUME ChatReportsAssumption, ReportsInit
  PROVE  ReportsInv
<1>1. PICK filed \in [Reports -> Answers \cup Conversations \cup {NoReport}] :
        reports = [t \in Tables |-> [f \in Reports |->
                IF filed[f] = NoReport \/ TableOf(filed[f]) # t THEN NoReport ELSE Filed(filed[f])]]
  BY DEF ReportsInit
<1>2. \A about \in Answers \cup Conversations : Filed(about) \in FiledRows /\ Filed(about).workflow = NoReport
  BY DEF Filed, FiledRows, ChatReportsAssumption
<1>3. \A t \in Tables, f \in Reports :
         reports[t][f] \in FiledRows \cup {NoReport} /\
         (reports[t][f] # NoReport => reports[t][f].workflow = NoReport /\ t = TableOf(filed[f]))
  BY <1>1, <1>2
<1>4. reports \in [Tables -> [Reports -> FiledRows \cup {NoReport}]]
  BY <1>1, <1>3
<1>5. PICK n \in BOOLEAN : pages = [at |-> "new", newest |-> n, cursor |-> <<0, 0>>,
                                    seen |-> [f \in Reports |-> 0], there |-> {}, changed |-> {}]
  BY DEF ReportsInit
<1>6. pages \in Readings /\ pages.at = "new" /\ pages.there = {} /\ \A f \in Reports : pages.seen[f] = 0
  BY <1>5 DEF Readings
<1>7. Unfiled \in Filings /\ Unfiled.at = "new"
  BY DEF Unfiled, Filings, ChatReportsAssumption
<1>8. /\ filing = [q \in Calls |-> Unfiled] /\ reportTime = 0 /\ answered \subseteq Answers
      /\ reviews = [r \in Reviews |-> NoReport] /\ idLocks = [i \in Reports \cup Reviews |-> NoReport]
  BY DEF ReportsInit
<1>9. ReportsTyped
  BY <1>4, <1>6, <1>7, <1>8 DEF ReportsTyped, ChatReportsAssumption
<1>10. CallsHoldLocks /\ CheckedIsFree /\ SavedStands
  BY <1>7, <1>8 DEF CallsHoldLocks, CheckedIsFree, SavedStands
<1>11. OneTable /\ ReviewsStand
  BY <1>3 DEF OneTable, ReviewsStand, Decided
<1>12. PagesSoFar
  BY <1>6 DEF PagesSoFar, ReadSoFar
<1> QED BY <1>9, <1>10, <1>11, <1>12 DEF ReportsInv

LEMMA ReportsStay ==
  ASSUME ChatReportsAssumption, ReportsInv, [ReportsNext]_reportVars
  PROVE  ReportsInv'
<1>1. CASE UNCHANGED reportVars
  <2>1. ReportsTyped' /\ CallsHoldLocks' /\ CheckedIsFree' /\ SavedStands'
    BY <1>1 DEF reportVars, ReportsInv, ReportsTyped, CallsHoldLocks, CheckedIsFree, SavedStands, TableOf
  <2> QED BY <1>1, <2>1, RowsLeft DEF reportVars, ReportsInv
<1>2. ASSUME NEW q \in Calls, NEW ask \in Submissions \cup Decisions \cup Marks, BeginFiling(q, ask)
      PROVE  ReportsInv'
  BY <1>2, Begins DEF Sendable
<1>3. ASSUME NEW q \in Calls,
             LockReport(q) \/ Check(q) \/ Insert(q) \/ Find(q) \/ Decide(q) \/ MarkReport(q)
      PROVE  ReportsInv'
  BY <1>3, Locks, Checks, Inserts, FindsReport, Decides, MarksRow
<1>4. CASE TurnPage
  BY <1>4, PageTurned
<1>5. ASSUME PassTime \/ \E t \in Answers : AnswerDone(t) PROVE ReportsInv'
  <2>1. /\ UNCHANGED <<reports, reviews, idLocks, filing, pages>>
        /\ reportTime' \in 0..MaxReportTime /\ answered' \subseteq Answers
    BY <1>5 DEF PassTime, AnswerDone, ReportsInv, ReportsTyped, ChatReportsAssumption
  <2>2. ReportsTyped' /\ CallsHoldLocks' /\ CheckedIsFree' /\ SavedStands'
    BY <2>1 DEF ReportsInv, ReportsTyped, CallsHoldLocks, CheckedIsFree, SavedStands, TableOf
  <2> QED BY <2>1, <2>2, RowsLeft DEF ReportsInv
<1> QED BY <1>1, <1>2, <1>3, <1>4, <1>5 DEF ReportsNext

(* For any ids, targets, payloads and decisions, whatever calls run at *)
(* once and are sent again, whenever answers end and however stamps come *)
(* out of order: an id is one report of one table, a call that was *)
(* answered "saved" is stored as it was sent, a decided report has the *)
(* review that decided it, and a reader who turns the pages in either *)
(* order has every report that was there and was left alone, exactly once *)
(* (store.py feedback, conversation_feedback, review_report, *)
(* _report_page). *)
THEOREM ReportsAreKept ==
  ASSUME ChatReportsAssumption
  PROVE  ReportsSpec => [](ReportsTypeOK /\ SavedIsStored /\ PagesAreComplete)
<1>1. ReportsInit => ReportsInv
  BY ReportsStart
<1>2. ReportsInv /\ [ReportsNext]_reportVars => ReportsInv'
  BY ReportsStay
<1>3. ReportsInv => ReportsTypeOK
  BY DEF ReportsInv, ReportsTyped, ReportsTypeOK, Filings, Readings
<1>4. ReportsInv => SavedIsStored
  <2> SUFFICES ASSUME ReportsInv PROVE SavedIsStored
    OBVIOUS
  <2>1. ASSUME NEW f \in Reports PROVE Cardinality(Stored(f)) <= 1
    <3>1. CASE Stored(f) = {}
      BY <3>1, FS_EmptySet
    <3>2. CASE \E t \in Tables : t \in Stored(f)
      <4>1. PICK t \in Tables : t \in Stored(f)
        BY <3>2
      <4>2. Stored(f) = {t}
        BY <4>1 DEF Stored, ReportsInv, OneTable
      <4> QED BY <4>2, FS_Singleton
    <3> QED BY <3>1, <3>2 DEF Stored
  <2> QED BY <2>1 DEF SavedIsStored, ReportsInv, SavedStands, ReviewsStand, Decided
<1>5. ReportsInv => PagesAreComplete
  <2> SUFFICES ASSUME ReportsInv, NEW f \in Reports \ pages.changed
               PROVE  /\ pages.seen[f] <= 1
                      /\ pages.at = "read" /\ f \in pages.there => pages.seen[f] = 1
    BY DEF PagesAreComplete
  <2>1. ReadSoFar(f) /\ (pages.at = "new" => pages.seen[f] = 0) /\ pages.at \in {"new", "reading", "read"}
    BY DEF ReportsInv, PagesSoFar, ReportsTyped, Readings
  <2>2. pages.seen[f] \in {0, 1}
    BY <2>1 DEF ReadSoFar
  <2> QED BY <2>1, <2>2 DEF ReadSoFar
<1> QED BY <1>1, <1>2, <1>3, <1>4, <1>5, PTL DEF ReportsSpec
=============================================================================
