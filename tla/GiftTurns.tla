----------------------------- MODULE GiftTurns -----------------------------
(***************************************************************************)
(* How the Chat answers the turns of one conversation with the gift tool   *)
(* loop: low_latency.py restores the session of the last completed turn,   *)
(* the harness (gift_core/harness.py with the layers up to                 *)
(* integrated_harness.py) lets the model call gift_context, show_gifts and *)
(* list_gifts, and a completed turn leaves the state the next one starts   *)
(* from.                                                                   *)
(*                                                                         *)
(* The model calls what it likes with any arguments.  A call the harness   *)
(* refuses, a service that fails, a cancellation and a crash end the turn  *)
(* without a trace in the state.  A disliked category and a disliked tag   *)
(* are the sets of products they hit; prices and brands are like the       *)
(* excluded products and are left out.                                     *)
(***************************************************************************)
EXTENDS Integers, FiniteSets, FiniteSetsExt, Functions

CONSTANTS
    Products,
    Queries,
    Profiles,   \* what the recipient may have disliked: [categories, tags]
    Pools,      \* the prepared candidates a turn may come with; None: no preparation
    OnSale,     \* OnSale[v]: the products of the catalog version v
    Finds,      \* Finds[q]: the products the query q is about
    MaxVersion, MaxTurns,
    MaxCards,   \* MAX_CARD_PRODUCTS
    None

Versions == 1..MaxVersion

(* A search with what it found. *)
Searches == [view : Versions, query : Queries, scope : Profiles \X Pools,
             filters : [excluded : SUBSET Products, categories : SUBSET Products],
             products : SUBSET Products]

GiftTurnsAssumption ==
    /\ OnSale \in [Versions -> SUBSET Products]
    /\ Finds \in [Queries -> SUBSET Products]
    /\ {MaxVersion, MaxTurns, MaxCards} \subseteq Nat \ {0}
    /\ None \in Pools /\ None \notin Searches

VARIABLES
    catalog,   \* the version the Search serves
    metadata,  \* the version the Chat knows, 0 before it knows any
    profile,   \* what the recipient dislikes now
    kept,      \* lowLatencyState of the last completed turn
    turn,      \* the session of the turn that runs, or None
    asked,     \* the number of turns so far
    entered    \* [history] the turn in which a product was last newly excluded

giftVars == <<catalog, metadata, profile, kept, turn, asked, entered>>

Empty == <<>>     \* the function of an empty domain

(* Facts of each of the products in S as they are in version v. *)
Facts(S, v) == [p \in S |-> v]
(* dict.update *)
Updated(f, g) == [p \in DOMAIN f \cup DOMAIN g |->
                      IF p \in DOMAIN g THEN g[p] ELSE f[p]]

-----------------------------------------------------------------------------
(* The search cached from an earlier turn: of this catalog, this recipient *)
(* and these conditions. *)

ScopeKey(t) == <<t.profile, t.pool>>

Cached(t) ==
    IF /\ t.last # None
       /\ t.last.view = t.view
       /\ t.last.scope = ScopeKey(t)
       /\ t.last.filters = [excluded |-> t.excluded, categories |-> t.public]
    THEN t.last ELSE None

(* CatalogAdapter.search and allowed: what a search finds. *)
Found(v, q, filters, scope) ==
    {p \in OnSale[v] \cap Finds[q] :
        /\ p \notin filters.excluded \cup filters.categories
        /\ p \notin scope[1].categories \cup scope[1].tags
        /\ scope[2] # None => p \in scope[2]}

-----------------------------------------------------------------------------
(* A turn starts (low_latency.py, _generate; prepare_turn of the layers). *)

(* planning_metadata: cached for a while, and for longer when the refresh *)
(* fails. *)
Metadata(v) == v \in {metadata, catalog}

(* The state a prepared turn does not restore. *)
Restored(pool, value, nothing) == IF pool = None THEN value ELSE nothing

Ask(v, pool) ==
    /\ turn = None /\ asked < MaxTurns
    /\ Metadata(v)
    /\ pool # None => v # 0
    /\ metadata' = v
    /\ asked' = asked + 1
    /\ turn' = [view |-> v, profile |-> profile, pool |-> pool,
                excluded |-> kept.excluded,
                public |-> {},
                categories |-> profile.categories,
                changed |-> FALSE,
                rows |-> Restored(pool, kept.shown, Empty),
                shown |-> Restored(pool, kept.shown, Empty),
                displayed |-> Restored(pool, kept.displayed, Empty),
                last |-> Restored(pool, kept.search, None),
                search |-> None]
    /\ UNCHANGED <<catalog, profile, kept, entered>>

(* The turn fails or is cancelled, or the Chat dies: nothing is kept. *)
Abandon ==
    /\ turn # None
    /\ turn' = None
    /\ UNCHANGED <<catalog, metadata, profile, kept, asked, entered>>

-----------------------------------------------------------------------------
(* gift_context: one search, in the first round. *)

(* parse_context: the conditions the search starts from. *)
Prior(t) == [excluded |-> t.excluded, categories |-> t.public]

(* The same query under the same resolved conditions (gift_consult.py, *)
(* ConsultContext.load). *)
Reuses(t, q, filters) ==
    /\ Cached(t) # None
    /\ Cached(t).query = q
    /\ Cached(t).filters = filters

(* RankedContext.load hydrates every prepared candidate first. *)
CanSearch(t) ==
    /\ t.view # 0
    /\ t.pool # None => t.pool \subseteq OnSale[t.view]

Search(q, change) ==
    /\ turn # None /\ turn.search = None
    /\ LET t == turn
           filters == IF change = None THEN Prior(t) ELSE [Prior(t) EXCEPT !.excluded = change]
           scope == ScopeKey(t)
           products == IF Reuses(t, q, filters) THEN Cached(t).products
                       ELSE Found(t.view, q, filters, scope)
       IN  /\ Reuses(t, q, filters) \/ CanSearch(t)
           /\ turn' = [t EXCEPT
                !.excluded = filters.excluded,
                !.public = filters.categories,
                !.changed = change # None,
                !.rows = Updated(t.rows, Facts(products, t.view)),
                !.search = [view |-> t.view, query |-> q, filters |-> filters,
                            scope |-> scope, products |-> products]]
    /\ UNCHANGED <<catalog, metadata, profile, kept, asked, entered>>

-----------------------------------------------------------------------------
(* A turn is completed: the harness commits, then low_latency.py keeps. *)

(* GuidedHarness.run: the last turn that replaced the excluded products. *)
ReplacedBy(t) == IF t.changed THEN asked ELSE kept.replaced

(* Mutant: every product of the replaced list is attributed to the turn. *)
OriginsOfList(t) ==
    LET new == IF ReplacedBy(t) = asked THEN t.excluded ELSE {}
    IN  [p \in t.excluded \cap (DOMAIN kept.origins \cup new) |->
            IF p \in new THEN asked ELSE kept.origins[p]]

(* IntegratedHarness.run: where each excluded product comes from. *)
Origins(t) ==
    LET new == IF ReplacedBy(t) = asked THEN t.excluded \ kept.excluded ELSE {}
    IN  [p \in t.excluded \cap (DOMAIN kept.origins \cup new) |->
            IF p \in new THEN asked ELSE kept.origins[p]]

(* commit_history of the layers: what the user sees as displayed, and the *)
(* search a later turn may reuse. *)
Displayed(cards, listed) ==
    CASE cards # Empty -> cards
      [] cards = Empty /\ listed # Empty -> listed
      [] OTHER -> turn.displayed
SearchToKeep == IF turn.search # None THEN turn.search ELSE turn.last

CompleteTurn(cards, listed) ==
    /\ kept' = [excluded |-> turn.excluded,
                categories |-> turn.public,
                replaced |-> ReplacedBy(turn),
                origins |-> Origins(turn),
                shown |-> IF cards = Empty THEN turn.shown ELSE cards,
                displayed |-> Displayed(cards, listed),
                search |-> SearchToKeep]
    /\ entered' = [p \in Products |->
                      IF p \in turn.excluded \ kept.excluded THEN asked ELSE entered[p]]
    /\ turn' = None
    /\ UNCHANGED <<catalog, metadata, profile, asked>>

(* Text, a question back, recall_gift or inspect_search: in either round. *)
Reply ==
    /\ turn # None
    /\ CompleteTurn(Empty, Empty)

(* selection_observed: products the turn has not seen are looked up. *)
Observed(t, ids) ==
    Restrict(Updated(Facts((ids \ DOMAIN t.rows) \cap OnSale[t.view], t.view), t.rows),
             ids \cap (DOMAIN t.rows \cup OnSale[t.view]))
MayObserve(t, ids) == ids \subseteq DOMAIN t.rows \/ t.view # 0

(* The first cards of those the model described (validate_show). *)
Projections(f, described) ==
    LET S == DOMAIN f \cap described
    IN  {Restrict(f, D) : D \in kSubset(Min({MaxCards, Cardinality(S)}), S)}

(* show_gifts: after the search. *)
Show(ids, described) ==
    /\ turn # None /\ turn.search # None
    /\ \E cards \in Projections(Observed(turn, ids), described) :
           CompleteTurn(cards, Empty)

(* list_gifts: before the search for what is displayed, after it when it *)
(* found something or something is displayed (answer_tools). *)
MayList(t) ==
    \/ t.displayed # Empty
    \/ t.search # None /\ t.search.products # {}
List(ids, described) ==
    /\ turn # None
    /\ MayList(turn) /\ MayObserve(turn, ids)
    /\ \E listed \in Projections(Observed(turn, ids), described) :
           CompleteTurn(Empty, listed)

-----------------------------------------------------------------------------
(* The catalog is exchanged, and the recipient's input analysed again. *)

Publish ==
    /\ catalog < MaxVersion
    /\ catalog' = catalog + 1
    /\ UNCHANGED <<metadata, profile, kept, turn, asked, entered>>

Analyse(q) ==
    /\ profile' = q
    /\ UNCHANGED <<catalog, metadata, kept, turn, asked, entered>>

GiftInit ==
    /\ catalog = 1 /\ metadata = 0 /\ asked = 0
    /\ profile \in Profiles
    /\ kept = [excluded |-> {}, categories |-> {}, replaced |-> 0, origins |-> Empty,
               shown |-> Empty, displayed |-> Empty, search |-> None]
    /\ turn = None
    /\ entered = [p \in Products |-> 0]

GiftNext ==
    \/ \E v \in 0..MaxVersion, pool \in Pools : Ask(v, pool)
    \/ Abandon
    \/ \E q \in Queries, change \in (SUBSET Products) \cup {None} : Search(q, change)
    \/ Reply
    \/ \E ids \in SUBSET Products : \E described \in SUBSET ids :
           Show(ids, described) \/ List(ids, described)
    \/ Publish
    \/ \E q \in Profiles : Analyse(q)

GiftSpec == GiftInit /\ [][GiftNext]_giftVars

-----------------------------------------------------------------------------
(* The session of a turn, and what a completed turn leaves. *)
FactsOf == UNION {[S -> Versions] : S \in SUBSET Products}
GiftTypeOK ==
    /\ catalog \in Versions /\ metadata \in 0..MaxVersion /\ profile \in Profiles
    /\ asked \in 0..MaxTurns
    /\ kept.excluded \subseteq Products /\ kept.replaced \in 0..MaxTurns
    /\ kept.shown \in FactsOf /\ kept.displayed \in FactsOf
    /\ turn # None => /\ turn.rows \in FactsOf
                      /\ turn.view \in 0..catalog
                      /\ turn.search \in Searches \cup {None}

(* What the model is given to choose from is what a search for its query *)
(* finds in the catalog of the turn, for the recipient of the turn and *)
(* under the user's conditions - also when it comes from an earlier turn *)
(* (ConsultContext.load). *)
SearchFitsTheTurn ==
    (turn # None /\ turn.search # None) =>
        turn.search.products =
            Found(turn.view, turn.search.query,
                  [excluded |-> turn.excluded, categories |-> {}],
                  ScopeKey(turn))

(* What the recipient dislikes never becomes a condition of the user's *)
(* that outlives the turn (low_latency.py: "Never persist those as *)
(* user-origin search exclusions"). *)
DislikesAreNotKept == kept.categories = {}

(* A product the user excluded is known with the turn that excluded it, in *)
(* whatever order products are excluded and taken back *)
(* (IntegratedHarness.run). *)
OriginsAreTrue ==
    /\ DOMAIN kept.origins = kept.excluded
    /\ \A p \in kept.excluded : kept.origins[p] = entered[p]

(* All of it, at once. *)
GiftsHold == SearchFitsTheTurn /\ DislikesAreNotKept /\ OriginsAreTrue
=============================================================================
