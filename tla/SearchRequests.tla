-------------------------- MODULE SearchRequests --------------------------
(***************************************************************************)
(* The search requests of the Search service (app.py, search/service.py)   *)
(* under a catalog that is replaced and products that are deleted while    *)
(* they run: the overlay of deleted products each request reads, the slots *)
(* it takes, the cache of results, and the pages a client continues under  *)
(* the snapshot of the first one.                                          *)
(*                                                                         *)
(* Ranked is the order of a query among the products that are left: the    *)
(* scores are fused from places in two lists, so that without a product    *)
(* the others may change places.  Where there is no query the catalog is   *)
(* browsed in its own order.  A generation is its snapshot id.             *)
(***************************************************************************)
EXTENDS Integers, Sequences, FiniteSets, SequencesExt

CONSTANTS
    Requests, Products,
    Wordings, Browsing,   \* what is searched for; of them, those without words
    Generations,
    Ranked,              \* of a query, a generation and deletions: the rest, in order
    Limit,               \* the hits of a page
    MaxActive, MaxProfile,   \* 12 and 4 searches at a time
    MaxCache,            \* 256 results
    MaxDeletions,        \* the products deleted
    NoRequest

(* Of two products that are left the first one is still the first. *)
KeepsOrder(fewer, all) ==
    \A i, j \in 1..Len(fewer) : i < j =>
        \E k, l \in 1..Len(all) : k < l /\ all[k] = fewer[i] /\ all[l] = fewer[j]

SearchRequestsAssumption ==
    /\ \A q \in Wordings, g \in Generations : \A denied \in SUBSET Products :
          Ranked[q][g][denied] \in Seq(Products \ denied) /\ IsInjective(Ranked[q][g][denied])
    /\ Browsing \subseteq Wordings
    /\ \A q \in Browsing, g \in Generations, more \in SUBSET Products : \A denied \in SUBSET more :
          KeepsOrder(Ranked[q][g][more], Ranked[q][g][denied])
    /\ {Limit, MaxActive, MaxProfile, MaxCache, MaxDeletions} \subseteq Nat \ {0}
    /\ 1 \in Generations /\ Generations \subseteq Nat \ {0}

VARIABLES
    tombstones,  \* product_tombstones: the products confirmed as deleted
    serving,     \* the generation that answers (ReloadingSearch.current)
    active, activeProfile,   \* app.state
    caches,      \* of each generation's service: a sequence of [key, result]
    request      \* the requests

searchVars == <<tombstones, serving, active, activeProfile, caches, request>>

NoPage == [hits |-> << >>, next |-> 0]

Unsent == [stage |-> "new", source |-> "qa", query |-> NoRequest, of |-> NoRequest, pin |-> 0, offset |-> 0,
           before |-> {}, denied |-> {}, generation |-> 0, result |-> NoPage]

In(r, s) == request[r].stage = s
Refusal(r) == [request EXCEPT ![r] = [Unsent EXCEPT !.stage = "refused"]]

-----------------------------------------------------------------------------
(* A request comes: a first page, or the page after that of an answer, *)
(* under its snapshot.  before: what was deleted then. *)

Arrive(r, source, query) ==
    /\ In(r, "new")
    /\ request' = [request EXCEPT ![r] = [Unsent EXCEPT !.stage = "arrived", !.source = source,
                                                        !.query = query, !.before = tombstones]]
    /\ UNCHANGED <<tombstones, serving, active, activeProfile, caches>>

Continue(r, s) ==
    /\ In(r, "new")
    /\ In(s, "answered") /\ request[s].result.next # 0
    /\ request[s].source # "qa"
    /\ request' = [request EXCEPT ![r] = [Unsent EXCEPT
           !.stage = "arrived", !.source = request[s].source, !.query = request[s].query, !.of = s,
           !.pin = request[s].generation, !.offset = request[s].result.next,
           !.before = tombstones]]
    /\ UNCHANGED <<tombstones, serving, active, activeProfile, caches>>

(* The middleware: the overlay, then the readiness of the catalog, each of *)
(* which may also say no. *)
Overlay(r) ==
    /\ In(r, "arrived")
    /\ request' = [request EXCEPT ![r].stage = "overlaid", ![r].denied = tombstones]
    /\ UNCHANGED <<tombstones, serving, active, activeProfile, caches>>

NotReady(r) ==
    /\ In(r, "arrived") \/ In(r, "overlaid")
    /\ request' = Refusal(r)
    /\ UNCHANGED <<tombstones, serving, active, activeProfile, caches>>

-----------------------------------------------------------------------------
(* execute_search and SearchService.search up to its first await. *)

Profile(r) == request[r].source = "profile"

Busy(r) == active >= MaxActive \/ (Profile(r) /\ activeProfile >= MaxProfile)

(* Mutant: the cache is keyed by the request alone. *)
KeyOfRequest(r) == [query |-> request[r].query, offset |-> request[r].offset, denied |-> {}]

Key(r) ==
    [query |-> request[r].query, offset |-> request[r].offset, denied |-> request[r].denied]

CachedAt(r) == {i \in 1..Len(caches[serving]) : caches[serving][i].key = Key(r)}

SnapshotFits(r) == request[r].pin \in {0, serving}

Refused(r) == Busy(r) \/ ~SnapshotFits(r)

Refuse(r) ==
    /\ In(r, "overlaid") /\ Refused(r)
    /\ request' = Refusal(r)
    /\ UNCHANGED <<tombstones, serving, active, activeProfile, caches>>

(* A result in the cache becomes its youngest.  The Console's own searches *)
(* are recorded before they are answered and keep their slot meanwhile. *)
Hit(r) ==
    /\ In(r, "overlaid") /\ ~Refused(r)
    /\ \E i \in CachedAt(r) :
          LET e == caches[serving][i] IN
          /\ caches' = [caches EXCEPT ![serving] = Append(RemoveAt(@, i), e)]
          /\ request' = [request EXCEPT
                 ![r].stage = IF request[r].source = "qa" THEN "saving" ELSE "answered",
                 ![r].generation = serving, ![r].result = e.result]
    /\ active' = active + (IF request[r].source = "qa" THEN 1 ELSE 0)
    /\ UNCHANGED <<tombstones, serving, activeProfile>>

Miss(r) ==
    /\ In(r, "overlaid") /\ ~Refused(r)
    /\ CachedAt(r) = {}
    /\ active' = active + 1
    /\ activeProfile' = activeProfile + (IF Profile(r) THEN 1 ELSE 0)
    /\ request' = [request EXCEPT ![r].stage = "ranking", ![r].generation = serving]
    /\ UNCHANGED <<tombstones, serving, caches>>

-----------------------------------------------------------------------------
(* The embedding and the ranking in the pool; both may fail. *)

PageAt(query, g, denied, offset) ==
    LET all  == Ranked[query][g][denied]
        last == Min({Len(all), offset + Limit})
    IN  [hits |-> SubSeq(all, offset + 1, last), next |-> IF last < Len(all) THEN last ELSE 0]

Page(r) == PageAt(request[r].query, request[r].generation, request[r].denied, request[r].offset)

Stored(cache, e) ==
    LET at == {i \in 1..Len(cache) : cache[i].key = e.key}
        c  == IF at = {} THEN Append(cache, e) ELSE [i \in 1..Len(cache) |-> IF i \in at THEN e ELSE cache[i]]
    IN  IF Len(c) > MaxCache THEN Tail(c) ELSE c

(* The end of execute_search: its slots. *)
ReleaseSlot(r) ==
    /\ active' = active - 1
    /\ activeProfile' = activeProfile - (IF Profile(r) THEN 1 ELSE 0)

ReleaseFailed(r) == ReleaseSlot(r)

Rank(r) ==
    /\ In(r, "ranking")
    /\ LET g == request[r].generation IN
       caches' = [caches EXCEPT ![g] = Stored(@, [key |-> Key(r), result |-> Page(r)])]
    /\ request' = [request EXCEPT ![r].stage = IF request[r].source = "qa" THEN "saving" ELSE "answered",
                                  ![r].result = Page(r)]
    /\ IF request[r].source = "qa" THEN UNCHANGED <<active, activeProfile>> ELSE ReleaseSlot(r)
    /\ UNCHANGED <<tombstones, serving>>

Fail(r) ==
    /\ In(r, "ranking") \/ In(r, "saving")
    /\ request' = Refusal(r)
    /\ ReleaseFailed(r)
    /\ UNCHANGED <<tombstones, serving, caches>>

Recorded(r) ==
    /\ In(r, "saving")
    /\ request' = [request EXCEPT ![r].stage = "answered"]
    /\ ReleaseSlot(r)
    /\ UNCHANGED <<tombstones, serving, caches>>

-----------------------------------------------------------------------------
(* The catalog: an export confirms deletions, a generation replaces the *)
(* one that serves, whose readers go on with it. *)

ConfirmDeletion(p) ==
    /\ p \notin tombstones /\ Cardinality(tombstones) < MaxDeletions
    /\ tombstones' = tombstones \cup {p}
    /\ UNCHANGED <<serving, active, activeProfile, caches, request>>

Publish(g) ==
    /\ g > serving
    /\ serving' = g
    /\ UNCHANGED <<tombstones, active, activeProfile, caches, request>>

SearchInit ==
    /\ tombstones = {} /\ serving = 1
    /\ active = 0 /\ activeProfile = 0
    /\ caches = [g \in Generations |-> << >>]
    /\ request = [r \in Requests |-> Unsent]

SearchNext ==
    \/ \E r \in Requests :
        \/ \E source \in {"qa", "chat", "profile"}, query \in Wordings : Arrive(r, source, query)
        \/ \E s \in Requests : Continue(r, s)
        \/ Overlay(r) \/ NotReady(r)
        \/ Refuse(r) \/ Hit(r) \/ Miss(r)
        \/ Rank(r) \/ Fail(r) \/ Recorded(r)
    \/ \E p \in Products : ConfirmDeletion(p)
    \/ \E g \in Generations : Publish(g)

SearchSpec == SearchInit /\ [][SearchNext]_searchVars

-----------------------------------------------------------------------------
Stages == {"new", "arrived", "overlaid", "ranking", "saving", "answered", "refused"}

SearchTypeOK ==
    /\ tombstones \subseteq Products /\ serving \in Generations
    /\ active \in 0..MaxActive /\ activeProfile \in 0..MaxProfile
    /\ \A g \in Generations : Len(caches[g]) <= MaxCache
    /\ \A r \in Requests : request[r].stage \in Stages

Running(r) == In(r, "ranking") \/ In(r, "saving")

(* Every search that runs is counted once and every one that ended is not, *)
(* whichever way it ended, and the searches stay within their two bounds *)
(* (execute_search). *)
SlotsAreExact ==
    /\ active = Cardinality({r \in Requests : Running(r)})
    /\ activeProfile = Cardinality({r \in Requests : Running(r) /\ Profile(r)})
    /\ active <= MaxActive /\ activeProfile <= MaxProfile

(* No answer, cached or ranked, holds a product whose deletion had been *)
(* confirmed when the request came (the middleware, SearchService.search). *)
DeletedIsNotServed ==
    \A r \in Requests : In(r, "answered") =>
        ToSet(request[r].result.hits) \cap request[r].before = {}

(* As long as no product was deleted in between, a page that continues *)
(* another goes on exactly where that one ended; where the catalog is *)
(* browsed it repeats nothing of it, whatever was deleted (snapshotId *)
(* "guards continuation requests", search/service.py). *)
PagesContinue ==
    \A r \in Requests : LET s == request[r].of IN
        In(r, "answered") /\ s # NoRequest =>
            /\ request[r].query \in Browsing =>
                  ToSet(request[r].result.hits) \cap ToSet(request[s].result.hits) = {}
            /\ request[r].denied = request[s].denied =>
                  LET all == Ranked[request[r].query][request[s].generation][request[s].denied]
                  IN  IsPrefix(request[s].result.hits \o request[r].result.hits,
                               SubSeq(all, request[s].offset + 1, Len(all)))
=============================================================================
