--------------------------- MODULE SearchBindings ---------------------------
(***************************************************************************)
(* How one Search server keeps an old generation open for those who still  *)
(* read it: product-search/search/catalog_bindings.py, reloading.py, the   *)
(* routes of common_api.py, and their client SearchCatalog of the          *)
(* Profiler's search_api.py.                                               *)
(*                                                                         *)
(* Everything on the server runs on one event loop: a step is what happens *)
(* between two awaits. A binding is a lease that its holder's calls renew; *)
(* time is counted in ticks, and an entry holds what is left of its lease. *)
(* CatalogServing says when the pointer moves; here it moves whenever      *)
(* readiness is closed.                                                    *)
(***************************************************************************)
EXTENDS Naturals, FiniteSets

CONSTANTS
  Generations,    \* services, in the order of their numbers
  Items,          \* the products of each, numbers
  Clients,        \* SearchCatalog objects, one after another in each process
  Idents,         \* binding identifiers: more than are ever known at a time
  Calls,          \* calls that hold a service while they wait: search, vectors
  MAX_BINDINGS, MAX_GENERATIONS,
  Lease,          \* ticks of a lease
  MaxDenied,      \* bound: products confirmed deleted
  NoBinding

BindingConstants ==
  /\ Generations \subseteq Nat /\ 0 \in Generations
  /\ MAX_BINDINGS \in Nat /\ MAX_GENERATIONS \in Nat /\ Lease \in Nat \ {0} /\ MaxDenied \in Nat
  /\ NoBinding \notin Generations \cup Idents
  /\ IsFiniteSet(Clients) /\ IsFiniteSet(Calls)
  /\ \A g \in Generations : Items[g] \subseteq Nat /\ IsFiniteSet(Items[g])

VARIABLES
  serving,      \* ReloadingSearch.current
  readerCount,  \* readers, the Counter
  replaced,     \* retired: replaced, still read
  endings,      \* how often each service was closed
  entries,      \* CatalogBindings.entries
  expiring,     \* idents that expire() collected and has not released yet
  denied,       \* product_tombstones
  ready,        \* readiness of the catalog runtime
  call,         \* what each long call reads
  client,       \* each client
  request       \* its request: none, or what the middleware gave it

bindingsVars == <<serving, readerCount, replaced, endings, entries, expiring, denied,
                  ready, call, client, request>>

NoEntry == [gen |-> NoBinding, left |-> 0]

NoClient == [step |-> "none", id |-> NoBinding, gen |-> NoBinding, hidden |-> {}, got |-> {},
             sent |-> {}]

NoRequest == [stage |-> "none", denied |-> {}]

Asking == {"contract", "bind", "pages", "check", "recheck"}
Steps == Asking \cup {"none", "using", "refused", "close"}

BindingsTypeOK ==
  /\ serving \in Generations /\ replaced \subseteq Generations
  /\ \A g \in Generations : readerCount[g] \in Nat /\ endings[g] \in Nat
  /\ \A i \in Idents : entries[i].gen \in Generations \cup {NoBinding} /\ entries[i].left \in 0..Lease
  /\ expiring \subseteq Idents /\ ready \in BOOLEAN
  /\ \A c \in Clients : /\ client[c].step \in Steps
                        /\ request[c].stage \in {"none", "entered", "expire"}

BindingsInit ==
  /\ serving = 0 /\ replaced = {} /\ expiring = {} /\ denied = {} /\ ready = TRUE
  /\ readerCount = [g \in Generations |-> 0] /\ endings = [g \in Generations |-> 0]
  /\ entries = [i \in Idents |-> NoEntry]
  /\ call = [r \in Calls |-> NoBinding]
  /\ client = [c \in Clients |-> NoClient] /\ request = [c \in Clients |-> NoRequest]

Live == {i \in Idents : entries[i].gen # NoBinding}
Bound(g) == {i \in Idents : entries[i].gen = g}
Holding(g) == {r \in Calls : call[r] = g}

ServiceFrame == UNCHANGED <<serving, replaced, endings, readerCount>>
LoopFrame == UNCHANGED <<denied, ready>>
ClientFrame == UNCHANGED <<client, request>>

----------------------------------------------------------------------------
(* Readers, and generations that nobody reads any more. *)

(* Mutant: the count is looked at before it goes down. *)
ReleaseReaderEarly(g) ==
  /\ readerCount' = [readerCount EXCEPT ![g] = @ - 1]
  /\ IF readerCount[g] = 0 /\ g \in replaced
       THEN replaced' = replaced \ {g} /\ endings' = [endings EXCEPT ![g] = @ + 1]
       ELSE UNCHANGED <<replaced, endings>>
  /\ UNCHANGED serving

(* _release_reader: the last reader of a retired service closes it. *)
ReleaseReader(g) ==
  /\ readerCount' = [readerCount EXCEPT ![g] = @ - 1]
  /\ IF readerCount[g] = 1 /\ g \in replaced
       THEN replaced' = replaced \ {g} /\ endings' = [endings EXCEPT ![g] = @ + 1]
       ELSE UNCHANGED <<replaced, endings>>
  /\ UNCHANGED serving

(* A confirmed deletion of a complete export. *)
Deny ==
  /\ Cardinality(denied) < MaxDenied
  /\ \E p \in UNION {Items[g] : g \in Generations} \ denied : denied' = denied \cup {p}
  /\ UNCHANGED <<entries, expiring, ready, call>> /\ ServiceFrame /\ ClientFrame

(* poll() closes readiness before it activates or reconciles, and opens it *)
(* at its end; a lost session also closes it. *)
Unready ==
  /\ ready /\ ready' = FALSE
  /\ UNCHANGED <<entries, expiring, denied, call>> /\ ServiceFrame /\ ClientFrame

Reopen ==
  /\ ~ready /\ ready' = TRUE
  /\ UNCHANGED <<entries, expiring, denied, call>> /\ ServiceFrame /\ ClientFrame

(* Mutant: only bindings keep a replaced service open. *)
UnreadIfUnbound(g) == Bound(g) = {}

Unread(g) == readerCount[g] = 0

(* swap(), and refresh() of the file mode. *)
SwapService ==
  /\ ~ready /\ serving + 1 \in Generations
  /\ serving' = serving + 1
  /\ IF Unread(serving)
       THEN endings' = [endings EXCEPT ![serving] = @ + 1] /\ UNCHANGED replaced
       ELSE replaced' = replaced \cup {serving} /\ UNCHANGED endings
  /\ UNCHANGED <<readerCount, entries, expiring, call>> /\ LoopFrame /\ ClientFrame

(* A search, or vectors of the current generation. *)
CallStart(r) ==
  /\ call[r] = NoBinding /\ ready
  /\ call' = [call EXCEPT ![r] = serving]
  /\ readerCount' = [readerCount EXCEPT ![serving] = @ + 1]
  /\ UNCHANGED <<serving, replaced, endings, entries, expiring>> /\ LoopFrame /\ ClientFrame

CallEnd(r) ==
  /\ call[r] # NoBinding
  /\ ReleaseReader(call[r])
  /\ call' = [call EXCEPT ![r] = NoBinding]
  /\ UNCHANGED <<entries, expiring>> /\ LoopFrame /\ ClientFrame

----------------------------------------------------------------------------
(* Bindings. *)

Tick ==
  /\ \E i \in Idents : entries[i].left > 0
  /\ entries' = [i \in Idents |->
                  [entries[i] EXCEPT !.left = IF @ > 0 THEN @ - 1 ELSE 0]]
  /\ UNCHANGED <<expiring, call>> /\ ServiceFrame /\ LoopFrame /\ ClientFrame

Expired == {i \in Live : entries[i].left = 0}

(* release(): pop, and whoever pops gives the reader back. *)
Release(i) ==
  /\ entries' = [entries EXCEPT ![i] = NoEntry]
  /\ IF i \in Live THEN ReleaseReader(entries[i].gen) ELSE ServiceFrame

(* expire() of the watch task. *)
Watch ==
  /\ expiring = {} /\ Expired # {}
  /\ expiring' = Expired
  /\ UNCHANGED <<entries, call>> /\ ServiceFrame /\ LoopFrame /\ ClientFrame

WatchRelease ==
  /\ \E i \in expiring : Release(i) /\ expiring' = expiring \ {i}
  /\ UNCHANGED call /\ LoopFrame /\ ClientFrame

(* resolve(): the holder's call renews the lease. *)
Resolves(i, g) == i \in Live /\ entries[i].left > 0 /\ entries[i].gen = g

Renew(i) == entries' = [entries EXCEPT ![i].left = Lease]

----------------------------------------------------------------------------
(* Requests: the middleware, then the route. *)

RequestFrame == UNCHANGED <<expiring, call>> /\ LoopFrame

(* The client asks; what was deleted by then is remembered for checking. *)
Send(c) ==
  /\ client[c].step \in Asking /\ request[c].stage = "none"
  /\ ready
  /\ request' = [request EXCEPT ![c] = [stage |-> "entered", denied |-> denied]]
  /\ client' = [client EXCEPT ![c].sent = denied]
  /\ UNCHANGED entries /\ ServiceFrame /\ RequestFrame

Done(c, to) ==
  /\ client' = [client EXCEPT ![c] = to]
  /\ request' = [request EXCEPT ![c] = NoRequest]

(* A request that fails, or whose answer is lost, ends __init__ in close(); *)
(* a later check() that fails leaves the catalog to its user. *)
Closing(c) == [NoClient EXCEPT !.step = "close", !.id = client[c].id]

Failed(c) ==
  Done(c, IF client[c].step = "recheck" THEN [client[c] EXCEPT !.step = "refused"] ELSE Closing(c))

(* binding.contract, each page and check(): the whole contract, with *)
(* visibilityRevision, is what the first one was. *)
SameContract(c, g) == g = client[c].gen /\ request[c].denied = client[c].hidden

Entered(c, step) == client[c].step = step /\ request[c].stage = "entered"

Contract(c) ==
  /\ Entered(c, "contract")
  /\ Done(c, [client[c] EXCEPT !.step = "bind", !.gen = serving, !.hidden = request[c].denied])
  /\ UNCHANGED entries /\ ServiceFrame /\ RequestFrame

(* retain_catalog: readiness again, then acquire(), which expires first. *)
Retain(c) ==
  /\ Entered(c, "bind")
  /\ IF ready
       THEN request' = [request EXCEPT ![c].stage = "expire"] /\ UNCHANGED client
       ELSE Failed(c)
  /\ UNCHANGED entries /\ ServiceFrame /\ RequestFrame

RetainExpire(c) ==
  /\ request[c].stage = "expire"
  /\ \E i \in Expired : Release(i)
  /\ UNCHANGED <<client, request>> /\ RequestFrame

(* The rest of acquire() has no await: a service that is current is open. *)
Capacity ==
  /\ Cardinality(Live) < MAX_BINDINGS
  /\ Cardinality({entries[i].gen : i \in Live} \cup {serving}) <= MAX_GENERATIONS

Fresh == {i \in Idents \ (Live \cup expiring) : \A c \in Clients : client[c].id # i}

Acquire(c) ==
  /\ request[c].stage = "expire" /\ Expired = {}
  /\ IF client[c].gen = serving /\ Capacity
       THEN LET i == CHOOSE k \in Fresh : TRUE
            IN /\ entries' = [entries EXCEPT ![i] = [gen |-> serving, left |-> Lease]]
               /\ readerCount' = [readerCount EXCEPT ![serving] = @ + 1]
               /\ Done(c, [(IF SameContract(c, serving) THEN [client[c] EXCEPT !.step = "pages"]
                            ELSE Closing(c)) EXCEPT !.id = i])
       ELSE Failed(c) /\ UNCHANGED <<entries, readerCount>>
  /\ UNCHANGED <<serving, replaced, endings>> /\ RequestFrame

(* The binding is made and the client never hears of it. *)
AcquireUnanswered(c) ==
  /\ request[c].stage = "expire" /\ Expired = {} /\ client[c].gen = serving /\ Capacity
  /\ LET i == CHOOSE k \in Fresh : TRUE
     IN entries' = [entries EXCEPT ![i] = [gen |-> serving, left |-> Lease]]
  /\ readerCount' = [readerCount EXCEPT ![serving] = @ + 1]
  /\ Failed(c)
  /\ UNCHANGED <<serving, replaced, endings>> /\ RequestFrame

(* The visible products of g in their order, a page of one. *)
Visible(c, g) == Items[g] \ request[c].denied

PageAt(c, g, k) ==
  {p \in Visible(c, g) : Cardinality({q \in Visible(c, g) : q < p}) = k}

(* _load_products: pages until the count of the contract, then check(). *)
Count(c) == Cardinality(Items[client[c].gen] \ client[c].hidden)

Page(c) ==
  LET g == client[c].gen
      k == Cardinality(client[c].got)
      page == PageAt(c, g, k)
      got == client[c].got \cup page
  IN /\ Entered(c, "pages")
     /\ IF Resolves(client[c].id, g)
          THEN /\ Renew(client[c].id)
               /\ IF SameContract(c, g) /\ page # {}
                    THEN Done(c, [client[c] EXCEPT !.got = got,
                           !.step = IF Cardinality(got) = Count(c) THEN "check" ELSE "pages"])
                    ELSE Failed(c)
          ELSE Failed(c) /\ UNCHANGED entries
     /\ ServiceFrame /\ RequestFrame

Check(c) ==
  LET g == client[c].gen
  IN /\ Entered(c, "check") \/ Entered(c, "recheck")
     /\ IF Resolves(client[c].id, g)
          THEN /\ Renew(client[c].id)
               /\ IF SameContract(c, g)
                    THEN Done(c, [client[c] EXCEPT !.step = "using"])
                    ELSE Failed(c)
          ELSE Failed(c) /\ UNCHANGED entries
     /\ ServiceFrame /\ RequestFrame

(* The network, a timeout, or the middleware that is not ready. *)
Refuse(c) ==
  /\ client[c].step \in Asking
  /\ Failed(c)
  /\ UNCHANGED entries /\ ServiceFrame /\ RequestFrame

----------------------------------------------------------------------------
(* A client: __init__, the checks of its user, close(). *)

ClientSteps(c, to) ==
  /\ client' = [client EXCEPT ![c] = to] /\ UNCHANGED <<entries, request>>
  /\ ServiceFrame /\ RequestFrame

OpenCatalog(c) ==
  client[c].step = "none" /\ ClientSteps(c, [NoClient EXCEPT !.step = "contract"])

Use(c) ==
  client[c].step \in {"using", "refused"} /\ ClientSteps(c, [client[c] EXCEPT !.step = "recheck"])

Leave(c) ==
  client[c].step \in {"using", "refused"} /\ ClientSteps(c, Closing(c))

(* close(): DELETE, whose failure is left to the lease. *)
CloseCatalog(c) ==
  /\ client[c].step = "close"
  /\ \/ client[c].id # NoBinding /\ Release(client[c].id)
     \/ UNCHANGED entries /\ ServiceFrame
  /\ Done(c, NoClient)
  /\ RequestFrame

(* The process dies and another takes its place. *)
Crash(c) ==
  /\ client[c].step # "none"
  /\ Done(c, NoClient)
  /\ UNCHANGED entries /\ ServiceFrame /\ RequestFrame

----------------------------------------------------------------------------
Requests(c) ==
  \/ Send(c) \/ Contract(c) \/ Retain(c) \/ RetainExpire(c) \/ Acquire(c)
  \/ AcquireUnanswered(c) \/ Page(c) \/ Check(c) \/ Refuse(c)

BindingsNext ==
  \/ Deny \/ Unready \/ Reopen \/ SwapService \/ Tick \/ Watch \/ WatchRelease
  \/ \E r \in Calls : CallStart(r) \/ CallEnd(r)
  \/ \E c \in Clients :
       Requests(c) \/ OpenCatalog(c) \/ Use(c) \/ Leave(c) \/ CloseCatalog(c) \/ Crash(c)

BindingsSpec == BindingsInit /\ [][BindingsNext]_bindingsVars

(* The watch task of the server goes on, time passes, calls end. Nothing *)
(* is asked of the clients. *)
FairBindingsSpec ==
  /\ BindingsSpec
  /\ WF_bindingsVars(Tick) /\ WF_bindingsVars(Watch) /\ WF_bindingsVars(WatchRelease)
  /\ \A r \in Calls : WF_bindingsVars(CallEnd(r))

----------------------------------------------------------------------------
(* A service is read by the bindings and the calls that count on it, and *)
(* by nobody else: expire(), release() and a client's own DELETE may all *)
(* meet at one binding, and give its reader back once. *)
ReadersExact ==
  \A g \in Generations : readerCount[g] = Cardinality(Bound(g)) + Cardinality(Holding(g))

(* What is current, bound or being read is not closed, and nothing is *)
(* closed twice: swap() and the release of the last reader agree on who *)
(* closes, whatever happens between. *)
ReadIsOpen ==
  \A g \in Generations :
    /\ g = serving \/ Bound(g) # {} \/ Holding(g) # {} => endings[g] = 0
    /\ endings[g] <= 1

(* A client that loaded its catalog page by page, while products were *)
(* deleted and generations swapped, has the products of one generation, *)
(* without those that were deleted when it sent its last check(). *)
OneView ==
  \A c \in Clients :
    client[c].step = "using" => client[c].got = Items[client[c].gen] \ client[c].sent

(* All of it, at once. *)
BindingsHold == ReadersExact /\ ReadIsOpen /\ OneView

(* A generation that was replaced, and that no running client is bound to, *)
(* is closed in the end: a client that died, or one whose bind was never *)
(* answered, holds it no longer than its lease. *)
Abandoned(g) ==
  g \in replaced /\ \A c \in Clients : client[c].id \notin Bound(g)

AbandonedIsClosed == \A g \in Generations : []<>(Abandoned(g) => endings[g] = 1)

=============================================================================
