--------------------------- MODULE CatalogServing ---------------------------
(***************************************************************************)
(* Generations of the product catalog: product-search/catalog_store.py,    *)
(* catalog_runtime.py, tools/sync_postgres.py, tools/catalog_bundle.py and *)
(* the readiness middleware of app.py.                                     *)
(*                                                                         *)
(* A job confirms a complete export, prepares a generation and proposes    *)
(* it; the one Search server that holds the serving lock loads a proposed  *)
(* generation, moves the active pointer to it and swaps it in. Both locks  *)
(* are PostgreSQL session locks: a process that lost its session may go on *)
(* for a while, and may meet the next holder.                              *)
(*                                                                         *)
(* A generation is named by the time of its export. The identity in the    *)
(* code also hashes the old catalog it was projected from, but an export   *)
(* is only ever projected from the generation active before it or itself.  *)
(* A database transaction is one step; so is a block of asyncio code       *)
(* between two awaits. Hashes, vectors, tags and files are left out:       *)
(* loading a generation succeeds or fails.                                 *)
(***************************************************************************)
EXTENDS Naturals, FiniteSets, FiniteSetsExt

CONSTANTS
  Generations, \* bound: exports that Backend makes, 0 the first
  Items,       \* the products of each export
  Servers,     \* Search processes: one, or two while one replaces another
  Jobs,        \* processes that may run a job: search_sync or catalog_bundle
  Calls,       \* concurrent requests of clients
  MaxJobs,     \* bound: jobs started
  MaxFaults,   \* bound: crashes, lost sessions, lost answers, failed loads
  Rollbacks,   \* may an operator import with --allow-older?
  None

ASSUME CatalogConstants ==
  /\ Generations \subseteq Nat /\ 0 \in Generations
  /\ None \notin Generations /\ None \notin Servers \cup Jobs
  /\ MaxJobs \in Nat /\ MaxFaults \in Nat /\ Rollbacks \in BOOLEAN

VARIABLES
  active, pending,  \* catalog_state
  receipts,         \* export_receipts
  gone,             \* product_tombstones
  prepared,         \* generations
  writer, serving,  \* whose session holds WRITER_LOCK and SERVER_LOCK
  job,              \* each job: its step and export, and the active it read
  server,           \* each server
  call,             \* each call
  since,            \* history: what each call may be answered from
  jobs, faults      \* jobs started, faults so far

dbVars == <<active, pending, receipts, gone, prepared>>
vars == <<dbVars, writer, serving, job, server, call, since, jobs, faults>>

Newest == Max(receipts)

NoJob == [step |-> "idle", exp |-> 0, seen |-> None]
JobSteps == {"idle", "read", "confirmed", "prepared"}

Down == [phase |-> "down", loaded |-> None, up |-> FALSE, ready |-> FALSE,
         was |-> None, next |-> None]
Phases == {"down", "idle", "reconciling", "reconciled", "activating",
           "activated", "final"}

NoCall == [step |-> "none", at |-> None, got |-> None, denied |-> {}, answer |-> None]

Nothing == [gens |-> {}, hidden |-> {}]

(* Types, and the foreign keys of sql/catalog.sql: what is active or *)
(* pending was prepared, and what was prepared has its receipt. *)
TypeOK ==
  /\ receipts \subseteq Generations /\ prepared \subseteq receipts
  /\ active \in prepared \cup {None} /\ pending \in prepared \cup {None}
  /\ gone \subseteq UNION {Items[g] : g \in Generations}
  /\ writer \in Jobs \cup {None} /\ serving \in Servers \cup {None}
  /\ \A j \in Jobs : job[j].step \in JobSteps /\ job[j].exp \in Generations
  /\ \A s \in Servers : server[s].phase \in Phases /\ server[s].loaded \in prepared \cup {None}

(* A database whose first generation is active, or waits for a server. *)
Init ==
  /\ (active = 0 /\ pending = None) \/ (active = None /\ pending = 0)
  /\ receipts = {0} /\ prepared = {0} /\ gone = {}
  /\ writer = None /\ serving = None
  /\ job = [j \in Jobs |-> NoJob]
  /\ server = [s \in Servers |-> Down]
  /\ call = [c \in Calls |-> NoCall]
  /\ since = [c \in Calls |-> Nothing]
  /\ jobs = 0 /\ faults = 0

Fault == faults < MaxFaults /\ faults' = faults + 1

----------------------------------------------------------------------------
(* Jobs: sync() of sync_postgres.py and import_bundle() of catalog_bundle. *)

JobFrame == UNCHANGED <<serving, server, call, since>>

Step(j, to) == job' = [job EXCEPT ![j].step = to] /\ UNCHANGED writer

(* The job ends, and with it the `with store.writer()`. *)
Over(j) ==
  /\ job' = [job EXCEPT ![j] = NoJob]
  /\ writer' = IF writer = j THEN None ELSE writer

(* sync() goes on with nothing pending and an export not older than the *)
(* active one; a bundle not active, and not older unless a rollback. *)
MayRead(kind, e) ==
  IF kind = "sync"
    THEN pending = None /\ (active # None => e >= active)
    ELSE /\ active # e
         /\ (active # None /\ e < active) => kind = "rollback"

(* writer() and the state that is read under it. A job that is turned away *)
(* at either changes nothing; which idle one starts makes no difference. *)
JobStart(j, kind, e) ==
  /\ writer = None /\ jobs < MaxJobs
  /\ j = CHOOSE k \in Jobs : job[k].step = "idle"
  /\ kind = "rollback" => Rollbacks /\ e \in prepared
  /\ MayRead(kind, e)
  /\ writer' = j /\ jobs' = jobs + 1
  /\ job' = [job EXCEPT ![j] = [step |-> "read", exp |-> e, seen |-> active]]
  /\ UNCHANGED <<dbVars, faults>> /\ JobFrame

(* write_connection(): the transaction runs on the session of the lock. *)
Writes(j) == writer = j

(* Mutant: only products of the active generation are missed. *)
MissedActive(e) == IF active = None THEN {} ELSE Items[active] \ Items[e]

(* What the previous receipt had and export e has no more. *)
Missed(e) == Items[Newest] \ Items[e]

(* Mutant: the active generation decides what is too old. *)
TooOldForActive(e) == active # None /\ e < active

TooOld(e) == e < Newest

(* confirm_export: an export not newer than the newest is refused, unless *)
(* it is that one, and with it a rollback to an older bundle. sync() is *)
(* over when its export was active. *)
Confirm(j) ==
  LET e == job[j].exp
  IN /\ job[j].step = "read" /\ Writes(j)
     /\ IF TooOld(e)
          THEN Over(j) /\ UNCHANGED <<receipts, gone>>
          ELSE /\ IF job[j].seen = e THEN Over(j) ELSE Step(j, "confirmed")
               /\ receipts' = receipts \cup {e}
               /\ gone' = IF e \in receipts THEN gone ELSE gone \cup Missed(e)
     /\ UNCHANGED <<active, pending, prepared, jobs, faults>> /\ JobFrame

(* Mutant: the row is written by whoever first loads the generation. *)
PrepareLater(j) ==
  /\ job[j].step = "confirmed" /\ Writes(j) /\ Step(j, "prepared")
  /\ UNCHANGED <<dbVars, jobs, faults>> /\ JobFrame

(* Embedding only the changed documents, prepare() and materialize. *)
Prepare(j) ==
  /\ job[j].step = "confirmed" /\ Writes(j)
  /\ prepared' = prepared \cup {job[j].exp}
  /\ Step(j, "prepared")
  /\ UNCHANGED <<active, pending, receipts, gone, jobs, faults>> /\ JobFrame

Propose(j) ==
  /\ job[j].step = "prepared" /\ Writes(j)
  /\ pending' = IF pending = None /\ active # job[j].exp THEN job[j].exp ELSE pending
  /\ Over(j)
  /\ UNCHANGED <<active, receipts, gone, prepared, jobs, faults>> /\ JobFrame

(* A step that fails: BE, embedding, files, or a write on a lost session. *)
JobFail(j) ==
  /\ job[j].step \in {"read", "confirmed", "prepared"}
  /\ IF writer = j THEN Fault ELSE UNCHANGED faults
  /\ Over(j)
  /\ UNCHANGED <<dbVars, jobs>> /\ JobFrame

WriterLost ==
  /\ writer # None /\ Fault
  /\ writer' = None
  /\ UNCHANGED <<dbVars, job, jobs>> /\ JobFrame

----------------------------------------------------------------------------
(* Servers: open_database_search and poll() of catalog_runtime.py. *)

ServerFrame == UNCHANGED <<receipts, gone, prepared, writer, job, jobs>>

(* CatalogRuntime.transition *)
Transition(s) == server[s].phase \in {"activating", "activated"}

(* The connection of s still has its session, and with it the lock. *)
Holds(s) == serving = s

To(s, phase) == server' = [server EXCEPT ![s].phase = phase]

(* Server s between two polls. *)
Between(s, ready) ==
  [Down EXCEPT !.phase = "idle", !.up = TRUE, !.ready = ready, !.loaded = server[s].loaded]

(* What an exception in poll() leaves: a server that never was ready does *)
(* not come up and closes its connection, another waits for the next poll. *)
Raise(s) ==
  IF server[s].up
    THEN server' = [server EXCEPT ![s] = Between(s, FALSE)] /\ UNCHANGED serving
    ELSE /\ server' = [server EXCEPT ![s] = Down]
         /\ serving' = IF Holds(s) THEN None ELSE serving

(* open_database_search: CURRENT and the index come before any lock. *)
Boot(s) ==
  /\ server[s].phase = "down"
  /\ active # None \/ pending # None
  /\ server' = [server EXCEPT ![s] =
                  [Down EXCEPT !.phase = "idle", !.loaded = IF active # None THEN active ELSE pending]]
  /\ UNCHANGED <<active, pending, serving, call, since, faults>> /\ ServerFrame

(* Mutant: a generation that is loaded stays until the process restarts. *)
OtherNever(s) == FALSE

OtherActive(s) == active # None /\ active # server[s].loaded

(* claim() keeps a connection that answers, else makes one and tries the *)
(* lock; then the state is read. An active generation that is not the one *)
(* loaded closes readiness before it is loaded. Losing the lock between *)
(* the two is losing it after the second. *)
Poll(s) ==
  /\ server[s].phase = "idle"
  /\ IF serving \in {s, None}
       THEN /\ serving' = s
            /\ server' = [server EXCEPT ![s] =
                 [@ EXCEPT !.phase = IF OtherActive(s) THEN "reconciling" ELSE "reconciled",
                           !.ready = server[s].ready /\ ~OtherActive(s),
                           !.was = active, !.next = pending]]
       ELSE Raise(s)
  /\ UNCHANGED <<active, pending, call, since, faults>> /\ ServerFrame

Reconcile(s) ==
  /\ server[s].phase = "reconciling"
  /\ server' = [server EXCEPT ![s] =
       [@ EXCEPT !.phase = "reconciled", !.loaded = server[s].was]]
  /\ UNCHANGED <<active, pending, serving, call, since, faults>> /\ ServerFrame

(* A pending generation that loads starts the transition. *)
Candidate(s) ==
  /\ server[s].phase = "reconciled"
  /\ server' = [server EXCEPT ![s] =
       IF server[s].next = None
         THEN [@ EXCEPT !.phase = "final"]
         ELSE [@ EXCEPT !.phase = "activating", !.ready = FALSE]]
  /\ UNCHANGED <<active, pending, serving, call, since, faults>> /\ ServerFrame

(* One that does not is taken back: reject(). *)
Reject(s) ==
  /\ server[s].phase = "reconciled" /\ server[s].next # None /\ Fault
  /\ IF Holds(s)
       THEN /\ pending' = IF pending = server[s].next THEN None ELSE pending
            /\ To(s, "final") /\ UNCHANGED serving
       ELSE Raise(s) /\ UNCHANGED pending
  /\ UNCHANGED <<active, call, since>> /\ ServerFrame

(* activate(): on the session of the serving lock, and only from the state *)
(* that was read. *)
Flying(c) == call[c].step \notin {"none", "served"}

Expected(s) == active = server[s].was /\ pending = server[s].next

Activation(s) ==
  /\ active' = server[s].next /\ pending' = None
  /\ since' = [c \in Calls |->
       IF ~Flying(c) THEN since[c]
       ELSE [since[c] EXCEPT !.gens = @ \cup {server[s].next}]]

Activate(s) ==
  /\ server[s].phase = "activating"
  /\ IF Holds(s) /\ Expected(s)
       THEN Activation(s) /\ To(s, "activated") /\ UNCHANGED serving
       ELSE Raise(s) /\ UNCHANGED <<active, pending, since>>
  /\ UNCHANGED <<call, faults>> /\ ServerFrame

(* It is committed, and the answer is lost with the session. *)
ActivateUnanswered(s) ==
  /\ server[s].phase = "activating" /\ Holds(s) /\ Expected(s) /\ Fault
  /\ Activation(s) /\ serving' = None
  /\ server' = [server EXCEPT ![s] =
       IF server[s].up THEN Between(s, FALSE) ELSE Down]
  /\ UNCHANGED call /\ ServerFrame

(* swap(): CURRENT, then the pointer in memory. Readers are left out. *)
Swap(s) ==
  /\ server[s].phase = "activated"
  /\ server' = [server EXCEPT ![s] = [@ EXCEPT !.phase = "final", !.loaded = server[s].next]]
  /\ UNCHANGED <<active, pending, serving, call, since, faults>> /\ ServerFrame

(* The state is read again; the lifespan wants the first poll ready. *)
Final(s) ==
  /\ server[s].phase = "final"
  /\ LET ok == active = server[s].loaded
     IN IF ok \/ server[s].up
          THEN server' = [server EXCEPT ![s] = Between(s, ok)] /\ UNCHANGED serving
          ELSE Raise(s)
  /\ UNCHANGED <<active, pending, call, since, faults>> /\ ServerFrame

(* PostgreSQL, a file or an index fails in the middle of a poll. *)
PollFail(s) ==
  /\ server[s].phase \notin {"down", "idle"} /\ Fault
  /\ Raise(s)
  /\ UNCHANGED <<active, pending, call, since>> /\ ServerFrame

ServerLost ==
  /\ serving # None /\ Fault
  /\ serving' = None
  /\ UNCHANGED <<active, pending, server, call, since>> /\ ServerFrame

Crash(s) ==
  /\ server[s].phase # "down" /\ Fault
  /\ server' = [server EXCEPT ![s] = Down]
  /\ serving' = IF Holds(s) THEN None ELSE serving
  /\ LET lost == {c \in Calls : Flying(c) /\ call[c].at = s}
     IN /\ call' = [c \in Calls |-> IF c \in lost THEN NoCall ELSE call[c]]
        /\ since' = [c \in Calls |-> IF c \in lost THEN Nothing ELSE since[c]]
  /\ UNCHANGED <<active, pending>> /\ ServerFrame

----------------------------------------------------------------------------
(* Calls: the middleware `headers`, then a route that wants the current *)
(* generation. check() reads the state away from the loop and compares it *)
(* with what is loaded when the answer is back. *)

CallFrame == UNCHANGED <<dbVars, writer, serving, job, jobs, faults>>

Open(s) == server[s].up /\ server[s].ready /\ ~Transition(s)

CallStart(c, s) ==
  /\ ~Flying(c) /\ Open(s)
  /\ call' = [call EXCEPT ![c] = [NoCall EXCEPT !.step = "check", !.at = s]]
  /\ since' = [since EXCEPT ![c] = [gens |-> {active} \ {None}, hidden |-> gone]]
  /\ UNCHANGED server /\ CallFrame

Go(c, to) == call' = [call EXCEPT ![c] = to] /\ UNCHANGED since

Ends(c, to) == call' = [call EXCEPT ![c] = to] /\ since' = [since EXCEPT ![c] = Nothing]

(* The first check(). It only refuses more than the second, so what it *)
(* reads and what it compares are one step here. *)
CallCheck(c) ==
  LET s == call[c].at
  IN /\ call[c].step = "check"
     /\ IF Holds(s) /\ active # None
          THEN /\ IF active = server[s].loaded
                    THEN Go(c, [call[c] EXCEPT !.step = "deny"])
                    ELSE Ends(c, NoCall)
               /\ UNCHANGED server
          ELSE Ends(c, NoCall) /\ server' = [server EXCEPT ![s].ready = FALSE]
     /\ CallFrame

(* denied(), for this request; then readiness once more. *)
CallDeny(c) ==
  /\ call[c].step = "deny"
  /\ IF Open(call[c].at)
       THEN Go(c, [call[c] EXCEPT !.step = "check again", !.denied = gone])
       ELSE Ends(c, NoCall)
  /\ UNCHANGED server /\ CallFrame

(* SELECT 1 on the connection of the lock, and the state. *)
CallState(c) ==
  LET s == call[c].at
  IN /\ call[c].step = "check again" /\ call[c].got = None
     /\ IF Holds(s) /\ active # None
          THEN Go(c, [call[c] EXCEPT !.got = active]) /\ UNCHANGED server
          ELSE Ends(c, NoCall) /\ server' = [server EXCEPT ![s].ready = FALSE]
     /\ CallFrame

SameGeneration(c) == call[c].got = server[call[c].at].loaded

CallCompare(c) ==
  /\ call[c].step = "check again" /\ call[c].got # None
  /\ IF SameGeneration(c)
       THEN Go(c, [call[c] EXCEPT !.step = "serve", !.got = None])
       ELSE Ends(c, NoCall)
  /\ UNCHANGED server /\ CallFrame

(* The route takes owner.current: eligible products only. *)
CallServe(c) ==
  /\ call[c].step = "serve"
  /\ Ends(c, [NoCall EXCEPT !.step = "served",
                 !.answer = Items[server[call[c].at].loaded] \ call[c].denied])
  /\ UNCHANGED server /\ CallFrame

----------------------------------------------------------------------------
JobNext ==
  \/ \E j \in Jobs, e \in Generations, k \in {"sync", "bundle", "rollback"} : JobStart(j, k, e)
  \/ \E j \in Jobs : \/ Confirm(j) \/ Prepare(j) \/ Propose(j)
                     \/ JobFail(j)
  \/ WriterLost

PollNext(s) ==
  \/ Boot(s) \/ Poll(s) \/ Reconcile(s) \/ Candidate(s)
  \/ Activate(s) \/ Swap(s) \/ Final(s)

ServerNext ==
  \/ \E s \in Servers : \/ PollNext(s) \/ Reject(s) \/ ActivateUnanswered(s)
                        \/ PollFail(s) \/ Crash(s)
  \/ ServerLost

CallStep(c) == CallCheck(c) \/ CallState(c) \/ CallCompare(c) \/ CallDeny(c) \/ CallServe(c)

CallNext == \E c \in Calls : CallStep(c) \/ \E s \in Servers : CallStart(c, s)

Next == JobNext \/ ServerNext \/ CallNext

Spec == Init /\ [][Next]_vars

(* The watch task polls for as long as the process lives, and a container *)
(* that stopped is started again. Calls and jobs need not go on. *)
FairSpec == Spec /\ \A s \in Servers : WF_vars(PollNext(s))

----------------------------------------------------------------------------
(* Answers are given when a call is served, and a call that was refused *)
(* or lost its server has none. *)
Catalog == INSTANCE OneCatalog WITH
  newest <- Newest,
  call <- [c \in Calls |-> [open |-> Flying(c), gens |-> since[c].gens,
                            hidden |-> since[c].hidden, answer |-> call[c].answer]]

(* Jobs, servers and their locks together are the one catalog of *)
(* OneCatalog: whatever session is lost when, the pointer only moves *)
(* forward, and a call is answered from a generation that was active while *)
(* it ran, without the products confirmed gone before it began. *)
OneCatalogSpec == Catalog!Spec

(* A product that the newest complete export lacks is gone in every *)
(* generation that could ever be served, whether its job went on to *)
(* prepare, failed, was rejected or never proposed anything. *)
DeletedEverywhere ==
  \A g \in prepared : Items[g] \ gone \subseteq Items[Newest]

(* Whatever session is lost and whichever server is replaced meanwhile, a *)
(* proposed generation is activated or rejected, and then, if there is a *)
(* catalog at all, some server is ready with the active generation. *)
ServiceSettles ==
  active # None \/ pending # None ~>
    /\ pending = None
    /\ active # None => \E s \in Servers : Open(s) /\ Holds(s) /\ server[s].loaded = active

=============================================================================
