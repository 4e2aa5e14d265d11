--------------------------- MODULE ProfilerShell ---------------------------
(***************************************************************************)
(* The shell of the Profiler, profiling/main.py: what a process checks     *)
(* before it serves (lifespan, strict_problems, _connect_db), the answers  *)
(* of /readyz and /health, and the pool of database connections that the   *)
(* worker slots and the threads of io_limiter share.                       *)
(*                                                                         *)
(* The database changes under the process: an operator migrates it, it     *)
(* goes away and comes back, a catalog is activated or taken away.  A      *)
(* worker holds the connection of its advisory lock for the whole run and  *)
(* takes a second one to look at the catalog; its other statements use the *)
(* first (stores.py run_lock).  A thread of io_limiter takes one at a      *)
(* time, and so do the reads of profiles, which use other threads and are  *)
(* left out; the lock of the catalog reader is in CatalogLoads.  Answers   *)
(* are abstracted to which of the checks hold.                             *)
(***************************************************************************)
EXTENDS Integers, FiniteSets

CONSTANTS
    Settings,       \* what a process may be configured with
    Versions,       \* bound: the Alembic revisions there are
    RunSlots, IoThreads,  \* PROFILING_SLOTS and IO_THREADS of them
    MaxChanges,     \* bound: changes of the database
    Nothing         \* no process, no answer, an automatic pool size

VARIABLES
    db,             \* the database: reachable, its revision, an active catalog
    shell,          \* the process: its phase, settings, reader and vectors
    task,           \* what each slot and thread holds and waits for
    said,           \* the last answer to /readyz
    changes         \* changes so far

shellVars == <<db, shell, task, said, changes>>

CatalogSources == {"db", "file", "search_http"}
Setting == [strict : BOOLEAN, public : BOOLEAN, source : CatalogSources, refuse : BOOLEAN,
            superuser : BOOLEAN, pool : Nat \union {Nothing}, overflow : Nat,
            vectors : BOOLEAN, expects : Versions]

ShellAssumption ==
    /\ Settings \subseteq Setting /\ Versions \subseteq Nat
    /\ IsFiniteSet(RunSlots) /\ IsFiniteSet(IoThreads) /\ RunSlots \cap IoThreads = {}
    /\ RunSlots # {} /\ IoThreads # {} /\ MaxChanges \in Nat
    /\ Nothing \notin Nat /\ Nothing \notin Settings

Gone == [phase |-> "down", conf |-> Nothing, reader |-> Nothing, vectors |-> FALSE,
         loaded |-> FALSE]
Idle == [at |-> "idle", held |-> 0, wants |-> FALSE, catalog |-> FALSE]
Answer == [catalog : BOOLEAN, db : BOOLEAN, migration : BOOLEAN]

ShellTypeOK ==
    /\ db \in [up : BOOLEAN, version : Versions, catalog : BOOLEAN]
    /\ shell.phase \in {"down", "connect", "catalog", "vectors", "recover", "serving"}
    /\ (shell.phase = "down") = (shell.conf = Nothing)
    /\ shell.conf \in Settings \union {Nothing}
    /\ shell.reader \in CatalogSources \union {"none", Nothing}
    /\ task \in [RunSlots \union IoThreads -> [at : {"idle", "run", "catalog", "version"},
                   held : 0..2, wants : BOOLEAN, catalog : BOOLEAN]]
    /\ said \in Answer \union {Nothing} /\ changes \in 0..MaxChanges

ShellInit ==
    /\ db \in [up : {TRUE}, version : Versions, catalog : BOOLEAN]
    /\ shell = Gone /\ said = Nothing /\ changes = 0
    /\ task = [t \in RunSlots \union IoThreads |-> Idle]

-----------------------------------------------------------------------------
(* The start.  A process that is turned away is down again. *)

TurnedAway ==
    /\ shell' = Gone /\ said' = Nothing
    /\ task' = [t \in RunSlots \union IoThreads |-> Idle]

To(phase) == shell' = [shell EXCEPT !.phase = phase] /\ UNCHANGED <<task, said>>

(* strict_problems: a public default, or a catalog that is a file. *)
StrictProblem(conf) == conf.public \/ conf.source = "file"

StartShell(conf) ==
    /\ shell.phase = "down"
    /\ ~(conf.strict /\ StrictProblem(conf))
    /\ shell' = [Gone EXCEPT !.phase = "connect", !.conf = conf]
    /\ UNCHANGED <<db, task, said, changes>>

(* migration_ok: migrations come before the code that needs them, so a *)
(* process may find a later revision, and may see one arrive. *)
MigrationOk(conf) == db.version >= conf.expects

(* db_pool_size: a connection for each slot and each thread. *)
Pool(conf) ==
    IF conf.pool \in {0, Nothing} THEN Cardinality(RunSlots) + Cardinality(IoThreads) ELSE conf.pool

PoolTooSmall(conf) ==
    Pool(conf) + conf.overflow < Cardinality(RunSlots) + Cardinality(IoThreads)

ConnectDb ==
    LET conf == shell.conf
        refused == \/ PoolTooSmall(conf) \/ ~db.up
                   \/ conf.strict /\ ~MigrationOk(conf)
                   \/ conf.superuser /\ conf.refuse
    IN  /\ shell.phase = "connect"
        /\ IF refused THEN TurnedAway ELSE To("catalog")
        /\ UNCHANGED <<db, changes>>

(* A file that does not load leaves _NoCatalog behind; no active catalog *)
(* in the database is looked for again at each poll, unless the database *)
(* goes between the poll and the load; shared vectors are never done *)
(* without. *)
LoadCatalog(ok) ==
    LET source == shell.conf.source
        reader == IF source = "file" /\ ~ok THEN "none" ELSE source
    IN  /\ shell.phase = "catalog"
        /\ source = "db" /\ db.up => ok
        /\ IF ~ok /\ (source = "search_http" \/ (source = "db" /\ db.catalog))
             THEN TurnedAway
             ELSE /\ shell' = [shell EXCEPT !.phase = "vectors", !.reader = reader,
                        !.loaded = ok /\ (source = "db" => db.up /\ db.catalog)]
                  /\ UNCHANGED <<task, said>>
        /\ UNCHANGED <<db, changes>>

(* The tag spec and the embedding: a spec that does not fit ends the *)
(* start, vectors that do not load are done without. *)
StartEngines(spec, ok) ==
    /\ shell.phase = "vectors"
    /\ IF spec
         THEN /\ shell' = [shell EXCEPT !.phase = "recover",
                    !.vectors = shell.reader = "search_http" \/ (shell.conf.vectors /\ ok)]
              /\ UNCHANGED <<task, said>>
         ELSE TurnedAway
    /\ UNCHANGED <<db, changes>>

(* recover_stale_runs, then the supervisor and the callback client. *)
Recover ==
    /\ shell.phase = "recover"
    /\ IF db.up THEN To("serving") ELSE TurnedAway
    /\ UNCHANGED <<db, changes>>

(* SIGTERM, or the end of the process at any time. *)
StopShell ==
    /\ shell.phase # "down" /\ TurnedAway
    /\ UNCHANGED <<db, changes>>

-----------------------------------------------------------------------------
(* The pool of connections. *)

Serving == shell.phase = "serving"
Held == {c \in (RunSlots \union IoThreads) \X {1, 2} : c[2] <= task[c[1]].held}
Free == Cardinality(Held) < Pool(shell.conf) + shell.conf.overflow

Becomes(t, v) == task' = [task EXCEPT ![t] = v] /\ UNCHANGED <<db, changes>>

(* A run begins with the connection of its lock. *)
RunStarts(s) ==
    /\ Serving /\ task[s].at = "idle"
    /\ Becomes(s, [Idle EXCEPT !.at = "run", !.wants = TRUE])
    /\ UNCHANGED <<shell, said>>

TakeConnection(t) ==
    /\ Serving /\ task[t].wants /\ Free
    /\ Becomes(t, [task[t] EXCEPT !.held = @ + 1, !.wants = FALSE])
    /\ UNCHANGED <<shell, said>>

(* DB_POOL_TIMEOUT_S: a run goes on without its lock, or fails; a thread *)
(* finds no catalog, or no database. *)
TakeTimesOut(t) ==
    /\ Serving /\ task[t].wants /\ ~Free
    /\ IF t \in RunSlots /\ task[t].at = "run"
         THEN Becomes(t, [task[t] EXCEPT !.wants = FALSE]) /\ UNCHANGED said
         ELSE /\ Becomes(t, Idle)
              /\ said' = IF task[t].at # "version" THEN said
                         ELSE [catalog |-> task[t].catalog, db |-> FALSE, migration |-> FALSE]
    /\ UNCHANGED shell

(* catalog.active() in a run: a poll that is not of the last second. *)
RunLooks(s) ==
    /\ Serving /\ task[s].at = "run" /\ ~task[s].wants /\ shell.reader = "db"
    /\ Becomes(s, [task[s] EXCEPT !.at = "catalog", !.wants = TRUE])
    /\ UNCHANGED <<shell, said>>

RunHasLooked(s) ==
    /\ Serving /\ task[s].at = "catalog" /\ ~task[s].wants
    /\ Becomes(s, [task[s] EXCEPT !.at = "run", !.held = @ - 1])
    /\ shell' = [shell EXCEPT !.loaded = @ \/ (db.up /\ db.catalog)]
    /\ UNCHANGED said

RunEnds(s) ==
    /\ Serving /\ task[s].at = "run" /\ ~task[s].wants
    /\ Becomes(s, Idle) /\ UNCHANGED <<shell, said>>

-----------------------------------------------------------------------------
(* _ready_checks, and the same two reads of _health_sync: the catalog, *)
(* from the last poll or a new one, and then the database. *)

Asked(t) ==
    /\ Serving /\ task[t].at = "idle"
    /\ \/ /\ shell.reader = "db"
          /\ Becomes(t, [Idle EXCEPT !.at = "catalog", !.wants = TRUE])
       \/ /\ shell.reader = "db" => shell.loaded
          /\ Becomes(t, [Idle EXCEPT !.at = "version", !.wants = TRUE,
                                     !.catalog = shell.reader # "none"])
    /\ UNCHANGED <<shell, said>>

AskedCatalog(t) ==
    /\ Serving /\ task[t].at = "catalog" /\ ~task[t].wants
    /\ LET found == db.up /\ db.catalog
       IN  /\ Becomes(t, [Idle EXCEPT !.at = "version", !.wants = TRUE, !.catalog = found])
           /\ shell' = [shell EXCEPT !.loaded = @ \/ found]
    /\ UNCHANGED said

Answered(t) ==
    /\ Serving /\ task[t].at = "version" /\ ~task[t].wants
    /\ said' = [catalog |-> task[t].catalog, db |-> db.up,
                migration |-> db.up /\ MigrationOk(shell.conf)]
    /\ Becomes(t, Idle) /\ UNCHANGED shell

-----------------------------------------------------------------------------
(* What happens to the database: `alembic upgrade`, an outage, a catalog *)
(* that is activated or taken away. *)
Changed(v) ==
    /\ changes < MaxChanges /\ changes' = changes + 1
    /\ db' = v /\ UNCHANGED <<shell, task, said>>

DbChanges ==
    \/ \E n \in Versions : n > db.version /\ db.up /\ Changed([db EXCEPT !.version = n])
    \/ Changed([db EXCEPT !.up = ~@])
    \/ db.up /\ Changed([db EXCEPT !.catalog = ~@])

ShellNext ==
    \/ \E conf \in Settings : StartShell(conf)
    \/ ConnectDb \/ Recover \/ StopShell \/ DbChanges
    \/ \E ok \in BOOLEAN : LoadCatalog(ok) \/ \E spec \in BOOLEAN : StartEngines(spec, ok)
    \/ \E s \in RunSlots : RunStarts(s) \/ RunLooks(s) \/ RunHasLooked(s) \/ RunEnds(s)
    \/ \E t \in IoThreads : Asked(t) \/ AskedCatalog(t) \/ Answered(t)
    \/ \E t \in RunSlots \union IoThreads : TakeConnection(t) \/ TakeTimesOut(t)

ShellSpec == ShellInit /\ [][ShellNext]_shellVars

-----------------------------------------------------------------------------
(* A strict process serves only on a schema it can work with, whatever is *)
(* migrated while it starts and serves: its /readyz never lacks the *)
(* migration while the database answers, so a rolling deployment does not *)
(* take the old tasks out (main.py migration_ok). *)
RollingKeepsReady ==
    Serving /\ shell.conf.strict =>
        /\ db.version >= shell.conf.expects
        /\ said # Nothing /\ said.db => said.migration

(* The connections last: a run or a check that waits for one waits for *)
(* somebody who needs no other, so that the slots cannot hold the pool *)
(* against each other until the timeouts (main.py _connect_db). *)
WaitsEnd ==
    Serving /\ (\E t \in DOMAIN task : task[t].wants) =>
        Free \/ \E t \in DOMAIN task : task[t].held > 0 /\ ~task[t].wants
=============================================================================
