--------------------------- MODULE ManagedSearch ---------------------------
(***************************************************************************)
(* The gate between the Profiler's jobs and the shared Search catalog,     *)
(* integration/profiler_rebind.py, over profiling/supervisor.py.           *)
(*                                                                         *)
(* A binding is one SearchCatalog client: it retains one generation of the *)
(* catalog on the Search server until it is closed. Jobs run on the        *)
(* binding that was current when they were admitted. refresh() stops       *)
(* admission, waits for the admitted jobs, makes a new binding and puts it *)
(* in place of the old one, which is closed when its last reader is done.  *)
(*                                                                         *)
(* A step is one block under self.condition, or one call between two of    *)
(* them. A binding taken out of `retired` is out of every other thread's   *)
(* reach, so closing it belongs to the step that took it out.              *)
(***************************************************************************)
EXTENDS Naturals, Sequences, FiniteSets

CONSTANTS
  Bindings,   \* bound: the SearchCatalog clients that can be made
  First,      \* the one made by install()
  Snapshots,  \* generations of the catalog on the Search server
  Slots,      \* worker threads of the Supervisor
  Readers,    \* threads that read outside jobs: admission, health, heartbeat
  Refresher,  \* the thread inside refresh(): one, by refresh_lock
  QueueMax,   \* queue_max of the Supervisor
  None        \* no binding, no snapshot

SearchConstants ==
  /\ First \in Bindings /\ None \notin Bindings \cup Snapshots
  /\ QueueMax \in Nat
  /\ IsFiniteSet(Slots) /\ IsFiniteSet(Readers)
  /\ Refresher \notin Readers \cup Slots /\ Slots \cap Readers = {}

VARIABLES
  current,    \* the binding of new jobs
  snapshot,   \* the generation of each binding; None: not made yet
  closes,     \* how often close() was called on each binding
  retired,    \* bindings to close when their last reader is done
  readers,    \* readers of each binding
  reading,    \* the binding a thread is reading, or None
  paused, closing, closed,
  pending,    \* jobs admitted and not finished
  running,    \* jobs inside _run
  queue,      \* the Supervisor's queue: the binding of each job
  slot,       \* where each worker is
  bound,      \* the binding of its job (local.catalog)
  stage,      \* where refresh() is
  target,     \* the snapshot refresh() was asked for
  candidate,  \* the binding it made
  shutdown    \* where the end of the process is

gateVars == <<paused, closing, closed>>
jobVars == <<pending, running, queue, slot, bound>>
readVars == <<readers, reading>>
refreshVars == <<stage, target, candidate>>
vars == <<current, snapshot, closes, retired, readVars, gateVars, jobVars, refreshVars, shutdown>>

Threads == Slots \cup Readers \cup {Refresher}

RefreshStages ==
  {"idle", "drain", "compare", "check", "durable", "create", "validate", "swap", "end"}

TypeOK ==
  /\ current \in Bindings
  /\ snapshot \in [Bindings -> Snapshots \cup {None}]
  /\ closes \in [Bindings -> Nat]
  /\ retired \in SUBSET Bindings
  /\ readers \in [Bindings -> Nat]
  /\ reading \in [Threads -> Bindings \cup {None}]
  /\ paused \in BOOLEAN /\ closing \in BOOLEAN /\ closed \in BOOLEAN
  /\ pending \in Nat /\ running \in Nat
  /\ queue \in Seq(Bindings)
  /\ slot \in [Slots -> {"idle", "taken", "running"}]
  /\ bound \in [Slots -> Bindings \cup {None}]
  /\ stage \in RefreshStages
  /\ target \in Snapshots \cup {None}
  /\ candidate \in Bindings \cup {None}
  /\ shutdown \in {"no", "stopping", "emptied", "stopped", "done"}

Init ==
  /\ current = First
  /\ \E sn \in Snapshots : snapshot = [b \in Bindings |-> IF b = First THEN sn ELSE None]
  /\ closes = [b \in Bindings |-> 0]
  /\ retired = {}
  /\ readers = [b \in Bindings |-> 0]
  /\ reading = [t \in Threads |-> None]
  /\ paused = FALSE /\ closing = FALSE /\ closed = FALSE
  /\ pending = 0 /\ running = 0
  /\ queue = <<>>
  /\ slot = [s \in Slots |-> "idle"]
  /\ bound = [s \in Slots |-> None]
  /\ stage = "idle" /\ target = None /\ candidate = None
  /\ shutdown = "no"

----------------------------------------------------------------------------
(* Reading a binding. *)

(* Mutant: a retired binding is closed at once. *)
CloseRetired(b, nowRetired, nowReaders) ==
  IF b \in nowRetired
    THEN retired' = nowRetired \ {b} /\ closes' = [closes EXCEPT ![b] = @ + 1]
    ELSE retired' = nowRetired /\ UNCHANGED closes

(* _retire_ready, and _close of what it gives out. *)
RetireReady(b, nowRetired, nowReaders) ==
  IF b \in nowRetired /\ nowReaders[b] = 0
    THEN retired' = nowRetired \ {b} /\ closes' = [closes EXCEPT ![b] = @ + 1]
    ELSE retired' = nowRetired /\ UNCHANGED closes

Borrow(t, b) ==
  /\ reading' = [reading EXCEPT ![t] = b]
  /\ readers' = [readers EXCEPT ![b] = @ + 1]

Return(t) ==
  /\ reading[t] # None
  /\ reading' = [reading EXCEPT ![t] = None]
  /\ readers' = [readers EXCEPT ![reading[t]] = @ - 1]
  /\ RetireReady(reading[t], retired, readers')

(* check(), by_id() and the like, and health_snapshot(), take the current *)
(* binding; active() (admission) and health also want the gate open. *)
Read(t, admission) ==
  /\ reading[t] = None
  /\ ~closed /\ (admission => ~paused)
  /\ Borrow(t, current)
  /\ UNCHANGED <<current, snapshot, closes, retired, gateVars, jobVars, refreshVars, shutdown>>

ReadDone(t) ==
  /\ Return(t)
  /\ UNCHANGED <<current, snapshot, gateVars, jobVars, refreshVars, shutdown>>

----------------------------------------------------------------------------
(* Jobs. *)

(* submit(): a job the Supervisor has no room for is not counted. *)
Submit ==
  /\ ~paused /\ ~closing
  /\ Len(queue) < QueueMax
  /\ pending' = pending + 1
  /\ queue' = Append(queue, current)
  /\ UNCHANGED <<current, snapshot, closes, retired, readVars, gateVars, running, slot, bound, refreshVars, shutdown>>

(* Supervisor._worker: a job off the queue. *)
Take(s) ==
  /\ slot[s] = "idle"
  /\ queue # <<>>
  /\ slot' = [slot EXCEPT ![s] = "taken"]
  /\ bound' = [bound EXCEPT ![s] = Head(queue)]
  /\ queue' = Tail(queue)
  /\ UNCHANGED <<current, snapshot, closes, retired, readVars, gateVars, pending, running, refreshVars, shutdown>>

(* _run: the job is counted as running and fixed to its binding. *)
Begin(s) ==
  /\ slot[s] = "taken"
  /\ slot' = [slot EXCEPT ![s] = "running"]
  /\ running' = running + 1
  /\ UNCHANGED <<current, snapshot, closes, retired, readVars, gateVars, pending, queue, bound, refreshVars, shutdown>>

(* A job reads its own binding, gate or no gate. *)
JobRead(s) ==
  /\ slot[s] = "running" /\ reading[s] = None
  /\ Borrow(s, bound[s])
  /\ UNCHANGED <<current, snapshot, closes, retired, gateVars, jobVars, refreshVars, shutdown>>

(* The end of _run. The last job to end after close() retires the current *)
(* binding. *)
Finish(s) ==
  /\ slot[s] = "running" /\ reading[s] = None
  /\ slot' = [slot EXCEPT ![s] = "idle"]
  /\ bound' = [bound EXCEPT ![s] = None]
  /\ running' = running - 1
  /\ pending' = pending - 1
  /\ RetireReady(bound[s],
                 IF closed /\ running' = 0 THEN retired \cup {current} ELSE retired,
                 readers)
  /\ UNCHANGED <<current, snapshot, readVars, gateVars, queue, refreshVars, shutdown>>

----------------------------------------------------------------------------
(* refresh(). *)

RefreshGo(next) == stage' = next /\ UNCHANGED <<target, candidate>>

RefreshBegin(sn) ==
  /\ stage = "idle"
  /\ ~closing
  /\ stage' = "drain" /\ target' = sn /\ UNCHANGED candidate
  /\ paused' = TRUE
  /\ UNCHANGED <<current, snapshot, closes, retired, readVars, closing, closed, jobVars, shutdown>>

(* Wait for the admitted jobs; give up at the deadline or at shutdown. *)
Drain ==
  /\ stage = "drain"
  /\ RefreshGo(IF closing \/ pending # 0 THEN "end" ELSE "compare")
  /\ UNCHANGED <<current, snapshot, closes, retired, readVars, gateVars, jobVars, shutdown>>

(* The same snapshot: ask whether its lease on Search still stands. A *)
(* closed gate counts as a lost lease. *)
Compare ==
  /\ stage = "compare"
  /\ IF snapshot[current] = target /\ ~closed
       THEN Borrow(Refresher, current) /\ RefreshGo("check")
       ELSE RefreshGo("durable") /\ UNCHANGED readVars
  /\ UNCHANGED <<current, snapshot, closes, retired, gateVars, jobVars, shutdown>>

Checked ==
  /\ stage = "check"
  /\ Return(Refresher)
  /\ RefreshGo("end") \/ RefreshGo("durable")
  /\ UNCHANGED <<current, snapshot, gateVars, jobVars, shutdown>>

(* Unfinished rows of profile_runs keep the old generation, and so does a *)
(* count that fails; the same generation is not asked for. *)
Durable ==
  /\ stage = "durable"
  /\ \/ RefreshGo("create")
     \/ snapshot[current] # target /\ RefreshGo("end")
  /\ UNCHANGED <<current, snapshot, closes, retired, readVars, gateVars, jobVars, shutdown>>

(* factory(): a client of whatever Search serves now, or an error. *)
Create ==
  /\ stage = "create"
  /\ \/ \E b \in Bindings, sn \in Snapshots :
          /\ snapshot[b] = None
          /\ snapshot' = [snapshot EXCEPT ![b] = sn]
          /\ candidate' = b /\ stage' = "validate" /\ UNCHANGED target
     \/ RefreshGo("end") /\ UNCHANGED snapshot
  /\ UNCHANGED <<current, closes, retired, readVars, gateVars, jobVars, shutdown>>

(* The snapshot asked for, the same contract for the same snapshot, and a *)
(* lease that stands. *)
Validate ==
  /\ stage = "validate"
  /\ \/ snapshot[candidate] = target /\ RefreshGo("swap")
     \/ RefreshGo("end")
  /\ UNCHANGED <<current, snapshot, closes, retired, readVars, gateVars, jobVars, shutdown>>

(* Mutant: the old binding is forgotten. *)
SwapForgetting ==
  /\ stage = "swap"
  /\ stage' = "end" /\ UNCHANGED target
  /\ IF closing
       THEN UNCHANGED <<current, candidate>>
       ELSE current' = candidate /\ candidate' = None
  /\ UNCHANGED <<snapshot, closes, retired, readVars, gateVars, jobVars, shutdown>>

(* The new binding is put in place, unless the process is closing; the old *)
(* one is closed now or when its last reader is done. *)
Swap ==
  /\ stage = "swap"
  /\ stage' = "end" /\ UNCHANGED target
  /\ IF closing
       THEN UNCHANGED <<current, candidate, closes, retired>>
       ELSE /\ current' = candidate /\ candidate' = None
            /\ RetireReady(current, retired \cup {current}, readers)
  /\ UNCHANGED <<snapshot, readVars, gateVars, jobVars, shutdown>>

(* The finally block: close a candidate that was not put in place, and *)
(* open the gate unless the process is closing. *)
RefreshEnd ==
  /\ stage = "end"
  /\ closes' = IF candidate = None THEN closes ELSE [closes EXCEPT ![candidate] = @ + 1]
  /\ stage' = "idle" /\ target' = None /\ candidate' = None
  /\ paused' = closing
  /\ UNCHANGED <<current, snapshot, retired, readVars, closing, closed, jobVars, shutdown>>

----------------------------------------------------------------------------
(* Shutdown: stop(), then close(). *)

StopBegin ==
  /\ shutdown = "no"
  /\ shutdown' = "stopping"
  /\ closing' = TRUE /\ paused' = TRUE
  /\ UNCHANGED <<current, snapshot, closes, retired, readVars, closed, jobVars, refreshVars>>

(* Supervisor.stop: what is still queued is dropped. *)
StopDrop ==
  /\ shutdown = "stopping"
  /\ shutdown' = "emptied"
  /\ queue' = <<>>
  /\ UNCHANGED <<current, snapshot, closes, retired, readVars, gateVars, pending, running, slot, bound, refreshVars>>

(* The workers ended, or the timeout did. A worker that has a job in hand *)
(* reaches _run within the timeout. *)
StopReturn ==
  /\ shutdown = "emptied"
  /\ \A s \in Slots : slot[s] # "taken"
  /\ shutdown' = "stopped"
  /\ pending' = running
  /\ UNCHANGED <<current, snapshot, closes, retired, readVars, gateVars, running, queue, slot, bound, refreshVars>>

Close ==
  /\ shutdown = "stopped"
  /\ shutdown' = "done"
  /\ closed' = TRUE /\ closing' = TRUE /\ paused' = TRUE
  /\ RetireReady(current, IF running = 0 THEN retired \cup {current} ELSE retired, readers)
  /\ UNCHANGED <<current, snapshot, readVars, jobVars, refreshVars>>

----------------------------------------------------------------------------
SlotStep(s) == Take(s) \/ Begin(s) \/ JobRead(s) \/ Finish(s)

RefreshStep ==
  \/ Drain \/ Compare \/ Checked \/ Durable \/ Create \/ Validate \/ Swap \/ RefreshEnd

ShutdownStep == StopDrop \/ StopReturn \/ Close

Next ==
  \/ \E t \in Readers, admission \in BOOLEAN : Read(t, admission)
  \/ \E t \in Readers \cup Slots : ReadDone(t)
  \/ Submit
  \/ \E s \in Slots : SlotStep(s)
  \/ \E sn \in Snapshots : RefreshBegin(sn)
  \/ RefreshStep
  \/ StopBegin \/ ShutdownStep

Spec == Init /\ [][Next]_vars

(* Threads run; a job ends and so does every read of it. *)
Fairness ==
  /\ \A t \in Readers \cup Slots : WF_vars(ReadDone(t))
  /\ \A s \in Slots : WF_vars(Take(s)) /\ WF_vars(Begin(s)) /\ SF_vars(Finish(s))
  /\ WF_vars(RefreshStep)
  /\ WF_vars(ShutdownStep)

FairSpec == Spec /\ Fairness

----------------------------------------------------------------------------
Made(b) == snapshot[b] # None
Open(b) == Made(b) /\ closes[b] = 0
Busy(s) == slot[s] # "idle"

(* Nobody uses a binding that was closed: not a job in the queue or in *)
(* hand, not a reader that started before a refresh or a shutdown, not a *)
(* new job (_retire_ready, _run, close). *)
InUseIsOpen ==
  /\ \A t \in Threads : reading[t] # None => Open(reading[t])
  /\ \A i \in 1 .. Len(queue) : Open(queue[i])
  /\ \A s \in Slots : Busy(s) => Open(bound[s])
  /\ ~closed => Open(current)

(* A refresh that looks at the catalog does so alone: past the drain no *)
(* job is queued or in hand and none is admitted until it ends, so that a *)
(* job runs on the current binding from end to end (refresh, submit). *)
RefreshAlone ==
  /\ stage # "idle" => paused
  /\ stage \notin {"idle", "drain", "end"} => queue = <<>> /\ \A s \in Slots : ~Busy(s)
  /\ \A i \in 1 .. Len(queue) : queue[i] = current
  /\ \A s \in Slots : Busy(s) => bound[s] = current

(* The count refresh() waits for is the number of admitted jobs that are *)
(* not finished, also for jobs refused (submit) and ended (_run). *)
PendingExact ==
  ~closing => pending = Len(queue) + Cardinality({s \in Slots : Busy(s)})

(* A refresh ends and opens the gate again, whatever fails in it. *)
Admitting == ~paused \/ closing
AdmissionReopens == []<>Admitting

(* Every client that is made and is not the current one is closed, and so *)
(* is the last one at shutdown; none is closed twice. An open client keeps *)
(* a generation alive on the Search server. *)
ClosedOnce == \A b \in Bindings : closes[b] <= 1

(* All of it, at once. *)
GateIsSafe == InUseIsOpen /\ RefreshAlone /\ PendingExact /\ ClosedOnce

Released(b) == Made(b) => closes[b] > 0 \/ (b = current /\ ~closed)
ClientsReleased == \A b \in Bindings : []<>Released(b)

=============================================================================
