----------------------------- MODULE ChatTurns -----------------------------
(***************************************************************************)
(* Turns of Chat and the runtime lease: chat/app/store.py, runtime.py and  *)
(* the heartbeat of main.py.                                               *)
(*                                                                         *)
(* A process answers turns with tasks it owns; the store lets only the     *)
(* owner named by the lease write. The heartbeat keeps the lease, and when *)
(* a task cannot tell what the store holds it demands a recovery: all      *)
(* tasks are cancelled and the lease goes over to a fresh owner id, which  *)
(* ends every turn left in processing.                                     *)
(*                                                                         *)
(* A store operation is a transaction, so one step; its answer is taken in *)
(* the same step. A call whose caller stopped waiting (timeout, lost       *)
(* answer, cancelled task, dead process) is kept in `late`: it runs at any *)
(* later time, or never. A call whose answer was lost is a late call that  *)
(* ran before the caller went on.                                          *)
(***************************************************************************)
EXTENDS Naturals, Sequences, FiniteSets

CONSTANTS
  Proc,       \* Chat processes: one, or two while a deployment overlaps
  Turns,      \* turn ids
  Conv,       \* the conversation of each turn
  Ids,        \* owner ids: as many as uuid4 is taken to be fresh
  MaxActive,  \* CHAT_MAX_ACTIVE
  DailyLimit, \* CHAT_DAILY_LIMIT
  PendingMax, \* CHAT_MAX_PENDING_ADMISSIONS
  Attempts,   \* tries of start and of finish: 3 in the code
  MaxEvents,  \* bound: events a task writes before it ends a turn
  MaxLate,    \* bound: calls given up and still under way
  MaxFaults,  \* bound: lost answers, late reads, expiries, stops, crashes, pauses
  Pauses,     \* may an operator pause admissions?
  Overtaking, \* may a start given up run after a later attempt of its task?
  None        \* no owner, no turn, nothing pending

ASSUME ChatConstants ==
  /\ IsFiniteSet(Proc) /\ IsFiniteSet(Turns)
  /\ None \notin Ids \cup [from : Ids \cup {None}, to : Ids, claim : BOOLEAN]
  /\ None \notin {"PROCESSING", "COMPLETED", "CANCELLED", "FAILED"}
  /\ MaxActive \in Nat \ {0} /\ DailyLimit \in Nat /\ PendingMax \in Nat \ {0}
  /\ Attempts \in Nat \ {0}
  /\ MaxEvents \in Nat /\ MaxLate \in Nat /\ MaxFaults \in Nat
  /\ Pauses \in BOOLEAN /\ Overtaking \in BOOLEAN

VARIABLES
  lease,      \* runtime_lease: its owner, and whether it has not expired
  status,     \* of each turn; None: no row
  events,     \* the kinds of the events of each turn
  paused,     \* admission_control
  late,       \* calls nobody waits for
  up,         \* of each process: "up", "stopping" or "down"
  hb,         \* where its heartbeat is
  healthy,    \* runtime.healthy
  owner,      \* runtime.owner
  owned,      \* `owned` of the heartbeat
  pending,    \* `pending` of the heartbeat
  demand,     \* recovery_version # recovered_version
  covers,     \* pending["version"] = recovery_version
  job,        \* the task of each turn, with its admission
  cancelling, \* turns whose cancellation is stored, the task not yet told
  released,   \* history: owner ids that gave the lease back
  faults

storeVars == <<lease, status, events>>
beatVars == <<hb, owner, owned, pending>>
recoveryVars == <<healthy, demand, covers>>
vars == <<storeVars, paused, late, up, beatVars, recoveryVars, job, cancelling, released, faults>>

Endings == {"COMPLETED", "CANCELLED", "FAILED"}

(* Stages of a task before its turn is accepted, and with it. *)
Admitting == {"exists", "config", "start"}
Stages == Admitting \cup {"none", "rejected", "run", "finish", "closing"}

NoJob == [stage |-> "none", tries |-> 0, sure |-> TRUE, ending |-> None]

(* History only: there is no task, and the last one was turned down; sure: *)
(* none of its starts was still under way. *)
RejectedJob(sure) == [NoJob EXCEPT !.stage = "rejected", !.sure = sure]

Processing == {t \in Turns : status[t] = "PROCESSING"}

StartCall(t, o) == [op |-> "start", turn |-> t, owner |-> o]
EmitCall(t, o, k) == [op |-> "emit", turn |-> t, owner |-> o, kind |-> k]
LeaseCall(pn) == [op |-> "lease", pn |-> pn]
ReleaseCall(o) == [op |-> "release", owner |-> o]

Pendings == [from : Ids \cup {None}, to : Ids, claim : BOOLEAN]

Calls ==
  [op : {"start"}, turn : Turns, owner : Ids]
    \cup [op : {"emit"}, turn : Turns, owner : Ids, kind : Endings \cup {"delta"}]
    \cup [op : {"lease"}, pn : Pendings]
    \cup [op : {"release"}, owner : Ids]

TypeOK ==
  /\ lease \in [owner : Ids \cup {None}, active : BOOLEAN]
  /\ status \in [Turns -> Endings \cup {"PROCESSING", None}]
  /\ events \in [Turns -> Seq({"delta", "turn.finished"})]
  /\ paused \in BOOLEAN
  /\ late \subseteq Calls
  /\ up \in [Proc -> {"up", "stopping", "down"}]
  /\ hb \in [Proc -> {"rest", "gather", "inspect", "lease", "renew", "off"}]
  /\ healthy \in [Proc -> BOOLEAN]
  /\ owner \in [Proc -> Ids \cup {None}]
  /\ owned \in [Proc -> BOOLEAN]
  /\ pending \in [Proc -> Pendings \cup {None}]
  /\ demand \in [Proc -> BOOLEAN] /\ covers \in [Proc -> BOOLEAN]
  /\ job \in [Proc -> [Turns -> [stage : Stages, tries : Nat, sure : BOOLEAN,
                                ending : Endings \cup {None}]]]
  /\ cancelling \in [Proc -> SUBSET Turns]
  /\ released \in SUBSET Ids
  /\ faults \in 0..MaxFaults

Init ==
  /\ lease = [owner |-> None, active |-> FALSE]
  /\ status = [t \in Turns |-> None]
  /\ events = [t \in Turns |-> <<>>]
  /\ paused = FALSE
  /\ late = {}
  /\ up = [p \in Proc |-> "down"]
  /\ hb = [p \in Proc |-> "off"]
  /\ healthy = [p \in Proc |-> FALSE]
  /\ owner = [p \in Proc |-> None]
  /\ owned = [p \in Proc |-> FALSE]
  /\ pending = [p \in Proc |-> None]
  /\ demand = [p \in Proc |-> FALSE]
  /\ covers = [p \in Proc |-> FALSE]
  /\ job = [p \in Proc |-> [t \in Turns |-> NoJob]]
  /\ cancelling = [p \in Proc |-> {}]
  /\ released = {}
  /\ faults = 0

Fault == faults < MaxFaults /\ faults' = faults + 1

----------------------------------------------------------------------------
(* Transactions of the store. *)

(* _guard: only the owner of a lease that has not expired writes. *)
Guard(o) == lease = [owner |-> o, active |-> TRUE]

(* Mutant: start does not ask for the lease. *)
StartAnswerUnguarded(t, o) ==
  IF status[t] # None THEN "existing"
  ELSE IF Cardinality(Processing) >= MaxActive THEN "rejected"
  ELSE IF paused THEN "refused" ELSE "made"

StartAnswer(t, o) ==
  CASE ~Guard(o) -> "refused"
    [] Guard(o) /\ status[t] # None -> "existing"
    [] Guard(o) /\ status[t] = None ->
         IF \/ \E u \in Processing : Conv[u] = Conv[t]
            \/ Cardinality({u \in Turns : status[u] # None}) >= DailyLimit
            \/ Cardinality(Processing) >= MaxActive
         THEN "rejected"
         ELSE IF paused THEN "refused" ELSE "made"

StartEffect(t, o) ==
  /\ status' = IF StartAnswer(t, o) = "made" THEN [status EXCEPT ![t] = "PROCESSING"] ELSE status
  /\ UNCHANGED <<lease, events>>

EmitAnswer(t, o) ==
  CASE ~Guard(o) -> "refused"
    [] Guard(o) /\ status[t] = None -> "absent"
    [] Guard(o) /\ status[t] \in Endings -> "over"
    [] Guard(o) /\ status[t] = "PROCESSING" -> "ok"

(* Mutant: the last event is filed under its status. *)
WriteEventRaw(t, k) ==
  /\ status' = IF k \in Endings THEN [status EXCEPT ![t] = k] ELSE status
  /\ events' = [events EXCEPT ![t] = Append(@, k)]

WriteEvent(t, k) ==
  /\ status' = IF k \in Endings THEN [status EXCEPT ![t] = k] ELSE status
  /\ events' = [events EXCEPT ![t] = Append(@, IF k \in Endings THEN "turn.finished" ELSE k)]

(* Mutant: emit does not look at the status. *)
EmitEffectAlways(t, o, k) ==
  /\ IF EmitAnswer(t, o) \in {"ok", "over"} THEN WriteEvent(t, k) ELSE UNCHANGED <<status, events>>
  /\ UNCHANGED lease

EmitEffect(t, o, k) ==
  /\ IF EmitAnswer(t, o) = "ok" THEN WriteEvent(t, k) ELSE UNCHANGED <<status, events>>
  /\ UNCHANGED lease

(* lease with next_owner: pn.from is compared, pn.to put in its place. *)
LeaseAnswer(pn) ==
  \/ lease.owner = pn.to
  \/ lease.owner = pn.from /\ ~(pn.claim /\ lease.active)

Sweep ==
  /\ status' = [t \in Turns |-> IF t \in Processing THEN "FAILED" ELSE status[t]]
  /\ events' = [t \in Turns |-> IF t \in Processing THEN Append(events[t], "turn.finished") ELSE events[t]]

(* Mutant: a rotation leaves the turns of the owner it replaces. *)
LeaseEffectKeeping(pn) ==
  /\ lease' = IF LeaseAnswer(pn) THEN [owner |-> pn.to, active |-> TRUE] ELSE lease
  /\ UNCHANGED <<status, events>>

LeaseEffect(pn) ==
  /\ lease' = IF LeaseAnswer(pn) THEN [owner |-> pn.to, active |-> TRUE] ELSE lease
  /\ IF LeaseAnswer(pn) /\ lease.owner # pn.to THEN Sweep ELSE UNCHANGED <<status, events>>

OwnersOf(c) == IF c.op = "lease" THEN {c.pn.from, c.pn.to} ELSE {c.owner}

(* Owner ids something still refers to; a fresh one is not among them. *)
Referenced ==
  {lease.owner} \cup {owner[p] : p \in Proc} \cup released
    \cup (UNION {{pending[p].from, pending[p].to} : p \in {q \in Proc : pending[q] # None}})
    \cup (UNION {OwnersOf(c) : c \in late})

Fresh == CHOOSE i \in Ids : i \notin Referenced

(* Mutant: it deletes the row. *)
ReleaseEffectDeleting(o) ==
  /\ IF lease.owner = o
       THEN lease' = [owner |-> None, active |-> FALSE] /\ released' = released \cup {o}
       ELSE UNCHANGED <<lease, released>>
  /\ UNCHANGED <<status, events>>

(* A released lease keeps a row with an id nobody has. *)
ReleaseEffect(o) ==
  /\ IF lease.owner = o
       THEN lease' = [owner |-> Fresh, active |-> FALSE] /\ released' = released \cup {o}
       ELSE UNCHANGED <<lease, released>>
  /\ UNCHANGED <<status, events>>

(* Some of these calls go on without their caller. *)
GiveUp(calls) ==
  \E kept \in SUBSET calls :
    late' = late \cup kept /\ Cardinality(late') <= MaxLate

(* A call nobody waits for runs. *)
Execute(c) ==
  /\ c \in late
  /\ late' = late \ {c}
  /\ \/ c.op = "start" /\ StartEffect(c.turn, c.owner) /\ UNCHANGED released
     \/ c.op = "emit" /\ EmitEffect(c.turn, c.owner, c.kind) /\ UNCHANGED released
     \/ c.op = "lease" /\ LeaseEffect(c.pn) /\ UNCHANGED released
     \/ c.op = "release" /\ ReleaseEffect(c.owner)
  /\ UNCHANGED <<paused, up, beatVars, recoveryVars, job, cancelling, faults>>

(* 40 seconds without renewal. The owner of a live heartbeat renews every *)
(* 8 or 2 seconds, so that its lease expires is a fault. *)
Kept == \E p \in Proc : up[p] = "up" /\ owned[p] /\ lease.owner = owner[p]

Expire ==
  /\ lease.active
  /\ IF Kept THEN Fault ELSE UNCHANGED faults
  /\ lease' = [lease EXCEPT !.active = FALSE]
  /\ UNCHANGED <<status, events, paused, late, up, beatVars, recoveryVars, job, cancelling, released>>

(* pause_admissions, of an operator; its toggles are counted with the *)
(* faults, which bounds them. *)
PauseAdmissions ==
  /\ Pauses /\ Fault
  /\ paused' = ~paused
  /\ UNCHANGED <<storeVars, late, up, beatVars, recoveryVars, job, cancelling, released>>

----------------------------------------------------------------------------
(* Tasks. memVars: what a task of Chat leaves alone. *)

memVars == <<paused, up, beatVars, cancelling, released>>

RequireRecovery(p) ==
  /\ healthy' = [healthy EXCEPT ![p] = FALSE]
  /\ demand' = [demand EXCEPT ![p] = TRUE]
  /\ covers' = [covers EXCEPT ![p] = FALSE]

JobEnds(p, t) == job' = [job EXCEPT ![p][t] = NoJob]

(* accept() reads the turn, and after that read looks for an admission. *)
(* What it read may be out of date by then, which counts as a fault. *)
Accept(p, t) ==
  /\ up[p] = "up" /\ job[p][t].stage \in {"none", "rejected"}
  /\ IF status[t] = None THEN UNCHANGED faults ELSE Fault
  /\ Cardinality({u \in Turns : job[p][u].stage \in Admitting}) < PendingMax
  /\ job' = [job EXCEPT ![p][t] = [NoJob EXCEPT !.stage = "exists"]]
  /\ UNCHANGED <<storeVars, late, memVars, recoveryVars>>

AcceptUnowned(p, t) ==
  /\ up[p] = "up" /\ job[p][t].stage \in {"none", "rejected"}
  /\ status[t] # None
  /\ IF status[t] = "PROCESSING" THEN UNCHANGED faults ELSE Fault
  /\ RequireRecovery(p)
  /\ UNCHANGED <<storeVars, late, memVars, job>>

(* The task reads the turn itself, then asks whether the process is ready. *)
JobExists(p, t) ==
  /\ job[p][t].stage = "exists"
  /\ IF status[t] = "PROCESSING" THEN RequireRecovery(p) ELSE UNCHANGED recoveryVars
  /\ IF status[t] = None /\ healthy[p]
       THEN job' = [job EXCEPT ![p][t].stage = "config"]
       ELSE JobEnds(p, t)
  /\ UNCHANGED <<storeVars, late, faults, memVars>>

(* The connection, the key and the model of the turn. *)
JobConfigured(p, t) ==
  /\ job[p][t].stage = "config"
  /\ job' = [job EXCEPT ![p][t].stage = "start"]
  /\ UNCHANGED <<storeVars, late, faults, memVars, recoveryVars>>

(* Anything that fails before start was called. *)
JobGivesUp(p, t) ==
  /\ job[p][t].stage \in {"exists", "config"}
  /\ JobEnds(p, t)
  /\ UNCHANGED <<storeVars, late, faults, memVars, recoveryVars>>

StartCallOf(p, t) == StartCall(t, owner[p])

(* Mutant: attempts that ran out are taken for a rejection. *)
StartUnsureDefinite(p, t) ==
  /\ UNCHANGED recoveryVars
  /\ job' = IF job[p][t].tries + 1 < Attempts
       THEN [job EXCEPT ![p][t].tries = @ + 1, ![p][t].sure = FALSE]
       ELSE [job EXCEPT ![p][t] = RejectedJob(TRUE)]

(* An attempt whose outcome is not known, or was 503: try again, or leave *)
(* it to a recovery. *)
StartUnsure(p, t) ==
  IF job[p][t].tries + 1 < Attempts
    THEN job' = [job EXCEPT ![p][t].tries = @ + 1, ![p][t].sure = FALSE] /\ UNCHANGED recoveryVars
    ELSE JobEnds(p, t) /\ RequireRecovery(p)

(* The turn exists: an earlier attempt made it, or it is nobody's. *)
StartFound(p, t) ==
  IF status[t] # "PROCESSING"
    THEN JobEnds(p, t) /\ UNCHANGED recoveryVars
    ELSE IF job[p][t].sure
      THEN JobEnds(p, t) /\ RequireRecovery(p)
      ELSE job' = [job EXCEPT ![p][t] = [NoJob EXCEPT !.stage = "run"]] /\ UNCHANGED recoveryVars

(* One attempt of start, answered. *)
StartAnswered(p, t) ==
  LET answer == StartAnswer(t, owner[p]) IN
  /\ job[p][t].stage = "start"
  /\ StartEffect(t, owner[p])
  /\ late' = IF Overtaking THEN late ELSE late \ {StartCallOf(p, t)}
  /\ \/ /\ answer = "made"
        /\ job' = [job EXCEPT ![p][t] = [NoJob EXCEPT !.stage = "run"]]
        /\ UNCHANGED recoveryVars
     \/ answer = "existing" /\ StartFound(p, t)
     \/ /\ answer = "rejected"
        /\ job' = [job EXCEPT ![p][t] = RejectedJob(StartCallOf(p, t) \notin late')]
        /\ UNCHANGED recoveryVars
     \/ answer = "refused" /\ StartUnsure(p, t)
  /\ UNCHANGED <<faults, memVars>>

(* No answer. A database error is not retried. *)
StartLost(p, t) ==
  /\ job[p][t].stage = "start"
  /\ Fault
  /\ GiveUp({StartCallOf(p, t)})
  /\ StartUnsure(p, t) \/ (JobEnds(p, t) /\ RequireRecovery(p))
  /\ UNCHANGED <<storeVars, memVars>>

Finishing(p, t, e) ==
  job' = [job EXCEPT ![p][t] = [NoJob EXCEPT !.stage = "finish", !.ending = e]]

(* generate() writes progress, text and cards. An event the store turns *)
(* down because the turn is over stops the task; any other failure ends *)
(* the turn. *)
RunEmit(p, t) ==
  LET answer == EmitAnswer(t, owner[p]) IN
  /\ job[p][t].stage = "run"
  /\ Len(events[t]) < MaxEvents
  /\ EmitEffect(t, owner[p], "delta")
  /\ \/ answer = "ok" /\ UNCHANGED job
     \/ answer = "over" /\ job' = [job EXCEPT ![p][t].stage = "closing"]
     \/ answer \in {"refused", "absent"} /\ Finishing(p, t, "FAILED")
  /\ UNCHANGED <<late, faults, memVars, recoveryVars>>

RunEnds(p, t) ==
  /\ job[p][t].stage = "run"
  /\ Finishing(p, t, "COMPLETED") \/ Finishing(p, t, "FAILED")
  /\ UNCHANGED <<storeVars, late, faults, memVars, recoveryVars>>

(* Mutant: it leaves the turn. *)
FinishUnsureSilent(p, t) ==
  IF job[p][t].tries + 1 < Attempts
    THEN job' = [job EXCEPT ![p][t].tries = @ + 1] /\ UNCHANGED recoveryVars
    ELSE JobEnds(p, t) /\ UNCHANGED recoveryVars

(* finish() tries again after any error, then leaves the turn to a *)
(* recovery. *)
FinishUnsure(p, t) ==
  IF job[p][t].tries + 1 < Attempts
    THEN job' = [job EXCEPT ![p][t].tries = @ + 1] /\ UNCHANGED recoveryVars
    ELSE JobEnds(p, t) /\ RequireRecovery(p)

FinishCallOf(p, t) == EmitCall(t, owner[p], job[p][t].ending)

FinishAnswered(p, t) ==
  /\ job[p][t].stage = "finish"
  /\ EmitEffect(t, owner[p], job[p][t].ending)
  /\ IF EmitAnswer(t, owner[p]) \in {"ok", "over"}
       THEN JobEnds(p, t) /\ UNCHANGED recoveryVars
       ELSE FinishUnsure(p, t)
  /\ UNCHANGED <<late, faults, memVars>>

FinishLost(p, t) ==
  /\ job[p][t].stage = "finish"
  /\ Fault
  /\ GiveUp({FinishCallOf(p, t)})
  /\ FinishUnsure(p, t)
  /\ UNCHANGED <<storeVars, memVars>>

(* A stopped task has saved its trace. *)
Closed(p, t) ==
  /\ job[p][t].stage = "closing"
  /\ JobEnds(p, t)
  /\ UNCHANGED <<storeVars, late, faults, memVars, recoveryVars>>

(* The cancellation of a client: first the event, then the task. *)
Cancel(p, t) ==
  /\ up[p] = "up"
  /\ EmitAnswer(t, owner[p]) \in {"ok", "over"}
  /\ EmitEffect(t, owner[p], "CANCELLED")
  /\ cancelling' = [cancelling EXCEPT ![p] = @ \cup {t}]
  /\ UNCHANGED <<paused, late, up, beatVars, recoveryVars, job, released, faults>>

CancelLost(p, t) ==
  /\ up[p] = "up" /\ Fault
  /\ GiveUp({EmitCall(t, owner[p], "CANCELLED")})
  /\ UNCHANGED <<storeVars, memVars, recoveryVars, job>>

(* Cancelled tasks end at once, but one that was generating saves its *)
(* trace first. The calls they waited for go on without them. *)
Cancelled(j) == IF j.stage = "run" THEN [NoJob EXCEPT !.stage = "closing"] ELSE NoJob

CallsOf(p, ts) ==
  {StartCallOf(p, t) : t \in {u \in ts : job[p][u].stage = "start"}}
    \cup {EmitCall(t, owner[p], "delta") : t \in {u \in ts : job[p][u].stage = "run"}}
    \cup {FinishCallOf(p, t) : t \in {u \in ts : job[p][u].stage = "finish"}}

CancelOwned(p, t) ==
  /\ t \in cancelling[p]
  /\ cancelling' = [cancelling EXCEPT ![p] = @ \ {t}]
  /\ job' = [job EXCEPT ![p][t] = Cancelled(@)]
  /\ GiveUp(CallsOf(p, {t}))
  /\ UNCHANGED <<storeVars, paused, up, beatVars, recoveryVars, released, faults>>

----------------------------------------------------------------------------
(* The heartbeat, one task of each process. *)

hostVars == <<paused, up, cancelling, released>>

(* All tasks of p are cancelled. One that was still admitting its turn *)
(* demands a recovery. *)
CancelAll(p) ==
  LET unsure == \E t \in Turns : job[p][t].stage \in Admitting IN
  /\ job' = [job EXCEPT ![p] = [t \in Turns |-> Cancelled(job[p][t])]]
  /\ demand' = [demand EXCEPT ![p] = @ \/ unsure]
  /\ covers' = [covers EXCEPT ![p] = @ /\ ~unsure]

Beat(p) ==
  /\ hb[p] = "rest"
  /\ IF healthy[p] /\ ~demand[p]
       THEN /\ hb' = [hb EXCEPT ![p] = "renew"]
            /\ UNCHANGED <<late, recoveryVars, job>>
       ELSE /\ hb' = [hb EXCEPT ![p] = "gather"]
            /\ healthy' = [healthy EXCEPT ![p] = FALSE]
            /\ CancelAll(p)
            /\ GiveUp(CallsOf(p, Turns))
  /\ UNCHANGED <<storeVars, owner, owned, pending, faults, hostVars>>

(* Mutant: nobody waits for the cancelled tasks. *)
TasksTold(p) == TRUE

(* gather(): the cancelled tasks have ended. *)
TasksGone(p) == \A t \in Turns : job[p][t].stage # "closing"

(* The next lease to ask for, of the recovery that is demanded now. *)
Prepare(p, from, claim) ==
  /\ hb' = [hb EXCEPT ![p] = "lease"]
  /\ pending' = [pending EXCEPT ![p] = [from |-> from, to |-> Fresh, claim |-> claim]]
  /\ covers' = [covers EXCEPT ![p] = TRUE]
  /\ UNCHANGED <<healthy, demand>>

(* A lease call that got no answer is made again as it was. *)
Gathered(p) ==
  /\ hb[p] = "gather"
  /\ TasksGone(p)
  /\ \/ pending[p] = None /\ owned[p] /\ Prepare(p, owner[p], FALSE)
     \/ /\ pending[p] = None /\ ~owned[p]
        /\ hb' = [hb EXCEPT ![p] = "inspect"]
        /\ UNCHANGED <<pending, recoveryVars>>
     \/ /\ pending[p] # None
        /\ hb' = [hb EXCEPT ![p] = "lease"]
        /\ UNCHANGED <<pending, recoveryVars>>
  /\ UNCHANGED <<storeVars, late, owner, owned, job, faults, hostVars>>

(* Mutant: any row is taken for an active lease. *)
InspectAnyRow(p) ==
  /\ hb[p] = "inspect"
  /\ IF lease.owner # None
       THEN hb' = [hb EXCEPT ![p] = "rest"] /\ UNCHANGED <<pending, recoveryVars>>
       ELSE Prepare(p, lease.owner, TRUE)
  /\ UNCHANGED <<storeVars, late, owner, owned, job, faults, hostVars>>

Inspect(p) ==
  /\ hb[p] = "inspect"
  /\ IF lease.active
       THEN hb' = [hb EXCEPT ![p] = "rest"] /\ UNCHANGED <<pending, recoveryVars>>
       ELSE Prepare(p, lease.owner, TRUE)
  /\ UNCHANGED <<storeVars, late, owner, owned, job, faults, hostVars>>

(* A claim or a rotation. *)
Lease(p) ==
  LET ok == LeaseAnswer(pending[p]) IN
  /\ hb[p] = "lease"
  /\ LeaseEffect(pending[p])
  /\ hb' = [hb EXCEPT ![p] = "rest"]
  /\ pending' = [pending EXCEPT ![p] = None]
  /\ covers' = [covers EXCEPT ![p] = FALSE]
  /\ owner' = IF ok THEN [owner EXCEPT ![p] = pending[p].to] ELSE owner
  /\ owned' = [owned EXCEPT ![p] = ok]
  /\ demand' = IF ok THEN [demand EXCEPT ![p] = ~covers[p]] ELSE demand
  /\ healthy' = [healthy EXCEPT ![p] = ok /\ covers[p]]
  /\ UNCHANGED <<late, job, faults, hostVars>>

Renewal(p) == [from |-> owner[p], to |-> owner[p], claim |-> FALSE]

Renew(p) ==
  LET ok == LeaseAnswer(Renewal(p)) IN
  /\ hb[p] = "renew"
  /\ LeaseEffect(Renewal(p))
  /\ hb' = [hb EXCEPT ![p] = "rest"]
  /\ owned' = [owned EXCEPT ![p] = @ /\ ok]
  /\ healthy' = [healthy EXCEPT ![p] = ok /\ ~demand[p]]
  /\ UNCHANGED <<late, owner, pending, demand, covers, job, faults, hostVars>>

HeartbeatCalls(p) ==
  CASE hb[p] = "lease" -> {LeaseCall(pending[p])}
    [] hb[p] = "renew" -> {LeaseCall(Renewal(p))}
    [] OTHER -> {}

(* A call of the heartbeat fails: pending stays as it is. *)
BeatFails(p) ==
  /\ hb[p] \in {"inspect", "lease", "renew"}
  /\ Fault
  /\ GiveUp(HeartbeatCalls(p))
  /\ hb' = [hb EXCEPT ![p] = "rest"]
  /\ healthy' = [healthy EXCEPT ![p] = FALSE]
  /\ UNCHANGED <<storeVars, owner, owned, pending, demand, covers, job, hostVars>>

----------------------------------------------------------------------------
(* A process begins, ends or dies. *)

Restart(p) ==
  /\ up[p] = "down"
  /\ up' = [up EXCEPT ![p] = "up"]
  /\ hb' = [hb EXCEPT ![p] = "rest"]
  /\ owner' = [owner EXCEPT ![p] = Fresh]
  /\ UNCHANGED <<storeVars, paused, late, recoveryVars, owned, pending, job, cancelling, released, faults>>

(* The server has answered its requests; the heartbeat is cancelled first, *)
(* then the tasks. *)
ShutDown(p) ==
  /\ up[p] = "up" /\ cancelling[p] = {}
  /\ Fault
  /\ up' = [up EXCEPT ![p] = "stopping"]
  /\ hb' = [hb EXCEPT ![p] = "off"]
  /\ CancelAll(p)
  /\ GiveUp(HeartbeatCalls(p) \cup CallsOf(p, Turns))
  /\ UNCHANGED <<storeVars, paused, owner, owned, pending, healthy, cancelling, released>>

(* What a process knows goes with it. *)
Forget(p) ==
  /\ up' = [up EXCEPT ![p] = "down"]
  /\ hb' = [hb EXCEPT ![p] = "off"]
  /\ healthy' = [healthy EXCEPT ![p] = FALSE]
  /\ owner' = [owner EXCEPT ![p] = None]
  /\ owned' = [owned EXCEPT ![p] = FALSE]
  /\ pending' = [pending EXCEPT ![p] = None]
  /\ demand' = [demand EXCEPT ![p] = FALSE]
  /\ covers' = [covers EXCEPT ![p] = FALSE]
  /\ job' = [job EXCEPT ![p] = [t \in Turns |-> NoJob]]
  /\ cancelling' = [cancelling EXCEPT ![p] = {}]

(* The lease is given back, within a time limit. *)
Release(p) ==
  /\ up[p] = "stopping"
  /\ TasksGone(p)
  /\ \/ ReleaseEffect(owner[p]) /\ UNCHANGED late
     \/ GiveUp({ReleaseCall(owner[p])}) /\ UNCHANGED <<storeVars, released>>
  /\ Forget(p)
  /\ UNCHANGED <<paused, faults>>

Crash(p) ==
  /\ up[p] # "down"
  /\ Fault
  /\ GiveUp(HeartbeatCalls(p) \cup CallsOf(p, Turns))
  /\ Forget(p)
  /\ UNCHANGED <<storeVars, paused, released>>

----------------------------------------------------------------------------
JobMoves(p, t) ==
  \/ JobExists(p, t) \/ JobConfigured(p, t) \/ StartAnswered(p, t)
  \/ RunEnds(p, t) \/ FinishAnswered(p, t) \/ Closed(p, t)

BeatMoves(p) == Beat(p) \/ Gathered(p) \/ Inspect(p) \/ Lease(p) \/ Renew(p)

Next ==
  \/ \E p \in Proc, t \in Turns :
       \/ Accept(p, t) \/ AcceptUnowned(p, t)
       \/ JobMoves(p, t) \/ JobGivesUp(p, t) \/ StartLost(p, t)
       \/ RunEmit(p, t) \/ FinishLost(p, t)
       \/ Cancel(p, t) \/ CancelLost(p, t) \/ CancelOwned(p, t)
  \/ \E p \in Proc :
       \/ BeatMoves(p) \/ BeatFails(p)
       \/ Restart(p) \/ ShutDown(p) \/ Release(p) \/ Crash(p)
  \/ \E c \in late : Execute(c)
  \/ Expire \/ PauseAdmissions

Spec == Init /\ [][Next]_vars

(* Tasks end by their deadlines, the heartbeat is a loop, an expired lease *)
(* is expired, and a supervisor restarts the process. Nothing is assumed *)
(* of calls given up, of clients and of operators. *)
FairSpec ==
  /\ Spec
  /\ \A p \in Proc : WF_vars(BeatMoves(p)) /\ WF_vars(Restart(p)) /\ WF_vars(Release(p))
  /\ \A p \in Proc, t \in Turns : WF_vars(JobMoves(p, t)) /\ WF_vars(CancelOwned(p, t))
  /\ WF_vars(Expire)

----------------------------------------------------------------------------
(* Properties. *)

(* A turn is over exactly when its last event says so, and it says so once: *)
(* finish is repeated, a cancellation, a sweep and calls given up race it, *)
(* and none of them writes after the end. *)
OneEnding ==
  \A t \in Turns : \A i \in DOMAIN events[t] :
    events[t][i] = "turn.finished" <=> i = Len(events[t]) /\ status[t] \in Endings

(* A process that reports ready and holds the lease has a task for every *)
(* turn in processing, whoever began it: no turn waits for nobody. *)
NoStrayTurn ==
  \A p \in Proc :
    up[p] = "up" /\ healthy[p] /\ Guard(owner[p]) =>
      \A t \in Processing : job[p][t].stage \in {"start", "run", "finish"}

(* While the heartbeat takes the lease over to a new owner id, no task of *)
(* its process is past the look at `healthy`: none can write with an id *)
(* that changes under it. *)
RecoveryAlone ==
  \A p \in Proc : hb[p] \in {"inspect", "lease"} =>
    \A t \in Turns : job[p][t].stage \in {"none", "rejected", "exists"}

(* An owner that gave the lease back never holds it again, in spite of its *)
(* claims and rotations that are still under way (store.py:58). *)
NoResurrection == lease.owner \notin released

(* A task that begins to generate is the first to do so: nothing was *)
(* written for the turn and no other process generates it (runtime.py:287). *)
GeneratedOnce ==
  [][\A p \in Proc, t \in Turns :
       job[p][t].stage # "run" /\ job'[p][t].stage = "run" =>
         events[t] = <<>> /\ \A q \in Proc \ {p} : job[q][t].stage \notin {"run", "finish"}]_vars

(* Turns live as TurnLife says: one per conversation, MaxActive at a time, *)
(* and each that was admitted ends once. *)
Life == INSTANCE TurnLife
TurnsLive == Life!FairSpec

(* Whatever failed, some process reports ready again. *)
Healthy == \E p \in Proc : healthy[p]
HealthyAgain == []<>Healthy

(* runtime.py:280: "A definitive rejection confirms this input was not *)
(* admitted": a turn whose task ended with a rejection is not in processing *)
(* under the lease of the process that was told so. *)
RejectionIsDefinitive ==
  \A p \in Proc, t \in Turns :
    job[p][t].stage = "rejected" /\ Guard(owner[p]) => status[t] # "PROCESSING"

(* What holds whatever overtakes what: a rejection is definitive if none of *)
(* the starts of its task was still under way when it was answered. *)
RejectionHolds ==
  \A p \in Proc, t \in Turns :
    job[p][t].stage = "rejected" /\ job[p][t].sure /\ Guard(owner[p]) => status[t] # "PROCESSING"

(* store.py:40, of a pause: "Existing turns retain their lease and finish". *)
PausedTurnsFinish ==
  [][paused /\ lease.active /\ Processing # {} => lease'.owner = lease.owner]_vars

=============================================================================
