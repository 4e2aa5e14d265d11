---------------------------- MODULE ProfileRuns ----------------------------
(***************************************************************************)
(* The life of one profiling run: a request from Backend (7.6) is          *)
(* admitted, queued, picked up by a worker, decided on, analysed, stored   *)
(* and answered with a callback (7.7).                                     *)
(*                                                                         *)
(*   intake.py      admission, dispatch (lock - decide - run), callback    *)
(*   pipeline.py    profile(): the stages of one analysis                  *)
(*   stores.py      profile_runs rows, run_lock, recovery; profile upsert  *)
(*   backend.py     the answers of Backend                                 *)
(*                                                                         *)
(* One row of profile_runs per (recipient, source version).  Several       *)
(* processes share the database; each has a queue and worker threads.      *)
(* A step of a worker is one statement of the database, or one call out.   *)
(* Every fault is a step of the model and is counted against MaxFaults:    *)
(* a statement that fails, a lock that cannot be taken, a database         *)
(* session lost under a running worker, a callback refused or unanswered,  *)
(* a catalog that goes away, and a process that dies.                      *)
(*                                                                         *)
(* Integrated selects the shared deployment, where recipient_data is       *)
(* installed and callbacks check product visibility first.                 *)
(***************************************************************************)
EXTENDS RecipientInputs, Sequences

CONSTANTS
  Processes,       \* Profiler processes on the same database
  Workers,         \* worker threads (Supervisor slots) of all processes
  Home,            \* the process of each worker
  QueueMax,        \* jobs a process holds in its queue
  MaxInFlight,     \* bound: 7.6 requests a process is admitting at once
  MaxAttempts,     \* callback attempts of one job (CALLBACK_MAX_ATTEMPTS)
  BodiesPerVersion,\* bound: different bodies Backend sends for one version
  MaxFaults,       \* bound: faults of one behaviour
  LockCanFail,     \* whether taking the run lock can fail (then: no lock)
  Integrated       \* whether recipient_data is installed

(* RunStatus, and the statuses under which a row carries a result to send. *)
Statuses == {"RUNNING", "RESULT_READY", "DELIVERED", "SUPERSEDED", "FAILED"}
Sendable == {"RESULT_READY", "DELIVERED", "SUPERSEDED"}

ASSUME RunConstants ==
  /\ Home \in [Workers -> Processes]
  /\ QueueMax \in Nat /\ MaxInFlight \in Nat /\ MaxFaults \in Nat
  /\ MaxAttempts \in Nat \ {0}
  /\ BodiesPerVersion \in Nat
  /\ LockCanFail \in BOOLEAN /\ Integrated \in BOOLEAN
  /\ None \notin Results \cup Statuses

Requests == [rid : Recipients, ver : Versions, hash : Hashes]

(* A row of profile_runs. aged: a RUNNING row last updated more than *)
(* RUNNING_STALE_S ago. status None: there is no such row. *)
Rows == [status : Statuses \cup {None}, hash : Hashes \cup {None},
         result : Results \cup {None}, aged : BOOLEAN]
NoRow == [status |-> None, hash |-> None, result |-> None, aged |-> FALSE]

VARIABLES
  runs,      \* ai_profile.profile_runs
  profile,   \* ai_profile.recipient_profiles
  up,        \* which processes are running
  admitting, \* requests between the input record and the queue
  queue,     \* the queue of each process
  pc,        \* where each worker is in dispatch
  job,       \* the request it works on
  session,   \* its lock session: none, locked, unlocked (no lock), lost
  outcome,   \* the result it carries to the callback
  tries,     \* callback attempts made
  reply,     \* what the last attempt makes of the run
  catalog,   \* the active catalog version
  beVersion, \* Backend: the latest version issued
  beBodies,  \* Backend: bodies issued for each version
  accepted,  \* history: callbacks Backend accepted
  faults     \* faults left

dbVars == <<runs, profile>>
flowVars == <<up, admitting, queue>>
workerVars == <<pc, job, session, outcome, tries, reply>>
beVars == <<beVersion, beBodies, accepted>>
vars == <<inputVars, dbVars, flowVars, workerVars, catalog, beVars, faults>>

Stages == {"idle", "lock", "check", "decide", "start", "analyse", "commit",
           "upsert", "receipt", "fail", "send", "record", "supersede", "release"}

(* The stages at which a worker carries a result. *)
Carrying == {"commit", "upsert", "receipt", "send", "record"}

(* A callback as Backend sees it: the products of one analysis. *)
Callbacks == [ver : Versions, result : Results]

RunTypeOK ==
  /\ runs \in [Recipients -> [Versions -> Rows]]
  /\ profile \in [Recipients -> Profiles \cup {None}]

FlowTypeOK ==
  /\ up \in [Processes -> BOOLEAN]
  /\ admitting \in [Processes -> SUBSET Requests]
  /\ queue \in [Processes -> Seq(Requests)]

WorkerTypeOK ==
  /\ pc \in [Workers -> Stages]
  /\ job \in [Workers -> Requests \cup {None}]
  /\ session \in [Workers -> {"none", "locked", "unlocked", "lost"}]
  /\ outcome \in [Workers -> Results \cup {None}]
  /\ tries \in [Workers -> 0 .. MaxAttempts]
  /\ reply \in [Workers -> Statuses]
  /\ \A w \in Workers :
       /\ pc[w] # "idle" => job[w] \in Requests
       /\ pc[w] \in Carrying => outcome[w] \in Results
       /\ pc[w] = "send" => tries[w] < MaxAttempts
       /\ pc[w] \notin {"send", "record", "supersede", "release"} => tries[w] = 0

BackendTypeOK ==
  /\ beVersion \in [Recipients -> 0 .. MaxVersion]
  /\ beBodies \in [Recipients -> [Versions -> SUBSET Hashes]]
  /\ accepted \in [Recipients -> SUBSET Callbacks]

TypeOK ==
  /\ InputTypeOK /\ RunTypeOK /\ FlowTypeOK /\ WorkerTypeOK /\ BackendTypeOK
  /\ catalog \in Catalogs \cup {None}
  /\ faults \in 0 .. MaxFaults

Init ==
  /\ InputInit
  /\ runs = [r \in Recipients |-> [v \in Versions |-> NoRow]]
  /\ profile = [r \in Recipients |-> None]
  /\ up = [p \in Processes |-> TRUE]
  /\ admitting = [p \in Processes |-> {}]
  /\ queue = [p \in Processes |-> <<>>]
  /\ pc = [w \in Workers |-> "idle"]
  /\ job = [w \in Workers |-> None]
  /\ session = [w \in Workers |-> "none"]
  /\ outcome = [w \in Workers |-> None]
  /\ tries = [w \in Workers |-> 0]
  /\ reply = [w \in Workers |-> "RESULT_READY"]
  /\ catalog \in Catalogs
  /\ beVersion = [r \in Recipients |-> 0]
  /\ beBodies = [r \in Recipients |-> [v \in Versions |-> {}]]
  /\ accepted = [r \in Recipients |-> {}]
  /\ faults = MaxFaults

----------------------------------------------------------------------------
(* Faults and the database as one worker sees it. *)

Fault == faults > 0 /\ faults' = faults - 1
NoFault == UNCHANGED faults

(* Mutant: the stores take connections of their own from the pool, and a *)
(* worker whose lock is gone goes on writing. *)
StatementOkWithoutLock(w) == NoFault

(* The stores of a worker that holds the run lock use the lock's own *)
(* connection, so once that session is lost all its statements fail. *)
StatementOk(w) == session[w] # "lost" /\ NoFault
StatementFails(w) == IF session[w] = "lost" THEN NoFault ELSE Fault

Holds(w, r, v) == /\ session[w] = "locked"
                  /\ job[w].rid = r
                  /\ job[w].ver = v

Row(w) == runs[job[w].rid][job[w].ver]

(* _RUN_UPSERT: status and input_hash are replaced, a missing result keeps *)
(* the stored one. *)
Upserted(old, status, hash, result) ==
  [status |-> status, hash |-> hash,
   result |-> IF result = None THEN old.result ELSE result, aged |-> FALSE]

SaveRun(w, status, result) ==
  runs' = [runs EXCEPT ![job[w].rid][job[w].ver] =
             Upserted(@, status, job[w].hash, result)]

Go(w, stage) == pc' = [pc EXCEPT ![w] = stage]

----------------------------------------------------------------------------
(* Backend: what the code under src relies on. *)

(* A recipient changes something: the next source version and its body. *)
BackendIssue(r, h) ==
  /\ beVersion[r] < MaxVersion
  /\ beVersion' = [beVersion EXCEPT ![r] = @ + 1]
  /\ beBodies' = [beBodies EXCEPT ![r][beVersion[r] + 1] = {h}]
  /\ UNCHANGED <<inputVars, dbVars, flowVars, workerVars, catalog, accepted, faults>>

(* Another body under a version already issued, which decide() and *)
(* record() both allow for. *)
BackendRebody(r, h) ==
  /\ beVersion[r] > 0
  /\ h \notin beBodies[r][beVersion[r]]
  /\ Cardinality(beBodies[r][beVersion[r]]) < BodiesPerVersion
  /\ beBodies' = [beBodies EXCEPT ![r][beVersion[r]] = @ \cup {h}]
  /\ UNCHANGED <<inputVars, dbVars, flowVars, workerVars, catalog, beVersion, accepted, faults>>

----------------------------------------------------------------------------
(* Intake: POST 7.6.  Backend sends the request of its latest version, and *)
(* sends it again while it waits; a request that arrives after the next *)
(* version was issued is a fault. *)

(* The last step of admission: 503 without an active catalog or with a *)
(* full queue, else queued (202). *)
Enqueue(p, q) ==
  queue' = IF catalog = None \/ Len(queue[p]) >= QueueMax THEN queue
           ELSE [queue EXCEPT ![p] = Append(@, q)]

(* The input is recorded (integrated) before anything else; a conflict, a *)
(* stale version and a failed record end the request here. Standalone, *)
(* nothing is kept before the queue. *)
Receive(p, q) ==
  /\ up[p]
  /\ q.hash \in beBodies[q.rid][q.ver]
  /\ IF q.ver = beVersion[q.rid] THEN NoFault ELSE Fault
  /\ IF Integrated
       THEN /\ Cardinality(admitting[p]) < MaxInFlight
            /\ RecordInput(q.rid, q.ver, q.hash, profile[q.rid], runs[q.rid][q.ver])
            /\ admitting' = [admitting EXCEPT ![p] =
                 IF Receipt(q.rid, q.ver, q.hash) = "stale" THEN @ ELSE @ \cup {q}]
            /\ UNCHANGED queue
       ELSE Enqueue(p, q) /\ UNCHANGED <<inputVars, admitting>>
  /\ UNCHANGED <<dbVars, up, workerVars, catalog, beVars>>

Submit(p, q) ==
  /\ q \in admitting[p]
  /\ admitting' = [admitting EXCEPT ![p] = @ \ {q}]
  /\ Enqueue(p, q)
  /\ UNCHANGED <<inputVars, dbVars, up, workerVars, catalog, beVars, faults>>

----------------------------------------------------------------------------
(* A worker: dispatch(). *)

Take(w) ==
  /\ pc[w] = "idle"
  /\ queue[Home[w]] # <<>>
  /\ job' = [job EXCEPT ![w] = Head(queue[Home[w]])]
  /\ queue' = [queue EXCEPT ![Home[w]] = Tail(@)]
  /\ Go(w, "lock")
  /\ UNCHANGED <<inputVars, dbVars, up, admitting, session, outcome, tries, reply, catalog, beVars, faults>>

AfterLock == IF Integrated THEN "check" ELSE "decide"

(* Mutant: the lock is taken whoever holds it. *)
LockKeyAlways(w) ==
  /\ pc[w] = "lock"
  /\ session' = [session EXCEPT ![w] = "locked"]
  /\ Go(w, AfterLock)
  /\ UNCHANGED <<inputVars, dbVars, flowVars, job, outcome, tries, reply, catalog, beVars, faults>>

(* run_lock: a try-lock on (recipient, version). Nobody else holds it, or *)
(* the job is dropped, or the lock cannot be asked for and the job goes on *)
(* without one. *)
LockKey(w) ==
  /\ pc[w] = "lock"
  /\ \/ /\ \A u \in Workers : ~Holds(u, job[w].rid, job[w].ver)
        /\ session' = [session EXCEPT ![w] = "locked"]
        /\ Go(w, AfterLock)
        /\ NoFault
     \/ /\ \E u \in Workers : Holds(u, job[w].rid, job[w].ver)
        /\ Go(w, "release")
        /\ NoFault
        /\ UNCHANGED session
     \/ /\ LockCanFail
        /\ session' = [session EXCEPT ![w] = "unlocked"]
        /\ Go(w, AfterLock)
        /\ Fault
  /\ UNCHANGED <<inputVars, dbVars, flowVars, job, outcome, tries, reply, catalog, beVars>>

(* is_current: asked on a connection of its own; a failure drops the job. *)
CheckInput(w) ==
  /\ pc[w] = "check"
  /\ \/ /\ Go(w, IF IsCurrent(job[w].rid, job[w].ver, job[w].hash) THEN "decide" ELSE "release")
        /\ NoFault
     \/ Go(w, "release") /\ Fault
  /\ UNCHANGED <<inputVars, dbVars, flowVars, job, session, outcome, tries, reply, catalog, beVars>>

(* Mutants: the body of the request is not compared; a RUNNING row is *)
(* always taken for a live run. *)
VerdictAnyBody(row, hash) ==
  IF row.status = "RUNNING" THEN IF row.aged THEN "analyze" ELSE "skip"
  ELSE IF row.status \in {None, "FAILED"} \/ row.result = None THEN "analyze"
  ELSE "resend"
VerdictNeverStale(row, hash) ==
  IF row.status = "RUNNING" THEN "skip"
  ELSE IF row.status \in {None, "FAILED"} \/ row.hash # hash THEN "analyze"
  ELSE "resend"

(* decide(): what to do with a request whose run row is already there. *)
Verdict(row, hash) ==
  IF row.status = None \/ row.hash # hash THEN "analyze"
  ELSE IF row.status = "RUNNING" THEN IF row.aged THEN "analyze" ELSE "skip"
  ELSE IF row.status = "FAILED" \/ row.result = None THEN "analyze"
  ELSE "resend"

(* _existing_run and decide(); a row that cannot be read counts as absent. *)
Decide(w) ==
  /\ pc[w] = "decide"
  /\ \/ /\ StatementOk(w)
        /\ Go(w, CASE Verdict(Row(w), job[w].hash) = "analyze" -> "start"
                   [] Verdict(Row(w), job[w].hash) = "resend"  -> "send"
                   [] OTHER                                    -> "release")
        /\ outcome' = IF Verdict(Row(w), job[w].hash) = "resend"
                        THEN [outcome EXCEPT ![w] = Row(w).result] ELSE outcome
     \/ StatementFails(w) /\ Go(w, "start") /\ UNCHANGED outcome
  /\ UNCHANGED <<inputVars, dbVars, flowVars, job, session, tries, reply, catalog, beVars>>

(* pipeline.profile, stage 0: the RUNNING row, without which nothing runs. *)
StartRun(w) ==
  /\ pc[w] = "start"
  /\ \/ StatementOk(w) /\ SaveRun(w, "RUNNING", None) /\ Go(w, "analyse")
     \/ StatementFails(w) /\ Go(w, "release") /\ UNCHANGED runs
  /\ UNCHANGED <<inputVars, profile, flowVars, job, session, outcome, tries, reply, catalog, beVars>>

(* Stages 1-4: the catalog is read once, tags and pool are made from it. *)
(* A tag step that fails still yields a result; any other error does not. *)
Analyse(w) ==
  /\ pc[w] = "analyse"
  /\ \/ /\ catalog # None
        /\ \E t \in TagStatuses :
             outcome' = [outcome EXCEPT ![w] =
               [hash |-> job[w].hash, catalog |-> catalog, tag |-> t]]
        /\ Go(w, "commit")
        /\ NoFault
     \/ catalog = None /\ Go(w, "fail") /\ NoFault /\ UNCHANGED outcome
     \/ Go(w, "fail") /\ Fault /\ UNCHANGED outcome
  /\ UNCHANGED <<inputVars, dbVars, flowVars, job, session, tries, reply, catalog, beVars>>

(* Stage 5: RESULT_READY with the callback body, committed before any *)
(* callback. If it cannot be saved the run ends silently, still RUNNING. *)
CommitResult(w) ==
  /\ pc[w] = "commit"
  /\ \/ StatementOk(w) /\ SaveRun(w, "RESULT_READY", outcome[w]) /\ Go(w, "upsert")
     \/ StatementFails(w) /\ Go(w, "release") /\ UNCHANGED runs
  /\ UNCHANGED <<inputVars, profile, flowVars, job, session, outcome, tries, reply, catalog, beVars>>

(* Mutant: a profile that cannot be saved is passed over. *)
UpsertProfileUnchecked(w) ==
  /\ pc[w] = "upsert"
  /\ StatementFails(w)
  /\ Go(w, "receipt")
  /\ UNCHANGED <<inputVars, dbVars, flowVars, job, session, outcome, tries, reply, catalog, beVars>>

(* Stage 6: the recipient's profile, guarded against a lower version. When *)
(* it fails the run is put back to FAILED. *)
UpsertProfile(w) ==
  /\ pc[w] = "upsert"
  /\ \/ /\ StatementOk(w)
        /\ profile' = [profile EXCEPT ![job[w].rid] =
             IF @ # None /\ @.ver > job[w].ver THEN @
             ELSE [ver |-> job[w].ver, result |-> outcome[w]]]
        /\ Go(w, IF Integrated THEN "receipt" ELSE "send")
     \/ StatementFails(w) /\ Go(w, "fail") /\ UNCHANGED profile
  /\ UNCHANGED <<inputVars, runs, flowVars, job, session, outcome, tries, reply, catalog, beVars>>

(* RecordingRecipientStore.upsert, second half: the success receipt, on a *)
(* connection of its own. *)
KeepReceipt(w) ==
  /\ pc[w] = "receipt"
  /\ \/ /\ RecordAnalysis(job[w].rid, job[w].ver, outcome[w])
        /\ Go(w, "send")
        /\ NoFault
     \/ Go(w, "fail") /\ Fault /\ UNCHANGED inputVars
  /\ UNCHANGED <<dbVars, flowVars, job, session, outcome, tries, reply, catalog, beVars>>

(* _fail: the FAILED row; if even that cannot be saved it is only logged. *)
FailRun(w) ==
  /\ pc[w] = "fail"
  /\ Go(w, "release")
  /\ \/ StatementOk(w) /\ SaveRun(w, "FAILED", None)
     \/ StatementFails(w) /\ UNCHANGED runs
  /\ UNCHANGED <<inputVars, profile, flowVars, job, session, outcome, tries, reply, catalog, beVars>>

----------------------------------------------------------------------------
(* _send_and_record: the callback 7.7. *)

(* Mutant: one attempt too many. *)
AttemptedOnceMore(w, status) ==
  /\ tries' = [tries EXCEPT ![w] = @ + 1]
  /\ reply' = [reply EXCEPT ![w] = status]
  /\ Go(w, IF status = "RESULT_READY" /\ tries[w] < MaxAttempts THEN "send" ELSE "record")

Attempted(w, status) ==
  /\ tries' = [tries EXCEPT ![w] = @ + 1]
  /\ reply' = [reply EXCEPT ![w] = status]
  /\ Go(w, IF status = "RESULT_READY" /\ tries[w] + 1 < MaxAttempts THEN "send" ELSE "record")

Accept(w) ==
  accepted' = [accepted EXCEPT ![job[w].rid] =
    @ \cup {[ver |-> job[w].ver, result |-> outcome[w]]}]

(* Backend takes the callback of the version it waits for (200) and *)
(* refuses one it has moved past (409). A contract refusal (other 4xx) and *)
(* a missing answer (5xx, network), with or without effect, are faults. *)
Send(w) ==
  /\ pc[w] = "send"
  /\ \/ /\ job[w].ver = beVersion[job[w].rid]
        /\ Accept(w) /\ Attempted(w, "DELIVERED") /\ NoFault
     \/ /\ job[w].ver < beVersion[job[w].rid]
        /\ Attempted(w, "SUPERSEDED") /\ NoFault /\ UNCHANGED accepted
     \/ Attempted(w, "FAILED") /\ Fault /\ UNCHANGED accepted
     \/ Attempted(w, "RESULT_READY") /\ Fault /\ UNCHANGED accepted
     \/ /\ job[w].ver = beVersion[job[w].rid]
        /\ Accept(w) /\ Attempted(w, "RESULT_READY") /\ Fault
  /\ UNCHANGED <<inputVars, dbVars, flowVars, job, session, outcome, catalog, beVersion, beBodies>>

(* VisibleProductsBackend: a result whose products are not all visible is *)
(* not sent. Before any attempt nothing is recorded either. *)
Invisible(w) ==
  /\ Integrated
  /\ pc[w] = "send"
  /\ Fault
  /\ Go(w, IF tries[w] = 0 THEN "release" ELSE "record")
  /\ UNCHANGED <<inputVars, dbVars, flowVars, job, session, outcome, tries, reply, catalog, beVars>>

(* One save of what became of the callback; a failure is only logged. *)
RecordReply(w) ==
  /\ pc[w] = "record"
  /\ \/ /\ StatementOk(w)
        /\ SaveRun(w, reply[w], outcome[w])
        /\ Go(w, IF reply[w] \in {"DELIVERED", "SUPERSEDED"} THEN "supersede" ELSE "release")
     \/ StatementFails(w) /\ Go(w, "release") /\ UNCHANGED runs
  /\ UNCHANGED <<inputVars, profile, flowVars, job, session, outcome, tries, reply, catalog, beVars>>

(* Mutant: every other undelivered version is superseded. *)
SupersedeOthers(w) ==
  /\ pc[w] = "supersede"
  /\ Go(w, "release")
  /\ StatementOk(w)
  /\ runs' = [runs EXCEPT ![job[w].rid] = [v \in Versions |->
       IF v # job[w].ver /\ @[v].status = "RESULT_READY"
         THEN [@[v] EXCEPT !.status = "SUPERSEDED"] ELSE @[v]]]
  /\ UNCHANGED <<inputVars, profile, flowVars, job, session, outcome, tries, reply, catalog, beVars>>

(* _SUPERSEDE_OLDER: the lower versions still waiting to be delivered. *)
SupersedeOlder(w) ==
  /\ pc[w] = "supersede"
  /\ Go(w, "release")
  /\ \/ /\ StatementOk(w)
        /\ runs' = [runs EXCEPT ![job[w].rid] = [v \in Versions |->
             IF v < job[w].ver /\ @[v].status = "RESULT_READY"
               THEN [@[v] EXCEPT !.status = "SUPERSEDED"] ELSE @[v]]]
     \/ StatementFails(w) /\ UNCHANGED runs
  /\ UNCHANGED <<inputVars, profile, flowVars, job, session, outcome, tries, reply, catalog, beVars>>

(* The worker forgets its job: end of dispatch, or death of its process. *)
Forget(ws) ==
  /\ pc' = [w \in Workers |-> IF w \in ws THEN "idle" ELSE pc[w]]
  /\ job' = [w \in Workers |-> IF w \in ws THEN None ELSE job[w]]
  /\ session' = [w \in Workers |-> IF w \in ws THEN "none" ELSE session[w]]
  /\ outcome' = [w \in Workers |-> IF w \in ws THEN None ELSE outcome[w]]
  /\ tries' = [w \in Workers |-> IF w \in ws THEN 0 ELSE tries[w]]
  /\ reply' = [w \in Workers |-> IF w \in ws THEN "RESULT_READY" ELSE reply[w]]

(* Leaving run_lock: unlocked, or the connection is thrown away; either *)
(* way the key is free again. *)
Release(w) ==
  /\ pc[w] = "release"
  /\ Forget({w})
  /\ UNCHANGED <<inputVars, dbVars, flowVars, catalog, beVars, faults>>

----------------------------------------------------------------------------
(* The surroundings. *)

(* The database drops the session that carries a worker's lock. *)
LoseSession(w) ==
  /\ session[w] = "locked"
  /\ session' = [session EXCEPT ![w] = "lost"]
  /\ Fault
  /\ UNCHANGED <<inputVars, dbVars, flowVars, pc, job, outcome, tries, reply, catalog, beVars>>

(* RUNNING_STALE_S pass without an update of a RUNNING row. *)
Age(r, v) ==
  /\ runs[r][v].status = "RUNNING" /\ ~runs[r][v].aged
  /\ runs' = [runs EXCEPT ![r][v].aged = TRUE]
  /\ UNCHANGED <<inputVars, profile, flowVars, workerVars, catalog, beVars, faults>>

(* A process dies: its queue, its requests and its sessions with it. *)
Crash(p) ==
  /\ up[p]
  /\ Fault
  /\ up' = [up EXCEPT ![p] = FALSE]
  /\ admitting' = [admitting EXCEPT ![p] = {}]
  /\ queue' = [queue EXCEPT ![p] = <<>>]
  /\ Forget({w \in Workers : Home[w] = p})
  /\ UNCHANGED <<inputVars, dbVars, catalog, beVars>>

(* lifespan and recover_stale_runs: RUNNING rows that are old enough are *)
(* put to FAILED, whoever was running them. *)
Restart(p) ==
  /\ ~up[p]
  /\ up' = [up EXCEPT ![p] = TRUE]
  /\ runs' = [r \in Recipients |-> [v \in Versions |->
       IF runs[r][v].status = "RUNNING" /\ runs[r][v].aged
         THEN [runs[r][v] EXCEPT !.status = "FAILED", !.aged = FALSE]
         ELSE runs[r][v]]]
  /\ UNCHANGED <<inputVars, profile, admitting, queue, workerVars, catalog, beVars, faults>>

(* Another catalog version becomes active, or none is; the catalog comes *)
(* back by itself. *)
SwitchCatalog(c) ==
  /\ c # catalog
  /\ IF catalog = None THEN NoFault ELSE Fault
  /\ catalog' = c
  /\ UNCHANGED <<inputVars, dbVars, flowVars, workerVars, beVars>>

----------------------------------------------------------------------------
WorkerStep(w) ==
  \/ Take(w) \/ LockKey(w) \/ CheckInput(w) \/ Decide(w)
  \/ StartRun(w) \/ Analyse(w) \/ CommitResult(w) \/ UpsertProfile(w)
  \/ KeepReceipt(w) \/ FailRun(w)
  \/ Send(w) \/ Invisible(w) \/ RecordReply(w) \/ SupersedeOlder(w) \/ Release(w)

BackendStep ==
  \E r \in Recipients, h \in Hashes : BackendIssue(r, h) \/ BackendRebody(r, h)

IntakeStep(p) ==
  \/ \E q \in Requests : Receive(p, q)
  \/ \E q \in admitting[p] : Submit(p, q)

Next ==
  \/ BackendStep
  \/ \E p \in Processes : IntakeStep(p) \/ Crash(p) \/ Restart(p)
  \/ \E w \in Workers : WorkerStep(w) \/ LoseSession(w)
  \/ \E r \in Recipients, v \in Versions : Age(r, v)
  \/ \E c \in Catalogs \cup {None} : SwitchCatalog(c)

Spec == Init /\ [][Next]_vars

----------------------------------------------------------------------------
(* Safety. *)

(* A stored result, and a result about to be sent, is always the analysis *)
(* of the body the row, or the job, stands for: the same version with *)
(* another body is never answered with the old result (decide(), *)
(* resend_callback()). It needs no lock. *)
RowOfInput ==
  \A r \in Recipients, v \in Versions :
    runs[r][v].status \in Sendable =>
      runs[r][v].result # None /\ runs[r][v].result.hash = runs[r][v].hash

SentOfInput ==
  \A w \in Workers :
    pc[w] = "send" => outcome[w] # None /\ outcome[w].hash = job[w].hash

ResultOfInput == RowOfInput /\ SentOfInput

(* The ledger tells the truth about Backend: a row is DELIVERED only with *)
(* a result Backend accepted for that version, and SUPERSEDED only once *)
(* Backend waits for a later version (RecordReply, _SUPERSEDE_OLDER). *)
LedgerTruthful ==
  \A r \in Recipients, v \in Versions :
    /\ runs[r][v].status = "DELIVERED" =>
         [ver |-> v, result |-> runs[r][v].result] \in accepted[r]
    /\ runs[r][v].status = "SUPERSEDED" => v < beVersion[r]

(* What a worker sends under its lock is what the row holds, so that a *)
(* later request resends the same callback (profile() stage 5, run_lock). *)
(* Only without lock failures: a run without a lock can overwrite the row. *)
SentIsOnDisk ==
  \A w \in Workers :
    pc[w] = "send" /\ session[w] = "locked" =>
      /\ Row(w).status \in Sendable
      /\ Row(w).hash = job[w].hash
      /\ Row(w).result = outcome[w]

(* A row that keeps its body keeps its result. *)
KeepsResults ==
  \A r \in Recipients, v \in Versions :
    /\ runs[r][v].status \in Sendable
    /\ runs'[r][v].status \in Sendable
    /\ runs'[r][v].hash = runs[r][v].hash
    => runs'[r][v].result = runs[r][v].result

(* Once a body has a result it keeps it, whoever writes the row next: only *)
(* a new RUNNING or a FAILED in between may replace it. A worker that lost *)
(* its session cannot write over the run that took its place (the stores *)
(* share the connection of the lock). *)
ResultStable == [][KeepsResults]_runs

(* The latest input is the highest version known, with the body first *)
(* recorded for it, and the analysis Chat reads beside it was made from *)
(* the recorded body of its own version (record(), record_analysis(), *)
(* _recover_analysis). Integrated. *)
AnalysisMatchesInput ==
  \A r \in Recipients :
    /\ latest[r] # None =>
         /\ versions[r][latest[r].ver] = latest[r].hash
         /\ \A v \in Known(r) : v <= latest[r].ver
    /\ analysis[r] # None =>
         /\ latest[r] # None /\ analysis[r].ver <= latest[r].ver
         /\ analysis[r].result.hash = versions[r][analysis[r].ver]

(* A receipt of an analysis stands for a stored profile, of that version *)
(* or a later one, through failures, crashes and recovered receipts *)
(* (RecordingRecipientStore.upsert, _recover_analysis). Integrated. *)
AnalysisHasProfile ==
  \A r \in Recipients :
    analysis[r] # None => profile[r] # None /\ profile[r].ver >= analysis[r].ver

----------------------------------------------------------------------------
(* What makes the safety properties inductive. *)

(* A result is made from the body of the job that carries it. *)
CarriedOfInput ==
  \A w \in Workers : pc[w] \in Carrying => outcome[w].hash = job[w].hash

ResultInv == TypeOK /\ RowOfInput /\ CarriedOfInput

(* No request is ahead of Backend. *)
Issued(q) == q.ver <= beVersion[q.rid]

IssuedOnly ==
  /\ \A r \in Recipients, v \in Versions : beBodies[r][v] # {} => v <= beVersion[r]
  /\ \A p \in Processes :
       /\ \A q \in admitting[p] : Issued(q)
       /\ \A i \in 1 .. Len(queue[p]) : Issued(queue[p][i])
  /\ \A w \in Workers : pc[w] # "idle" => Issued(job[w])

(* A worker about to record what Backend answered records the truth. *)
RepliesTruthful ==
  \A w \in Workers :
    /\ pc[w] \notin {"record", "supersede", "release"} => reply[w] = "RESULT_READY"
    /\ pc[w] = "record" /\ reply[w] = "DELIVERED" =>
         [ver |-> job[w].ver, result |-> outcome[w]] \in accepted[job[w].rid]
    /\ pc[w] = "record" /\ reply[w] = "SUPERSEDED" => job[w].ver < beVersion[job[w].rid]

LedgerInv == TypeOK /\ LedgerTruthful /\ IssuedOnly /\ RepliesTruthful

(* With a lock that never fails: one worker holds the lock of a row, every *)
(* worker past the lock has or had it, and the holder knows its row. *)
OneHolder ==
  \A u, w \in Workers :
    session[u] = "locked" /\ session[w] = "locked" /\ job[u].rid = job[w].rid
      /\ job[u].ver = job[w].ver => u = w

LockedOrLost ==
  \A w \in Workers :
    /\ pc[w] \in {"idle", "lock"} => session[w] = "none"
    /\ pc[w] \notin {"idle", "lock", "release"} => session[w] \in {"locked", "lost"}

HolderKnowsRow ==
  \A w \in Workers :
    session[w] = "locked" =>
      /\ pc[w] \in {"analyse", "commit"} => Row(w).status \notin Sendable
      /\ pc[w] \in Carrying \ {"commit"} =>
           /\ Row(w).status \in Sendable
           /\ Row(w).hash = job[w].hash
           /\ Row(w).result = outcome[w]

LockInv == TypeOK /\ OneHolder /\ LockedOrLost /\ HolderKnowsRow

----------------------------------------------------------------------------
(* What the code says of itself and does not do. *)

(* pipeline.py: a failed profile save is put back to FAILED, so that there *)
(* is no callback without a profile for Chat to read. *)
CallbackHasProfile ==
  \A w \in Workers :
    pc[w] = "send" =>
      profile[job[w].rid] # None /\ profile[job[w].rid].ver >= job[w].ver

(* stores.py: a row Backend will not ask for again, because a newer one *)
(* was answered, is not left undelivered. *)
Quiescent ==
  /\ \A w \in Workers : pc[w] = "idle"
  /\ \A p \in Processes : queue[p] = <<>> /\ admitting[p] = {}

UndeliveredIsAwaited ==
  Quiescent =>
    \A r \in Recipients, v \in Versions :
      runs[r][v].status = "RESULT_READY" =>
        \A u \in Versions :
          v < u => runs[r][u].status \notin {"DELIVERED", "SUPERSEDED"}

----------------------------------------------------------------------------
(* Liveness. *)

(* Backend repeats the request of a version it still waits for, and QUEUE_MAX *)
(* is above what it sends at once, so a repeated request finds room. *)
Queued(r) ==
  \E p \in Processes :
    \E q \in Requests :
      /\ q.rid = r /\ q.ver = beVersion[r]
      /\ Receive(p, q) \/ Submit(p, q)
      /\ queue'[p] # queue[p]

Repeated(r) ==
  \E p \in Processes :
    \E q \in Requests :
      q.rid = r /\ q.ver = beVersion[r] /\ Receive(p, q)

(* Worker threads run, requests being admitted go on, time passes, *)
(* processes are restarted and the catalog comes back. *)
Fairness ==
  /\ \A w \in Workers : WF_vars(WorkerStep(w))
  /\ \A r \in Recipients : WF_vars(Repeated(r)) /\ SF_vars(Queued(r))
  /\ \A p \in Processes : WF_vars(\E q \in admitting[p] : Submit(p, q)) /\ WF_vars(Restart(p))
  /\ \A r \in Recipients, v \in Versions : WF_vars(Age(r, v))
  /\ WF_vars(catalog = None /\ \E c \in Catalogs : SwitchCatalog(c))

FairSpec == Spec /\ Fairness

(* Every version Backend issues is answered or replaced by a later one. *)
EventuallyAnswered ==
  \A r \in Recipients, v \in Versions :
    beVersion[r] = v ~> beVersion[r] > v \/ \E c \in accepted[r] : c.ver = v

=============================================================================
