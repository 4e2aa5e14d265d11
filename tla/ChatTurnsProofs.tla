-------------------------- MODULE ChatTurnsProofs --------------------------
(***************************************************************************)
(* Proofs about ChatTurns, for every number of processes, turns, owners,   *)
(* tries, late calls and faults, with or without overtaking and pauses:    *)
(* turns and their ends, recovery, types, the owners of the lease, and the *)
(* tasks that answer the turns.                                            *)
(***************************************************************************)
EXTENDS ChatTurns, FiniteSetTheorems, TLAPS

Kinds == Endings \cup {"delta"}

Jobs == [stage : Stages, tries : Nat, sure : BOOLEAN, ending : Endings \cup {None}]

(* A task that ends its turn knows how. *)
JobsTyped ==
  /\ job \in [Proc -> [Turns -> Jobs]]
  /\ \A p \in Proc, t \in Turns : job[p][t].stage = "finish" => job[p][t].ending \in Endings

(* Calls that write to a turn. *)
CallOk(c) ==
  /\ c.op \in {"start", "emit"} => c.turn \in Turns
  /\ c.op = "emit" => c.kind \in Kinds

LateTyped == \A c \in late : CallOk(c)

StoreTyped ==
  /\ status \in [Turns -> Endings \cup {"PROCESSING", None}]
  /\ events \in [Turns -> Seq({"delta", "turn.finished"})]

Typed == StoreTyped /\ JobsTyped /\ LateTyped

(* What a step can do to the turns of the store. *)
Admission(t) ==
  /\ status[t] = None
  /\ \A u \in Processing : Conv[u] # Conv[t]
  /\ Cardinality(Processing) < MaxActive
  /\ status' = [status EXCEPT ![t] = "PROCESSING"] /\ events' = events

StoreStep ==
  \/ UNCHANGED <<status, events>>
  \/ \E t \in Turns : Admission(t)
  \/ \E t \in Turns, k \in Kinds : status[t] = "PROCESSING" /\ WriteEvent(t, k)
  \/ Sweep

----------------------------------------------------------------------------
(* start admits under both limits or writes nothing. *)
LEMMA StartWrites ==
  ASSUME StoreTyped, NEW t \in Turns, NEW o, StartEffect(t, o)
  PROVE  StoreStep
<1>1. CASE StartAnswer(t, o) = "made"
  <2>1. status[t] = None /\ ~(\E u \in Processing : Conv[u] = Conv[t]) /\ ~(Cardinality(Processing) >= MaxActive)
    BY <1>1, ChatConstants, Zenon DEF StartAnswer, StoreTyped
  <2>2. Cardinality(Processing) \in Nat
    BY ChatConstants, FS_Subset, FS_CardinalityType DEF Processing
  <2>3. Cardinality(Processing) < MaxActive
    BY <2>1, <2>2, ChatConstants
  <2> QED BY <1>1, <2>1, <2>3 DEF StartEffect, StoreStep, Admission
<1>2. CASE StartAnswer(t, o) # "made"
  BY <1>2 DEF StartEffect, StoreStep
<1> QED BY <1>1, <1>2

(* emit writes to a turn in processing or not at all. *)
LEMMA EmitWrites ==
  ASSUME StoreTyped, NEW t \in Turns, NEW o, NEW k \in Kinds, EmitEffect(t, o, k)
  PROVE  StoreStep
<1>1. EmitAnswer(t, o) = "ok" => status[t] = "PROCESSING"
  BY ChatConstants DEF EmitAnswer, StoreTyped, Endings
<1> QED BY <1>1 DEF EmitEffect, StoreStep

(* A change of owner sweeps, a renewal leaves the turns alone. *)
LEMMA LeaseWrites ==
  ASSUME NEW pn, LeaseEffect(pn)
  PROVE  StoreStep
  BY DEF LeaseEffect, StoreStep

----------------------------------------------------------------------------
(* A task that is given a record of its own kind stays typed. *)
LEMMA JobReplaced ==
  ASSUME JobsTyped, NEW p \in Proc, NEW t \in Turns, NEW j \in Jobs,
         j.stage = "finish" => j.ending \in Endings, job' = [job EXCEPT ![p][t] = j]
  PROVE  JobsTyped'
  BY DEF JobsTyped

(* The records a task is given. *)
LEMMA JobRecords ==
  /\ NoJob \in Jobs /\ NoJob.stage = "none"
  /\ \A b \in BOOLEAN : /\ RejectedJob(b) \in Jobs
                        /\ RejectedJob(b).stage = "rejected" /\ RejectedJob(b).sure = b
  /\ \A s \in Stages : [NoJob EXCEPT !.stage = s] \in Jobs /\ [NoJob EXCEPT !.stage = s].stage = s
  /\ \A j \in Jobs : Cancelled(j) \in Jobs /\ Cancelled(j).stage \in {"none", "closing"}
  BY DEF NoJob, RejectedJob, Jobs, Stages, Admitting, Cancelled

(* A task that ends stays typed. *)
LEMMA EndedTyped ==
  ASSUME JobsTyped, NEW p \in Proc, NEW t \in Turns, JobEnds(p, t)
  PROVE  JobsTyped'
  BY JobRecords, JobReplaced DEF JobEnds

(* An attempt of start that came to nothing keeps the tasks typed. *)
LEMMA StartUnsureTyped ==
  ASSUME JobsTyped, NEW p \in Proc, NEW t \in Turns, job[p][t].stage = "start", StartUnsure(p, t)
  PROVE  JobsTyped'
<1>1. CASE JobEnds(p, t)
  BY <1>1, EndedTyped
<1>2. CASE job' = [job EXCEPT ![p][t].tries = @ + 1, ![p][t].sure = FALSE]
  <2> DEFINE once == [job[p][t] EXCEPT !.tries = @ + 1]
  <2> DEFINE j == [once EXCEPT !.sure = FALSE]
  <2>1. job[p][t] \in Jobs
    BY DEF JobsTyped
  <2>2. once \in Jobs /\ once.stage = "start"
    BY <2>1 DEF Jobs
  <2>3. j \in Jobs /\ j.stage = "start"
    <3> HIDE DEF once
    <3> QED BY <2>2 DEF Jobs
  <2>4. job' = [job EXCEPT ![p][t] = j]
    BY <1>2 DEF JobsTyped
  <2> QED BY <2>3, <2>4, JobReplaced
<1> QED BY <1>1, <1>2 DEF StartUnsure

(* So does an attempt of finish. *)
LEMMA FinishUnsureTyped ==
  ASSUME JobsTyped, NEW p \in Proc, NEW t \in Turns, FinishUnsure(p, t)
  PROVE  JobsTyped'
<1>1. CASE JobEnds(p, t)
  BY <1>1, EndedTyped
<1>2. CASE job' = [job EXCEPT ![p][t].tries = @ + 1]
  <2> DEFINE j == [job[p][t] EXCEPT !.tries = @ + 1]
  <2>1. job[p][t] \in Jobs
    BY DEF JobsTyped
  <2>2. j \in Jobs /\ j.stage = job[p][t].stage /\ j.ending = job[p][t].ending
    BY <2>1 DEF Jobs
  <2>3. job' = [job EXCEPT ![p][t] = j]
    BY <1>2 DEF JobsTyped
  <2> QED BY <2>2, <2>3, JobReplaced DEF JobsTyped
<1> QED BY <1>1, <1>2 DEF FinishUnsure

(* A task that begins to end its turn knows how. *)
LEMMA FinishingTyped ==
  ASSUME JobsTyped, NEW p \in Proc, NEW t \in Turns, NEW e \in Endings, Finishing(p, t, e)
  PROVE  JobsTyped'
<1> DEFINE j == [NoJob EXCEPT !.stage = "finish", !.ending = e]
<1>1. j \in Jobs /\ j.ending = e
  BY DEF NoJob, Jobs, Stages
<1> QED BY <1>1, JobReplaced DEF Finishing

(* Cancelled tasks stay typed. *)
LEMMA CancelAllTyped ==
  ASSUME JobsTyped, NEW p \in Proc, CancelAll(p)
  PROVE  JobsTyped'
<1>1. \A t \in Turns : Cancelled(job[p][t]) \in Jobs /\ Cancelled(job[p][t]).stage # "finish"
  BY JobRecords DEF JobsTyped
<1>2. job' = [job EXCEPT ![p] = [t \in Turns |-> Cancelled(job[p][t])]]
  BY DEF CancelAll
<1> QED BY <1>1, <1>2 DEF JobsTyped

(* Calls that go on without their caller. *)
LEMMA GivenUpTyped ==
  ASSUME LateTyped, NEW calls, \A c \in calls : CallOk(c), GiveUp(calls)
  PROVE  LateTyped'
  BY DEF LateTyped, GiveUp, CallOk

(* The calls of tasks and of the heartbeat. *)
LEMMA CallsAreOk ==
  ASSUME JobsTyped, NEW p \in Proc
  PROVE  /\ \A t \in Turns : CallOk(StartCallOf(p, t))
         /\ \A t \in Turns, k \in Kinds : CallOk(EmitCall(t, owner[p], k))
         /\ \A t \in Turns : job[p][t].stage = "finish" => CallOk(FinishCallOf(p, t))
         /\ \A ts \in SUBSET Turns : \A c \in CallsOf(p, ts) : CallOk(c)
         /\ \A c \in HeartbeatCalls(p) : CallOk(c)
         /\ CallOk(ReleaseCall(owner[p]))
<1>1. \A t \in Turns : CallOk(StartCallOf(p, t))
  BY DEF CallOk, StartCallOf, StartCall
<1>2. \A t \in Turns, k \in Kinds : CallOk(EmitCall(t, owner[p], k))
  BY DEF CallOk, EmitCall
<1>3. \A t \in Turns : job[p][t].stage = "finish" => CallOk(FinishCallOf(p, t))
  BY DEF JobsTyped, CallOk, FinishCallOf, EmitCall, Kinds
<1>4. \A ts \in SUBSET Turns : \A c \in CallsOf(p, ts) : CallOk(c)
  BY <1>1, <1>2, <1>3 DEF CallsOf, Kinds
<1>5. \A c \in HeartbeatCalls(p) : CallOk(c)
  BY DEF HeartbeatCalls, LeaseCall, CallOk
<1>6. CallOk(ReleaseCall(owner[p]))
  BY DEF ReleaseCall, CallOk
<1> QED BY <1>1, <1>2, <1>3, <1>4, <1>5, <1>6

(* A task that moves on, but not to its end, stays typed. *)
LEMMA StageTyped ==
  ASSUME JobsTyped, NEW p \in Proc, NEW t \in Turns, NEW s \in Stages \ {"finish"},
         job' = [job EXCEPT ![p][t].stage = s]
  PROVE  JobsTyped'
<1> DEFINE j == [job[p][t] EXCEPT !.stage = s]
<1>1. job[p][t] \in Jobs
  BY DEF JobsTyped
<1>2. j \in Jobs /\ j.stage = s
  BY <1>1 DEF Jobs
<1>3. job' = [job EXCEPT ![p][t] = j]
  BY DEF JobsTyped
<1> QED BY <1>2, <1>3, JobReplaced

(* What is not touched stays as it was. *)
LEMMA Untouched ==
  /\ UNCHANGED <<status, events>> => StoreStep
  /\ UNCHANGED storeVars => StoreStep
  /\ JobsTyped /\ UNCHANGED job => JobsTyped'
  /\ LateTyped /\ late' \subseteq late => LateTyped'
  BY DEF storeVars, StoreStep, JobsTyped, LateTyped, CallOk

----------------------------------------------------------------------------
(* Steps of a task before its turn is accepted. *)
LEMMA AdmittingSteps ==
  ASSUME Typed, NEW p \in Proc, NEW t \in Turns,
         \/ Accept(p, t) \/ AcceptUnowned(p, t) \/ JobExists(p, t)
         \/ JobConfigured(p, t) \/ JobGivesUp(p, t)
  PROVE  StoreStep /\ JobsTyped' /\ LateTyped'
<1>1. StoreStep /\ LateTyped'
  BY Untouched DEF Typed, Accept, AcceptUnowned, JobExists, JobConfigured, JobGivesUp
<1>2. CASE Accept(p, t)
  <2>1. [NoJob EXCEPT !.stage = "exists"] \in Jobs /\ [NoJob EXCEPT !.stage = "exists"].stage = "exists"
    BY JobRecords DEF Stages, Admitting
  <2>2. job' = [job EXCEPT ![p][t] = [NoJob EXCEPT !.stage = "exists"]]
    BY <1>2 DEF Accept
  <2> QED BY <1>1, <2>1, <2>2, JobReplaced DEF Typed
<1>3. CASE AcceptUnowned(p, t)
  BY <1>1, <1>3, Untouched DEF Typed, AcceptUnowned
<1>4. CASE JobExists(p, t)
  <2>1. CASE JobEnds(p, t)
    BY <1>1, <2>1, EndedTyped DEF Typed
  <2>2. CASE job' = [job EXCEPT ![p][t].stage = "config"]
    BY <1>1, <2>2, StageTyped DEF Typed, Stages, Admitting
  <2> QED BY <1>4, <2>1, <2>2 DEF JobExists
<1>5. CASE JobConfigured(p, t)
  <2>1. job' = [job EXCEPT ![p][t].stage = "start"]
    BY <1>5 DEF JobConfigured
  <2> QED BY <1>1, <2>1, StageTyped DEF Typed, Stages, Admitting
<1>6. CASE JobGivesUp(p, t)
  BY <1>1, <1>6, EndedTyped DEF Typed, JobGivesUp
<1> QED BY <1>2, <1>3, <1>4, <1>5, <1>6

(* A task that is turned down is told whether that is for good. *)
LEMMA AnsweredReject ==
  ASSUME NEW p, NEW t, job' = [job EXCEPT ![p][t] = RejectedJob(StartCallOf(p, t) \notin late')]
  PROVE  \E b \in BOOLEAN : /\ job' = [job EXCEPT ![p][t] = RejectedJob(b)]
                           /\ b = (StartCallOf(p, t) \notin late')
<1> DEFINE alone == StartCallOf(p, t) \notin late'
<1>1. alone \in BOOLEAN /\ job' = [job EXCEPT ![p][t] = RejectedJob(alone)]
  OBVIOUS
<1>2. alone = (StartCallOf(p, t) \notin late')
  OBVIOUS
<1> HIDE DEF alone
<1> QED BY <1>1, <1>2

(* Attempts of start. *)
LEMMA StartSteps ==
  ASSUME Typed, NEW p \in Proc, NEW t \in Turns, StartAnswered(p, t) \/ StartLost(p, t)
  PROVE  StoreStep /\ JobsTyped' /\ LateTyped'
<1>1. CASE StartAnswered(p, t)
  <2>1. StoreStep
    BY <1>1, StartWrites DEF Typed, StartAnswered
  <2>2. LateTyped'
    BY <1>1, Untouched DEF Typed, StartAnswered
  <2>3. \/ job' = [job EXCEPT ![p][t] = [NoJob EXCEPT !.stage = "run"]]
        \/ \E b \in BOOLEAN : job' = [job EXCEPT ![p][t] = RejectedJob(b)]
        \/ JobEnds(p, t) \/ StartUnsure(p, t)
    BY <1>1, AnsweredReject DEF StartAnswered, StartFound
  <2>4. "run" \in Stages /\ job[p][t].stage = "start"
    BY <1>1 DEF Stages, StartAnswered
  <2>5. JobsTyped'
    <3>1. CASE job' = [job EXCEPT ![p][t] = [NoJob EXCEPT !.stage = "run"]]
      BY <2>4, <3>1, JobRecords, JobReplaced DEF Typed
    <3>2. ASSUME NEW b \in BOOLEAN, job' = [job EXCEPT ![p][t] = RejectedJob(b)] PROVE JobsTyped'
      <4>1. RejectedJob(b) \in Jobs /\ RejectedJob(b).stage = "rejected"
        BY JobRecords
      <4> QED BY <3>2, <4>1, JobReplaced DEF Typed
    <3> QED BY <2>3, <2>4, <3>1, <3>2, EndedTyped, StartUnsureTyped DEF Typed
  <2> QED BY <2>1, <2>2, <2>5
<1>2. CASE StartLost(p, t)
  <2>1. StoreStep /\ LateTyped'
    BY <1>2, Untouched, CallsAreOk, GivenUpTyped DEF Typed, StartLost
  <2>2. JobsTyped'
    BY <1>2, EndedTyped, StartUnsureTyped DEF Typed, StartLost
  <2> QED BY <2>1, <2>2
<1> QED BY <1>1, <1>2

(* Steps of a task whose turn is accepted. *)
LEMMA RunningSteps ==
  ASSUME Typed, NEW p \in Proc, NEW t \in Turns,
         \/ RunEmit(p, t) \/ RunEnds(p, t) \/ FinishAnswered(p, t)
         \/ FinishLost(p, t) \/ Closed(p, t)
  PROVE  StoreStep /\ JobsTyped' /\ LateTyped'
<1>1. CASE RunEmit(p, t)
  <2>1. StoreStep /\ LateTyped'
    BY <1>1, EmitWrites, Untouched DEF Typed, RunEmit, Kinds
  <2>2. \/ UNCHANGED job \/ job' = [job EXCEPT ![p][t].stage = "closing"]
        \/ Finishing(p, t, "FAILED")
    BY <1>1 DEF RunEmit
  <2>3. "closing" \in Stages \ {"finish"} /\ "FAILED" \in Endings
    BY DEF Stages, Endings
  <2> QED BY <2>1, <2>2, <2>3, Untouched, StageTyped, FinishingTyped DEF Typed
<1>2. CASE RunEnds(p, t)
  <2>1. StoreStep /\ LateTyped'
    BY <1>2, Untouched DEF Typed, RunEnds
  <2>2. "COMPLETED" \in Endings /\ "FAILED" \in Endings
    BY DEF Endings
  <2> QED BY <1>2, <2>1, <2>2, FinishingTyped DEF Typed, RunEnds
<1>3. CASE FinishAnswered(p, t)
  <2>1. job[p][t].ending \in Kinds
    BY <1>3 DEF Typed, JobsTyped, FinishAnswered, Kinds
  <2>2. StoreStep /\ LateTyped'
    BY <1>3, <2>1, EmitWrites, Untouched DEF Typed, FinishAnswered
  <2>3. JobsTyped'
    BY <1>3, EndedTyped, FinishUnsureTyped DEF Typed, FinishAnswered
  <2> QED BY <2>2, <2>3
<1>4. CASE FinishLost(p, t)
  <2>1. StoreStep /\ LateTyped'
    BY <1>4, Untouched, CallsAreOk, GivenUpTyped DEF Typed, FinishLost
  <2> QED BY <1>4, <2>1, FinishUnsureTyped DEF Typed, FinishLost
<1>5. CASE Closed(p, t)
  BY <1>5, Untouched, EndedTyped DEF Typed, Closed
<1> QED BY <1>1, <1>2, <1>3, <1>4, <1>5

(* The cancellation of one turn. *)
LEMMA CancelSteps ==
  ASSUME Typed, NEW p \in Proc, NEW t \in Turns,
         Cancel(p, t) \/ CancelLost(p, t) \/ CancelOwned(p, t)
  PROVE  StoreStep /\ JobsTyped' /\ LateTyped'
<1>1. "CANCELLED" \in Kinds
  BY DEF Kinds, Endings
<1>2. CASE Cancel(p, t)
  BY <1>1, <1>2, EmitWrites, Untouched DEF Typed, Cancel
<1>3. CASE CancelLost(p, t)
  BY <1>1, <1>3, CallsAreOk, GivenUpTyped, Untouched DEF Typed, CancelLost
<1>4. CASE CancelOwned(p, t)
  <2>1. StoreStep /\ LateTyped'
    BY <1>4, CallsAreOk, GivenUpTyped, Untouched DEF Typed, CancelOwned
  <2>2. Cancelled(job[p][t]) \in Jobs /\ Cancelled(job[p][t]).stage # "finish"
    BY JobRecords DEF Typed, JobsTyped
  <2>3. job' = [job EXCEPT ![p][t] = Cancelled(job[p][t])]
    BY <1>4 DEF CancelOwned
  <2> QED BY <2>1, <2>2, <2>3, JobReplaced DEF Typed
<1> QED BY <1>2, <1>3, <1>4

(* The heartbeat. *)
LEMMA BeatSteps ==
  ASSUME Typed, NEW p \in Proc, BeatMoves(p) \/ BeatFails(p)
  PROVE  StoreStep /\ JobsTyped' /\ LateTyped'
<1>1. CASE Beat(p)
  <2>1. StoreStep
    BY <1>1, Untouched DEF Beat
  <2>2. CASE CancelAll(p) /\ GiveUp(CallsOf(p, Turns))
    BY <2>1, <2>2, CancelAllTyped, CallsAreOk, GivenUpTyped DEF Typed
  <2>3. CASE UNCHANGED <<late, recoveryVars, job>>
    BY <2>1, <2>3, Untouched DEF Typed
  <2> QED BY <1>1, <2>2, <2>3 DEF Beat
<1>2. CASE Gathered(p)
  BY <1>2, Untouched DEF Typed, Gathered
<1>3. CASE Inspect(p)
  BY <1>3, Untouched DEF Typed, Inspect
<1>4. CASE Lease(p)
  BY <1>4, Untouched, LeaseWrites DEF Typed, Lease
<1>5. CASE Renew(p)
  BY <1>5, Untouched, LeaseWrites DEF Typed, Renew
<1>6. CASE BeatFails(p)
  BY <1>6, Untouched, CallsAreOk, GivenUpTyped DEF Typed, BeatFails
<1> QED BY <1>1, <1>2, <1>3, <1>4, <1>5, <1>6 DEF BeatMoves

(* A process that forgets its tasks keeps their type. *)
LEMMA ForgetTyped ==
  ASSUME JobsTyped, NEW p \in Proc, Forget(p)
  PROVE  JobsTyped'
<1>1. job' = [job EXCEPT ![p] = [t \in Turns |-> NoJob]]
  BY DEF Forget
<1> QED BY <1>1, JobRecords DEF JobsTyped

(* A process begins, ends or dies. *)
LEMMA ProcessSteps ==
  ASSUME Typed, NEW p \in Proc,
         Restart(p) \/ ShutDown(p) \/ Release(p) \/ Crash(p)
  PROVE  StoreStep /\ JobsTyped' /\ LateTyped'
<1> DEFINE ended == HeartbeatCalls(p) \cup CallsOf(p, Turns)
<1>1. \A c \in ended : CallOk(c)
  BY CallsAreOk DEF Typed
<1>2. CASE Restart(p)
  BY <1>2, Untouched DEF Typed, Restart
<1>3. CASE ShutDown(p)
  BY <1>1, <1>3, Untouched, CancelAllTyped, GivenUpTyped DEF Typed, ShutDown
<1>4. CASE Release(p)
  <2>1. UNCHANGED <<status, events>>
    BY <1>4 DEF Release, ReleaseEffect, storeVars
  <2>2. JobsTyped'
    BY <1>4, ForgetTyped DEF Typed, Release
  <2>3. CASE UNCHANGED late
    BY <2>1, <2>2, <2>3, Untouched DEF Typed
  <2>4. CASE GiveUp({ReleaseCall(owner[p])})
    BY <2>1, <2>2, <2>4, Untouched, CallsAreOk, GivenUpTyped DEF Typed
  <2> QED BY <1>4, <2>3, <2>4 DEF Release
<1>5. CASE Crash(p)
  BY <1>1, <1>5, Untouched, ForgetTyped, GivenUpTyped DEF Typed, Crash
<1> QED BY <1>2, <1>3, <1>4, <1>5

(* Late calls, expiry and the operator. *)
LEMMA OtherSteps ==
  ASSUME Typed, (\E c \in late : Execute(c)) \/ Expire \/ PauseAdmissions \/ UNCHANGED vars
  PROVE  StoreStep /\ JobsTyped' /\ LateTyped'
<1>1. ASSUME NEW c \in late, Execute(c) PROVE StoreStep /\ JobsTyped' /\ LateTyped'
  <2>1. JobsTyped' /\ LateTyped'
    BY <1>1, Untouched DEF Typed, Execute
  <2>2. CallOk(c)
    BY DEF Typed, LateTyped
  <2>3. CASE c.op = "start" /\ StartEffect(c.turn, c.owner)
    BY <2>1, <2>2, <2>3, StartWrites DEF Typed, CallOk
  <2>4. CASE c.op = "emit" /\ EmitEffect(c.turn, c.owner, c.kind)
    BY <2>1, <2>2, <2>4, EmitWrites DEF Typed, CallOk
  <2>5. CASE LeaseEffect(c.pn)
    BY <2>1, <2>5, LeaseWrites
  <2>6. CASE ReleaseEffect(c.owner)
    BY <2>1, <2>6, Untouched DEF ReleaseEffect
  <2> QED BY <1>1, <2>3, <2>4, <2>5, <2>6 DEF Execute
<1>2. CASE Expire \/ PauseAdmissions
  BY <1>2, Untouched DEF Typed, Expire, PauseAdmissions
<1>3. CASE UNCHANGED vars
  BY <1>3, Untouched DEF Typed, vars
<1> QED BY <1>1, <1>2, <1>3

(* Every step of the system writes to the turns as StoreStep allows. *)
LEMMA StepWrites ==
  ASSUME Typed, [Next]_vars
  PROVE  StoreStep /\ JobsTyped' /\ LateTyped'
<1>1. ASSUME NEW p \in Proc, NEW t \in Turns,
             \/ Accept(p, t) \/ AcceptUnowned(p, t)
             \/ JobMoves(p, t) \/ JobGivesUp(p, t) \/ StartLost(p, t)
             \/ RunEmit(p, t) \/ FinishLost(p, t)
             \/ Cancel(p, t) \/ CancelLost(p, t) \/ CancelOwned(p, t)
      PROVE  StoreStep /\ JobsTyped' /\ LateTyped'
  BY <1>1, AdmittingSteps, StartSteps, RunningSteps, CancelSteps DEF JobMoves
<1>2. ASSUME NEW p \in Proc,
             \/ BeatMoves(p) \/ BeatFails(p)
             \/ Restart(p) \/ ShutDown(p) \/ Release(p) \/ Crash(p)
      PROVE  StoreStep /\ JobsTyped' /\ LateTyped'
  BY <1>2, BeatSteps, ProcessSteps
<1> QED BY <1>1, <1>2, OtherSteps DEF Next

(* What is written keeps the store typed. *)
LEMMA WritesTyped ==
  ASSUME StoreTyped, StoreStep
  PROVE  StoreTyped'
<1>1. CASE UNCHANGED <<status, events>>
  BY <1>1 DEF StoreTyped
<1>2. ASSUME NEW t \in Turns, Admission(t) PROVE StoreTyped'
  BY <1>2 DEF StoreTyped, Admission
<1>3. ASSUME NEW t \in Turns, NEW k \in Kinds, WriteEvent(t, k) PROVE StoreTyped'
  BY <1>3 DEF StoreTyped, WriteEvent, Kinds
<1>4. CASE Sweep
  BY <1>4 DEF StoreTyped, Sweep, Endings
<1> QED BY <1>1, <1>2, <1>3, <1>4 DEF StoreStep

(* So the types of tasks, calls and turns hold after every step. *)
LEMMA StepTyped == Typed /\ [Next]_vars => Typed' /\ StoreStep
  BY StepWrites, WritesTyped DEF Typed

----------------------------------------------------------------------------
(* Every turn ends once. *)

EndingInv == Typed /\ OneEnding

(* What is written keeps the last event last. *)
LEMMA EndingStep ==
  ASSUME EndingInv, StoreStep
  PROVE  OneEnding'
<1>1. CASE UNCHANGED <<status, events>>
  BY <1>1 DEF EndingInv, OneEnding
<1>2. ASSUME NEW t \in Turns, Admission(t) PROVE OneEnding'
  BY <1>2, ChatConstants DEF EndingInv, Typed, StoreTyped, OneEnding, Admission, Endings
<1>3. ASSUME NEW t \in Turns, NEW k \in Kinds, status[t] = "PROCESSING", WriteEvent(t, k)
      PROVE  OneEnding'
  BY <1>3 DEF EndingInv, Typed, StoreTyped, OneEnding, WriteEvent, Kinds, Endings
<1>4. CASE Sweep
  BY <1>4 DEF EndingInv, Typed, StoreTyped, OneEnding, Sweep, Processing, Endings
<1> QED BY <1>1, <1>2, <1>3, <1>4 DEF StoreStep

(* No turn exists, no task and no call. *)
LEMMA TypedInit == Init => Typed
<1> SUFFICES ASSUME Init PROVE Typed
  OBVIOUS
<1>1. StoreTyped
  BY DEF Init, StoreTyped
<1>2. JobsTyped
  BY JobRecords DEF Init, JobsTyped
<1> QED BY <1>1, <1>2 DEF Init, Typed, LateTyped

(* OneEnding: however finish, cancellation, sweeps and calls given up race, *)
(* a turn has one turn.finished, it is its last event, and its status says *)
(* so from then on (emit and lease of store.py, finish of runtime.py). *)
THEOREM TurnsEndOnce == Spec => []OneEnding
<1>1. Init => EndingInv
  BY TypedInit DEF Init, EndingInv, OneEnding
<1>2. EndingInv /\ [Next]_vars => EndingInv'
  BY StepTyped, EndingStep DEF EndingInv
<1>3. EndingInv => OneEnding
  BY DEF EndingInv
<1> QED BY <1>1, <1>2, <1>3, PTL DEF Spec

----------------------------------------------------------------------------
(* The implementation of TurnLife. *)

(* What is written to the store is a step of TurnLife, or none. *)
LEMMA WritesLive ==
  ASSUME StoreTyped, StoreStep
  PROVE  [Life!Next]_status
<1> USE DEF Life!Processing, Life!Endings
<1> Life!Cardinality(Processing) = Cardinality(Processing)
  BY DEF Life!Cardinality, Cardinality
<1>1. ASSUME NEW t \in Turns, Admission(t) PROVE Life!Admit(t)
  BY <1>1 DEF Admission, Processing, Life!Admit
<1>2. ASSUME NEW t \in Turns, NEW k \in Kinds, status[t] = "PROCESSING", WriteEvent(t, k)
      PROVE  Life!EndTurn(t) \/ UNCHANGED status
  <2>1. CASE k \in Endings
    <3>1. status' = [u \in Turns |-> IF u \in {t} THEN k ELSE status[u]]
      BY <1>2, <2>1 DEF WriteEvent, StoreTyped
    <3>2. Life!End({t})
      BY <1>2, <2>1, <3>1 DEF Life!End, Endings
    <3> QED BY <3>2 DEF Life!EndTurn
  <2>2. CASE k \notin Endings
    BY <1>2, <2>2 DEF WriteEvent
  <2> QED BY <2>1, <2>2
<1>3. ASSUME Sweep PROVE (\E t \in Turns : Life!EndTurn(t)) \/ UNCHANGED status
  <2>1. status' = [t \in Turns |-> IF t \in Processing THEN "FAILED" ELSE status[t]]
    BY <1>3 DEF Sweep
  <2>2. CASE Processing = {}
    BY <2>1, <2>2 DEF StoreTyped
  <2>3. CASE Processing # {}
    <3>1. Life!End(Processing)
      BY <2>1, <2>3 DEF Life!End, Processing
    <3>2. PICK t \in Turns : t \in Processing
      BY <2>3 DEF Processing
    <3>3. Life!EndTurn(t)
      BY <3>1, <3>2 DEF Life!EndTurn, Processing
    <3> QED BY <3>3
  <2> QED BY <2>2, <2>3
<1> QED BY <1>1, <1>2, <1>3 DEF StoreStep, Life!Next

(* Admission, answers, cancellation, recovery and every call that arrives *)
(* late do to the turns what TurnLife allows: never two of a conversation *)
(* nor more than MaxActive in processing, and never back from an end *)
(* (start, emit and lease of store.py). *)
THEOREM TurnsLiveAsPromised == Spec => Life!Spec
<1>1. Init => Typed /\ Life!Init
  BY TypedInit DEF Init, Life!Init
<1>2. Typed /\ [Next]_vars => Typed' /\ [Life!Next]_status
  BY StepTyped, WritesLive DEF Typed
<1> QED BY <1>1, <1>2, PTL DEF Spec, Life!Spec

----------------------------------------------------------------------------
(* A recovery works alone. *)

Recovering == {"gather", "inspect", "lease"}

BeatTyped ==
  /\ hb \in [Proc -> {"rest", "gather", "inspect", "lease", "renew", "off"}]
  /\ healthy \in [Proc -> BOOLEAN]

(* A process that recovers is not healthy, and has no task past the look *)
(* at `healthy`; once gathered, no cancelled one either. *)
QuietAt(p) ==
  /\ hb[p] \in Recovering =>
       /\ ~healthy[p]
       /\ \A t \in Turns : job[p][t].stage \in {"none", "rejected", "exists", "closing"}
  /\ hb[p] \in {"inspect", "lease"} => \A t \in Turns : job[p][t].stage # "closing"

AloneInv == Typed /\ BeatTyped /\ \A p \in Proc : QuietAt(p)

(* What a task does to its process: it never makes it healthy, and only a *)
(* task that is past the look, or finds the process healthy, moves on. *)
TaskMove(p, t) ==
  /\ hb' = hb
  /\ healthy' \in {healthy, [healthy EXCEPT ![p] = FALSE]}
  /\ \A q \in Proc, u \in Turns : q # p \/ u # t => job'[q][u] = job[q][u]
  /\ \/ job'[p][t] = job[p][t]
     \/ job[p][t].stage \notin {"none", "rejected", "exists", "closing"}
     \/ job[p][t].stage = "exists" /\ healthy[p]
     \/ job'[p][t].stage \in {"none", "exists"}

(* What is left alone by a task, put in one place. *)
LEMMA TaskFrame ==
  /\ UNCHANGED memVars => hb' = hb
  /\ \A p : UNCHANGED recoveryVars \/ RequireRecovery(p) =>
       healthy' \in {healthy, [healthy EXCEPT ![p] = FALSE]}
  BY DEF memVars, beatVars, recoveryVars, RequireRecovery

(* A step that only gives t another record. *)
LEMMA GivenRecord ==
  ASSUME JobsTyped, NEW p \in Proc, NEW t \in Turns, NEW j, job' = [job EXCEPT ![p][t] = j]
  PROVE  /\ \A q \in Proc, u \in Turns : q # p \/ u # t => job'[q][u] = job[q][u]
         /\ job'[p][t] = j
  BY DEF JobsTyped

(* A step of the stages that follow the look touches its own task only. *)
LEMMA UnsureOwn ==
  ASSUME JobsTyped, NEW p \in Proc, NEW t \in Turns, StartUnsure(p, t) \/ FinishUnsure(p, t)
  PROVE  /\ \A q \in Proc, u \in Turns : q # p \/ u # t => job'[q][u] = job[q][u]
         /\ UNCHANGED recoveryVars \/ RequireRecovery(p)
<1>1. CASE JobEnds(p, t)
  BY <1>1, GivenRecord DEF JobEnds, StartUnsure, FinishUnsure
<1>2. CASE job' = [job EXCEPT ![p][t].tries = @ + 1, ![p][t].sure = FALSE] /\ UNCHANGED recoveryVars
  BY <1>2 DEF JobsTyped
<1>3. CASE job' = [job EXCEPT ![p][t].tries = @ + 1] /\ UNCHANGED recoveryVars
  BY <1>3 DEF JobsTyped
<1> QED BY <1>1, <1>2, <1>3 DEF StartUnsure, FinishUnsure

(* Before the turn is accepted. *)
LEMMA AdmittingMoves ==
  ASSUME Typed, NEW p \in Proc, NEW t \in Turns,
         \/ Accept(p, t) \/ AcceptUnowned(p, t) \/ JobExists(p, t)
         \/ JobConfigured(p, t) \/ JobGivesUp(p, t)
  PROVE  TaskMove(p, t)
<1>1. hb' = hb /\ healthy' \in {healthy, [healthy EXCEPT ![p] = FALSE]}
  BY TaskFrame DEF Accept, AcceptUnowned, JobExists, JobConfigured, JobGivesUp
<1>2. CASE Accept(p, t)
  <2>1. job' = [job EXCEPT ![p][t] = [NoJob EXCEPT !.stage = "exists"]] /\ "exists" \in Stages
    BY <1>2 DEF Accept, Stages, Admitting
  <2> QED BY <1>1, <2>1, GivenRecord, JobRecords DEF Typed, TaskMove
<1>3. CASE AcceptUnowned(p, t)
  BY <1>1, <1>3 DEF AcceptUnowned, TaskMove
<1>4. CASE JobEnds(p, t)
  BY <1>1, <1>4, GivenRecord, JobRecords DEF Typed, JobEnds, TaskMove
<1>5. CASE JobExists(p, t) /\ ~JobEnds(p, t)
  <2>1. job[p][t].stage = "exists" /\ healthy[p] /\ job' = [job EXCEPT ![p][t].stage = "config"]
    BY <1>5 DEF JobExists
  <2> QED BY <1>1, <2>1 DEF Typed, JobsTyped, TaskMove
<1>6. CASE JobConfigured(p, t)
  <2>1. job[p][t].stage = "config" /\ job' = [job EXCEPT ![p][t].stage = "start"]
    BY <1>6 DEF JobConfigured
  <2> QED BY <1>1, <2>1 DEF Typed, JobsTyped, TaskMove
<1> QED BY <1>2, <1>3, <1>4, <1>5, <1>6 DEF JobGivesUp

(* Attempts of start. *)
LEMMA StartMoves ==
  ASSUME Typed, NEW p \in Proc, NEW t \in Turns, StartAnswered(p, t) \/ StartLost(p, t)
  PROVE  TaskMove(p, t)
<1>1. hb' = hb /\ job[p][t].stage = "start"
  BY TaskFrame DEF StartAnswered, StartLost
<1>2. \/ StartUnsure(p, t)
      \/ /\ UNCHANGED recoveryVars \/ RequireRecovery(p)
         /\ \E j : job' = [job EXCEPT ![p][t] = j]
  BY DEF StartAnswered, StartFound, StartLost, JobEnds
<1>3. /\ UNCHANGED recoveryVars \/ RequireRecovery(p)
      /\ \A q \in Proc, u \in Turns : q # p \/ u # t => job'[q][u] = job[q][u]
  BY <1>2, UnsureOwn, GivenRecord DEF Typed
<1> QED BY <1>1, <1>3, TaskFrame DEF TaskMove

(* A task whose turn is accepted. *)
LEMMA RunningMoves ==
  ASSUME Typed, NEW p \in Proc, NEW t \in Turns,
         \/ RunEmit(p, t) \/ RunEnds(p, t) \/ FinishAnswered(p, t)
         \/ FinishLost(p, t) \/ Closed(p, t)
  PROVE  TaskMove(p, t)
<1>1. hb' = hb
  BY TaskFrame DEF RunEmit, RunEnds, FinishAnswered, FinishLost, Closed
<1>2. CASE Closed(p, t)
  BY <1>1, <1>2, TaskFrame, GivenRecord, JobRecords DEF Typed, Closed, JobEnds, TaskMove
<1>3. CASE RunEmit(p, t) \/ RunEnds(p, t)
  <2>1. job[p][t].stage = "run" /\ healthy' = healthy
    BY <1>3 DEF RunEmit, RunEnds, recoveryVars
  <2>2. \/ UNCHANGED job \/ job' = [job EXCEPT ![p][t].stage = "closing"]
        \/ \E j : job' = [job EXCEPT ![p][t] = j]
    BY <1>3 DEF RunEmit, RunEnds, Finishing
  <2>3. \A q \in Proc, u \in Turns : q # p \/ u # t => job'[q][u] = job[q][u]
    <3>1. CASE UNCHANGED job
      BY <3>1
    <3>2. CASE job' = [job EXCEPT ![p][t].stage = "closing"]
      BY <3>2 DEF Typed, JobsTyped
    <3> QED BY <2>2, <3>1, <3>2, GivenRecord DEF Typed
  <2> QED BY <1>1, <2>1, <2>3 DEF TaskMove
<1>4. CASE FinishAnswered(p, t) \/ FinishLost(p, t)
  <2>1. job[p][t].stage = "finish"
    BY <1>4 DEF FinishAnswered, FinishLost
  <2>2. FinishUnsure(p, t) \/ (JobEnds(p, t) /\ UNCHANGED recoveryVars)
    BY <1>4 DEF FinishAnswered, FinishLost
  <2>3. /\ UNCHANGED recoveryVars \/ RequireRecovery(p)
        /\ \A q \in Proc, u \in Turns : q # p \/ u # t => job'[q][u] = job[q][u]
    BY <2>2, UnsureOwn, GivenRecord DEF Typed, JobEnds
  <2> QED BY <1>1, <2>1, <2>3, TaskFrame DEF TaskMove
<1> QED BY <1>2, <1>3, <1>4

(* The cancellation of one turn. *)
LEMMA CancelMoves ==
  ASSUME Typed, NEW p \in Proc, NEW t \in Turns,
         Cancel(p, t) \/ CancelLost(p, t) \/ CancelOwned(p, t)
  PROVE  TaskMove(p, t)
<1>1. hb' = hb /\ healthy' = healthy
  BY TaskFrame DEF Cancel, CancelLost, CancelOwned, beatVars, recoveryVars
<1>2. CASE UNCHANGED job
  BY <1>1, <1>2 DEF TaskMove
<1>3. CASE CancelOwned(p, t)
  <2>1. job' = [job EXCEPT ![p][t] = Cancelled(job[p][t])]
    BY <1>3 DEF CancelOwned
  <2>2. job[p][t].stage = "run" \/ Cancelled(job[p][t]).stage = "none"
    BY JobRecords DEF Cancelled
  <2> QED BY <1>1, <2>1, <2>2, GivenRecord DEF Typed, TaskMove
<1> QED BY <1>2, <1>3 DEF Cancel, CancelLost

(* A move of a task leaves every recovery alone. *)
LEMMA TaskAlone ==
  ASSUME AloneInv, NEW p \in Proc, NEW t \in Turns, TaskMove(p, t)
  PROVE  BeatTyped' /\ \A q \in Proc : QuietAt(q)'
<1>1. BeatTyped'
  BY DEF AloneInv, BeatTyped, TaskMove
<1>2. ASSUME NEW q \in Proc PROVE QuietAt(q)'
  <2>1. hb'[q] = hb[q] /\ (healthy'[q] => healthy[q])
    BY DEF AloneInv, BeatTyped, TaskMove
  <2>2. CASE hb[q] \notin Recovering
    BY <2>1, <2>2 DEF QuietAt, Recovering
  <2>3. CASE hb[q] \in Recovering
    <3>1. ~healthy[q] /\ \A u \in Turns : job[q][u].stage \in {"none", "rejected", "exists", "closing"}
      BY <2>3 DEF AloneInv, QuietAt
    <3>2. \A u \in Turns : job'[q][u] = job[q][u] \/ job'[q][u].stage \in {"none", "exists"}
      BY <3>1 DEF TaskMove
    <3> QED BY <2>1, <3>1, <3>2 DEF AloneInv, QuietAt
  <2> QED BY <2>2, <2>3
<1> QED BY <1>1, <1>2

(* A process that is left alone stays quiet. *)
LEMMA OthersQuiet ==
  ASSUME AloneInv, NEW q \in Proc,
         hb'[q] = hb[q], healthy'[q] = healthy[q],
         \A t \in Turns : job'[q][t] = job[q][t]
  PROVE  QuietAt(q)'
  BY DEF AloneInv, QuietAt

(* Once its heartbeat rests, renews or is off, nothing is asked of it. *)
LEMMA RestingQuiet ==
  ASSUME NEW q \in Proc, hb'[q] \in {"rest", "renew", "off"}
  PROVE  QuietAt(q)'
  BY DEF QuietAt, Recovering

(* The heartbeat: gathering cancels all tasks and lowers `healthy`, the *)
(* next stage waits for the cancelled ones. *)
LEMMA BeatAlone ==
  ASSUME AloneInv, NEW p \in Proc, BeatMoves(p) \/ BeatFails(p)
  PROVE  BeatTyped' /\ \A q \in Proc : QuietAt(q)'
<1>1. CASE Beat(p)
  <2>1. CASE hb' = [hb EXCEPT ![p] = "renew"] /\ UNCHANGED <<recoveryVars, job>>
    BY <2>1, OthersQuiet, RestingQuiet DEF AloneInv, BeatTyped, recoveryVars
  <2>2. CASE hb' = [hb EXCEPT ![p] = "gather"] /\ healthy' = [healthy EXCEPT ![p] = FALSE] /\ CancelAll(p)
    <3>1. BeatTyped'
      BY <2>2 DEF AloneInv, BeatTyped
    <3>2. job' = [job EXCEPT ![p] = [t \in Turns |-> Cancelled(job[p][t])]]
      BY <2>2 DEF CancelAll
    <3>3. \A t \in Turns : job'[p][t].stage \in {"none", "closing"}
      BY <3>2, JobRecords DEF AloneInv, Typed, JobsTyped
    <3>4. hb'[p] = "gather" /\ ~healthy'[p]
      BY <2>2 DEF AloneInv, BeatTyped
    <3>5. QuietAt(p)'
      BY <3>3, <3>4 DEF QuietAt
    <3>6. \A q \in Proc \ {p} : hb'[q] = hb[q] /\ healthy'[q] = healthy[q] /\ job'[q] = job[q]
      BY <2>2, <3>2 DEF AloneInv, Typed, JobsTyped, BeatTyped
    <3> QED BY <3>1, <3>5, <3>6, OthersQuiet
  <2> QED BY <1>1, <2>1, <2>2 DEF Beat
<1>2. CASE Gathered(p)
  <2>1. hb[p] = "gather" /\ TasksGone(p) /\ healthy' = healthy /\ job' = job
    BY <1>2 DEF Gathered, Prepare, recoveryVars
  <2>2. hb' = [hb EXCEPT ![p] = "lease"] \/ hb' = [hb EXCEPT ![p] = "inspect"]
    BY <1>2 DEF Gathered, Prepare
  <2>3. QuietAt(p)'
    BY <2>1 DEF AloneInv, QuietAt, Recovering, TasksGone
  <2> QED BY <2>1, <2>2, <2>3, OthersQuiet DEF AloneInv, BeatTyped
<1>3. CASE Inspect(p)
  <2>1. hb[p] = "inspect" /\ healthy' = healthy /\ job' = job
    BY <1>3 DEF Inspect, Prepare, recoveryVars
  <2>2. hb' = [hb EXCEPT ![p] = "rest"] \/ hb' = [hb EXCEPT ![p] = "lease"]
    BY <1>3 DEF Inspect, Prepare
  <2>3. QuietAt(p)'
    BY <2>1 DEF AloneInv, QuietAt, Recovering
  <2> QED BY <2>1, <2>2, <2>3, OthersQuiet DEF AloneInv, BeatTyped
<1>4. CASE Lease(p) \/ Renew(p) \/ BeatFails(p)
  <2>1. hb' = [hb EXCEPT ![p] = "rest"] /\ job' = job
    BY <1>4 DEF Lease, Renew, BeatFails
  <2>2. \E b \in BOOLEAN : healthy' = [healthy EXCEPT ![p] = b]
    BY <1>4 DEF Lease, Renew, BeatFails
  <2> QED BY <2>1, <2>2, OthersQuiet, RestingQuiet DEF AloneInv, BeatTyped
<1> QED BY <1>1, <1>2, <1>3, <1>4 DEF BeatMoves

(* A process begins, ends or dies. *)
LEMMA ProcessAlone ==
  ASSUME AloneInv, NEW p \in Proc,
         Restart(p) \/ ShutDown(p) \/ Release(p) \/ Crash(p)
  PROVE  BeatTyped' /\ \A q \in Proc : QuietAt(q)'
<1>1. hb' = [hb EXCEPT ![p] = "rest"] \/ hb' = [hb EXCEPT ![p] = "off"]
  BY DEF Restart, ShutDown, Release, Crash, Forget
<1>2. healthy' = healthy \/ healthy' = [healthy EXCEPT ![p] = FALSE]
  BY DEF Restart, ShutDown, Release, Crash, Forget, recoveryVars
<1>3. \A q \in Proc \ {p} : job'[q] = job[q]
  BY DEF AloneInv, Typed, JobsTyped, Restart, ShutDown, CancelAll, Release, Crash, Forget
<1> QED BY <1>1, <1>2, <1>3, OthersQuiet, RestingQuiet DEF AloneInv, BeatTyped

(* Late calls, expiry and the operator touch no process. *)
LEMMA OtherAlone ==
  ASSUME AloneInv, (\E c \in late : Execute(c)) \/ Expire \/ PauseAdmissions \/ UNCHANGED vars
  PROVE  BeatTyped' /\ \A q \in Proc : QuietAt(q)'
<1>1. hb' = hb /\ healthy' = healthy /\ job' = job
  BY DEF Execute, Expire, PauseAdmissions, vars, beatVars, recoveryVars
<1> QED BY <1>1, OthersQuiet DEF AloneInv, BeatTyped

LEMMA AloneInit == Init => AloneInv
  BY TypedInit DEF Init, AloneInv, BeatTyped, QuietAt, Recovering

LEMMA StepAlone ==
  ASSUME AloneInv, [Next]_vars
  PROVE  AloneInv'
<1>1. ASSUME NEW p \in Proc, NEW t \in Turns,
             \/ Accept(p, t) \/ AcceptUnowned(p, t)
             \/ JobMoves(p, t) \/ JobGivesUp(p, t) \/ StartLost(p, t)
             \/ RunEmit(p, t) \/ FinishLost(p, t)
             \/ Cancel(p, t) \/ CancelLost(p, t) \/ CancelOwned(p, t)
      PROVE  BeatTyped' /\ \A q \in Proc : QuietAt(q)'
  <2>1. TaskMove(p, t)
    BY <1>1, AdmittingMoves, StartMoves, RunningMoves, CancelMoves DEF AloneInv, JobMoves
  <2> QED BY <2>1, TaskAlone
<1>2. ASSUME NEW p \in Proc,
             \/ BeatMoves(p) \/ BeatFails(p)
             \/ Restart(p) \/ ShutDown(p) \/ Release(p) \/ Crash(p)
      PROVE  BeatTyped' /\ \A q \in Proc : QuietAt(q)'
  BY <1>2, BeatAlone, ProcessAlone
<1>3. BeatTyped' /\ \A q \in Proc : QuietAt(q)'
  BY <1>1, <1>2, OtherAlone DEF Next
<1> QED BY <1>3, StepTyped DEF AloneInv

(* RecoveryAlone: whatever fails, an owner id is exchanged only while no *)
(* task of the process can write with it (the reconnect of the heartbeat, *)
(* main.py:119; the look at healthy, runtime.py:234). *)
THEOREM RecoveryIsAlone == Spec => []RecoveryAlone
<1>1. AloneInv /\ [Next]_vars => AloneInv'
  BY StepAlone
<1>2. AloneInv => RecoveryAlone
  BY DEF AloneInv, QuietAt, Recovering, RecoveryAlone
<1> QED BY <1>1, <1>2, AloneInit, PTL DEF Spec

----------------------------------------------------------------------------
(* The owners of the lease: what is known of ids, calls and processes. *)
(* Owner ids are uuid4, so there is always one that nothing refers to: the *)
(* theorems from here on are for an infinite Ids. *)

HostTyped ==
  /\ up \in [Proc -> {"up", "stopping", "down"}]
  /\ hb \in [Proc -> {"rest", "gather", "inspect", "lease", "renew", "off"}]
  /\ healthy \in [Proc -> BOOLEAN]
  /\ owner \in [Proc -> Ids \cup {None}]
  /\ owned \in [Proc -> BOOLEAN]
  /\ pending \in [Proc -> Pendings \cup {None}]
  /\ demand \in [Proc -> BOOLEAN] /\ covers \in [Proc -> BOOLEAN]
  /\ cancelling \in [Proc -> SUBSET Turns]

LeaseTyped ==
  /\ lease \in [owner : Ids \cup {None}, active : BOOLEAN]
  /\ released \in SUBSET Ids /\ IsFiniteSet(released)

LateKnown == late \subseteq Calls /\ IsFiniteSet(late)

CountsTyped == paused \in BOOLEAN /\ faults \in 0..MaxFaults

(* A process that is down has no task, one that is not has an owner id; a *)
(* heartbeat beats in a process that is up; it asks for a lease it has *)
(* prepared. *)
HostAt(p) ==
  /\ up[p] = "down" => \A t \in Turns : job[p][t].stage = "none"
  /\ up[p] # "down" => owner[p] \in Ids
  /\ hb[p] # "off" => up[p] = "up"
  /\ hb[p] = "lease" => pending[p] # None

HostInv ==
  /\ Typed /\ HostTyped /\ LeaseTyped /\ LateKnown /\ CountsTyped
  /\ \A p \in Proc : HostAt(p)

----------------------------------------------------------------------------
(* Fresh ids. *)

(* The values of a function on a finite set are finitely many. *)
LEMMA FewValues ==
  ASSUME NEW S, IsFiniteSet(S), NEW f, NEW R, \A y \in R : \E x \in S : y = f[x]
  PROVE  IsFiniteSet(R)
<1> DEFINE g == [x \in S |-> f[x]]
           T == {f[x] : x \in S}
<1>1. g \in Surjection(S, T)
  BY DEF Surjection
<1>2. IsFiniteSet(T)
  BY <1>1, FS_Surjection
<1>3. R \subseteq T
  OBVIOUS
<1> QED BY <1>2, <1>3, FS_Subset

(* One id, or two. *)
LEMMA FewIds == \A x, y : IsFiniteSet({x}) /\ IsFiniteSet({x, y})
<1> TAKE x, y
<1>1. IsFiniteSet({x}) /\ IsFiniteSet({y}) /\ {x, y} = {x} \cup {y}
  BY FS_Singleton
<1> QED BY <1>1, FS_Union

(* What refers to owner ids refers to finitely many. *)
LEMMA FewReferenced ==
  ASSUME HostInv
  PROVE  IsFiniteSet(Referenced)
<1> DEFINE Prepared == {q \in Proc : pending[q] # None}
           A == {owner[p] : p \in Proc}
           B == {{pending[p].from, pending[p].to} : p \in Prepared}
           C == {OwnersOf(c) : c \in late}
<1>1. IsFiniteSet(A)
  BY FewValues, ChatConstants
<1>2. IsFiniteSet(B)
  <2> DEFINE f == [p \in Prepared |-> {pending[p].from, pending[p].to}]
  <2>1. IsFiniteSet(Prepared)
    BY ChatConstants, FS_Subset
  <2>2. \A y \in B : \E p \in Prepared : y = f[p]
    OBVIOUS
  <2> HIDE DEF f, B, Prepared
  <2> QED BY <2>1, <2>2, FewValues
<1>3. IsFiniteSet(C)
  <2> DEFINE f == [c \in late |-> OwnersOf(c)]
  <2>1. IsFiniteSet(late)
    BY DEF HostInv, LateKnown
  <2>2. \A y \in C : \E c \in late : y = f[c]
    OBVIOUS
  <2> HIDE DEF f, C
  <2> QED BY <2>1, <2>2, FewValues
<1>4. IsFiniteSet(UNION B)
  <2>1. \A S \in B : IsFiniteSet(S)
    BY FewIds
  <2> HIDE DEF B
  <2> QED BY <1>2, <2>1, FS_UNION
<1>5. IsFiniteSet(UNION C)
  <2>1. \A S \in C : IsFiniteSet(S)
    BY FewIds DEF OwnersOf
  <2> HIDE DEF C
  <2> QED BY <1>3, <2>1, FS_UNION
<1>6. Referenced = ((({lease.owner} \cup A) \cup released) \cup (UNION B)) \cup (UNION C)
  BY DEF Referenced
<1>7. IsFiniteSet(released) /\ IsFiniteSet({lease.owner})
  BY FewIds DEF HostInv, LeaseTyped
<1> HIDE DEF A, B, C
<1>8. IsFiniteSet({lease.owner} \cup A)
  BY <1>1, <1>7, FS_Union
<1>9. IsFiniteSet(({lease.owner} \cup A) \cup released)
  BY <1>7, <1>8, FS_Union
<1>10. IsFiniteSet((({lease.owner} \cup A) \cup released) \cup (UNION B))
  BY <1>4, <1>9, FS_Union
<1> QED BY <1>5, <1>6, <1>10, FS_Union

(* So a fresh id is one, and nothing refers to it. *)
LEMMA FreshIsNew ==
  ASSUME HostInv, ~IsFiniteSet(Ids)
  PROVE  Fresh \in Ids /\ Fresh \notin Referenced
<1>1. \E i \in Ids : i \notin Referenced
  <2> SUFFICES ASSUME Ids \subseteq Referenced PROVE FALSE
    OBVIOUS
  <2> QED BY FewReferenced, FS_Subset
<1> QED BY <1>1 DEF Fresh

----------------------------------------------------------------------------
(* Calls. *)

TurnCalls ==
  [op : {"start"}, turn : Turns, owner : Ids]
    \cup [op : {"emit"}, turn : Turns, owner : Ids, kind : Endings \cup {"delta"}]

(* What a call names. *)
LEMMA CallParts ==
  ASSUME NEW c \in Calls
  PROVE  /\ c.op = "start" => c.turn \in Turns /\ c.owner \in Ids
         /\ c.op = "emit" => c.turn \in Turns /\ c.owner \in Ids /\ c.kind \in Kinds
         /\ c.op = "lease" => c.pn \in Pendings
         /\ c.op = "release" => c.owner \in Ids
<1>1. CASE c \in [op : {"start"}, turn : Turns, owner : Ids]
  BY <1>1
<1>2. CASE c \in [op : {"emit"}, turn : Turns, owner : Ids, kind : Endings \cup {"delta"}]
  BY <1>2 DEF Kinds
<1>3. CASE c \in [op : {"lease"}, pn : Pendings]
  BY <1>3
<1>4. CASE c \in [op : {"release"}, owner : Ids]
  BY <1>4
<1> QED BY <1>1, <1>2, <1>3, <1>4 DEF Calls

(* The calls of a task name the owner of its process. *)
LEMMA TaskCalls ==
  ASSUME HostInv, NEW p \in Proc, up[p] # "down", NEW t \in Turns
  PROVE  /\ StartCallOf(p, t) \in TurnCalls
         /\ \A k \in Kinds : EmitCall(t, owner[p], k) \in TurnCalls
         /\ job[p][t].stage = "finish" => FinishCallOf(p, t) \in TurnCalls
<1>1. owner[p] \in Ids
  BY DEF HostInv, HostAt
<1>2. StartCallOf(p, t) \in TurnCalls
  BY <1>1 DEF TurnCalls, StartCallOf, StartCall
<1>3. \A k \in Kinds : EmitCall(t, owner[p], k) \in TurnCalls
  BY <1>1 DEF TurnCalls, EmitCall, Kinds
<1>4. job[p][t].stage = "finish" => FinishCallOf(p, t) \in TurnCalls
  BY <1>3 DEF HostInv, Typed, JobsTyped, FinishCallOf, Kinds
<1> QED BY <1>2, <1>3, <1>4

(* The calls of cancelled tasks: finitely many, of the process. *)
LEMMA CancelledCalls ==
  ASSUME HostInv, NEW p \in Proc, NEW ts \in SUBSET Turns
  PROVE  CallsOf(p, ts) \subseteq TurnCalls /\ IsFiniteSet(CallsOf(p, ts))
<1> DEFINE At(s) == {u \in ts : job[p][u].stage = s}
           Start == {StartCallOf(p, t) : t \in At("start")}
           Run == {EmitCall(t, owner[p], "delta") : t \in At("run")}
           Fin == {FinishCallOf(p, t) : t \in At("finish")}
<1>1. \A s : IsFiniteSet(At(s))
  BY ChatConstants, FS_Subset
<1>2. \A t \in ts : job[p][t].stage # "none" => up[p] # "down"
  BY DEF HostInv, HostAt
<1>3. CallsOf(p, ts) = (Start \cup Run) \cup Fin
  BY DEF CallsOf
<1>4. Start \subseteq TurnCalls /\ Run \subseteq TurnCalls /\ Fin \subseteq TurnCalls
  BY <1>2, TaskCalls DEF Kinds
<1>5. IsFiniteSet(Start)
  <2> DEFINE f == [t \in At("start") |-> StartCallOf(p, t)]
  <2>1. \A y \in Start : \E t \in At("start") : y = f[t]
    OBVIOUS
  <2> HIDE DEF f, Start, At
  <2> QED BY <1>1, <2>1, FewValues
<1>6. IsFiniteSet(Run)
  <2> DEFINE f == [t \in At("run") |-> EmitCall(t, owner[p], "delta")]
  <2>1. \A y \in Run : \E t \in At("run") : y = f[t]
    OBVIOUS
  <2> HIDE DEF f, Run, At
  <2> QED BY <1>1, <2>1, FewValues
<1>7. IsFiniteSet(Fin)
  <2> DEFINE f == [t \in At("finish") |-> FinishCallOf(p, t)]
  <2>1. \A y \in Fin : \E t \in At("finish") : y = f[t]
    OBVIOUS
  <2> HIDE DEF f, Fin, At
  <2> QED BY <1>1, <2>1, FewValues
<1> HIDE DEF Start, Run, Fin
<1>8. IsFiniteSet(Start \cup Run)
  BY <1>5, <1>6, FS_Union
<1> QED BY <1>3, <1>4, <1>7, <1>8, FS_Union

(* The call a heartbeat waits for: what it has prepared, or a renewal. *)
LEMMA BeatCalls ==
  ASSUME HostInv, NEW p \in Proc
  PROVE  /\ HeartbeatCalls(p) \subseteq Calls /\ IsFiniteSet(HeartbeatCalls(p))
         /\ \A c \in HeartbeatCalls(p) :
              /\ c.op = "lease"
              /\ \/ c.pn = pending[p] /\ pending[p] # None
                 \/ c.pn.from = c.pn.to
<1>1. CASE hb[p] = "lease"
  <2>1. HeartbeatCalls(p) = {LeaseCall(pending[p])} /\ pending[p] \in Pendings
    BY <1>1 DEF HeartbeatCalls, HostInv, HostTyped, HostAt
  <2>2. LeaseCall(pending[p]) \in Calls /\ LeaseCall(pending[p]).op = "lease"
        /\ LeaseCall(pending[p]).pn = pending[p]
    BY <2>1 DEF Calls, LeaseCall
  <2> QED BY <1>1, <2>1, <2>2, FS_Singleton DEF HostInv, HostAt
<1>2. CASE hb[p] = "renew"
  <2>1. HeartbeatCalls(p) = {LeaseCall(Renewal(p))}
    BY <1>2 DEF HeartbeatCalls
  <2>2. owner[p] \in Ids
    BY <1>2 DEF HostInv, HostAt
  <2>3. Renewal(p) \in Pendings /\ Renewal(p).from = Renewal(p).to
    BY <2>2 DEF Renewal, Pendings
  <2>4. LeaseCall(Renewal(p)) \in Calls /\ LeaseCall(Renewal(p)).op = "lease"
        /\ LeaseCall(Renewal(p)).pn = Renewal(p)
    BY <2>3 DEF Calls, LeaseCall
  <2> QED BY <2>1, <2>3, <2>4, FS_Singleton
<1>3. CASE hb[p] \notin {"lease", "renew"}
  BY <1>3, FS_EmptySet DEF HeartbeatCalls
<1> QED BY <1>1, <1>2, <1>3

(* Calls that go on without their caller are known. *)
LEMMA GivenUpKnown ==
  ASSUME LateKnown, NEW calls \in SUBSET Calls, IsFiniteSet(calls), GiveUp(calls)
  PROVE  LateKnown'
<1>1. PICK kept \in SUBSET calls : late' = late \cup kept
  BY DEF GiveUp
<1>2. IsFiniteSet(kept)
  BY FS_Subset
<1> QED BY <1>1, <1>2, FS_Union DEF LateKnown

(* So are those that are left of them. *)
LEMMA FewerLate ==
  ASSUME LateKnown, late' \subseteq late
  PROVE  LateKnown'
  BY FS_Subset DEF LateKnown

----------------------------------------------------------------------------
(* The steps of a task: none of them touches the lease or the heartbeat. *)

TaskSteps(p, t) ==
  \/ Accept(p, t) \/ AcceptUnowned(p, t)
  \/ JobMoves(p, t) \/ JobGivesUp(p, t) \/ StartLost(p, t)
  \/ RunEmit(p, t) \/ FinishLost(p, t)
  \/ Cancel(p, t) \/ CancelLost(p, t) \/ CancelOwned(p, t)

HeldVars == <<lease, paused, up, hb, owner, owned, pending, released>>

(* What no task writes. *)
LEMMA TaskLeaves ==
  ASSUME NEW p, NEW t, TaskSteps(p, t)
  PROVE  UNCHANGED HeldVars
<1> USE DEF HeldVars, storeVars, memVars, beatVars
<1>1. CASE Accept(p, t) \/ AcceptUnowned(p, t) \/ JobExists(p, t) \/ JobConfigured(p, t) \/ JobGivesUp(p, t)
  BY <1>1 DEF Accept, AcceptUnowned, JobExists, JobConfigured, JobGivesUp
<1>2. CASE StartAnswered(p, t) \/ StartLost(p, t)
  BY <1>2 DEF StartAnswered, StartLost, StartEffect
<1>3. CASE RunEmit(p, t) \/ RunEnds(p, t) \/ Closed(p, t)
  BY <1>3 DEF RunEmit, RunEnds, Closed, EmitEffect
<1>4. CASE FinishAnswered(p, t) \/ FinishLost(p, t)
  BY <1>4 DEF FinishAnswered, FinishLost, EmitEffect
<1>5. CASE Cancel(p, t) \/ CancelLost(p, t) \/ CancelOwned(p, t)
  BY <1>5 DEF Cancel, CancelLost, CancelOwned, EmitEffect
<1> QED BY <1>1, <1>2, <1>3, <1>4, <1>5 DEF TaskSteps, JobMoves

(* A task is one of a process that is up, or ends. *)
LEMMA TaskAtHome ==
  ASSUME HostInv, NEW p \in Proc, NEW t \in Turns, TaskSteps(p, t)
  PROVE  up[p] # "down" \/ job'[p][t].stage = "none"
<1>1. job[p][t].stage # "none" => up[p] # "down"
  BY DEF HostInv, HostAt
<1>2. CASE Accept(p, t) \/ AcceptUnowned(p, t) \/ Cancel(p, t) \/ CancelLost(p, t)
  BY <1>2 DEF Accept, AcceptUnowned, Cancel, CancelLost
<1>3. CASE JobMoves(p, t) \/ JobGivesUp(p, t) \/ StartLost(p, t) \/ RunEmit(p, t) \/ FinishLost(p, t)
  BY <1>1, <1>3 DEF JobMoves, JobExists, JobConfigured, StartAnswered, RunEnds, FinishAnswered,
                    Closed, JobGivesUp, StartLost, RunEmit, FinishLost
<1>4. CASE CancelOwned(p, t)
  <2>1. job' = [job EXCEPT ![p][t] = Cancelled(job[p][t])]
    BY <1>4 DEF CancelOwned
  <2>2. job'[p][t] = Cancelled(job[p][t])
    BY <2>1 DEF HostInv, Typed, JobsTyped
  <2> QED BY <1>1, <2>2, JobRecords DEF Cancelled
<1> QED BY <1>2, <1>3, <1>4 DEF TaskSteps

(* What it writes of its process is typed. *)
LEMMA TaskWrites ==
  ASSUME HostInv, NEW p \in Proc, NEW t \in Turns, TaskSteps(p, t)
  PROVE  /\ UNCHANGED recoveryVars \/ RequireRecovery(p)
         /\ cancelling' \in [Proc -> SUBSET Turns]
         /\ faults' \in 0..MaxFaults
<1> USE DEF memVars
<1>1. faults \in 0..MaxFaults /\ cancelling \in [Proc -> SUBSET Turns]
  BY DEF HostInv, CountsTyped, HostTyped
<1>2. UNCHANGED faults \/ Fault => faults' \in 0..MaxFaults
  BY <1>1, ChatConstants DEF Fault
<1>3. CASE Accept(p, t) \/ AcceptUnowned(p, t) \/ JobExists(p, t) \/ JobConfigured(p, t) \/ JobGivesUp(p, t)
  BY <1>1, <1>2, <1>3 DEF Accept, AcceptUnowned, JobExists, JobConfigured, JobGivesUp
<1>4. CASE StartAnswered(p, t) \/ StartLost(p, t)
  BY <1>1, <1>2, <1>4 DEF StartAnswered, StartLost, StartUnsure, StartFound
<1>5. CASE RunEmit(p, t) \/ RunEnds(p, t) \/ Closed(p, t)
  BY <1>1, <1>2, <1>5 DEF RunEmit, RunEnds, Closed
<1>6. CASE FinishAnswered(p, t) \/ FinishLost(p, t)
  BY <1>1, <1>2, <1>6 DEF FinishAnswered, FinishLost, FinishUnsure
<1>7. CASE Cancel(p, t) \/ CancelLost(p, t) \/ CancelOwned(p, t)
  BY <1>1, <1>2, <1>7 DEF Cancel, CancelLost, CancelOwned
<1> QED BY <1>3, <1>4, <1>5, <1>6, <1>7 DEF TaskSteps, JobMoves

(* The calls it gives up are calls of its turn. *)
LEMMA TaskGivesUp ==
  ASSUME HostInv, NEW p \in Proc, NEW t \in Turns, TaskSteps(p, t)
  PROVE  late' \ late \subseteq TurnCalls /\ LateKnown'
<1>1. LateKnown /\ TurnCalls \subseteq Calls
  BY DEF HostInv, TurnCalls, Calls
<1>2. ASSUME NEW calls \in SUBSET TurnCalls, IsFiniteSet(calls), GiveUp(calls)
      PROVE  late' \ late \subseteq TurnCalls /\ LateKnown'
  BY <1>1, <1>2, GivenUpKnown DEF GiveUp
<1>3. ASSUME NEW c \in TurnCalls, GiveUp({c}) PROVE late' \ late \subseteq TurnCalls /\ LateKnown'
  BY <1>2, <1>3, FS_Singleton
<1>4. late' \subseteq late => late' \ late \subseteq TurnCalls /\ LateKnown'
  BY <1>1, FewerLate
<1>5. job[p][t].stage # "none" => up[p] # "down"
  BY DEF HostInv, HostAt
<1>6. CASE StartLost(p, t)
  BY <1>3, <1>5, <1>6, TaskCalls DEF StartLost
<1>7. CASE FinishLost(p, t)
  BY <1>3, <1>5, <1>7, TaskCalls DEF FinishLost
<1>8. CASE CancelLost(p, t)
  <2>1. EmitCall(t, owner[p], "CANCELLED") \in TurnCalls
    BY <1>8, TaskCalls DEF CancelLost, Kinds, Endings
  <2> QED BY <1>3, <1>8, <2>1 DEF CancelLost
<1>9. CASE CancelOwned(p, t)
  BY <1>2, <1>9, CancelledCalls DEF CancelOwned
<1>10. CASE \/ Accept(p, t) \/ AcceptUnowned(p, t) \/ JobMoves(p, t) \/ JobGivesUp(p, t)
            \/ RunEmit(p, t) \/ Cancel(p, t)
  <2>1. late' \subseteq late
    BY <1>10 DEF Accept, AcceptUnowned, JobMoves, JobGivesUp, RunEmit, Cancel, JobExists,
                 JobConfigured, StartAnswered, RunEnds, FinishAnswered, Closed
  <2> QED BY <1>4, <2>1
<1> QED BY <1>6, <1>7, <1>8, <1>9, <1>10 DEF TaskSteps

(* A move of a task, as TaskMove has it. *)
LEMMA TaskMoves ==
  ASSUME Typed, NEW p \in Proc, NEW t \in Turns, TaskSteps(p, t)
  PROVE  TaskMove(p, t)
  BY AdmittingMoves, StartMoves, RunningMoves, CancelMoves DEF TaskSteps, JobMoves

HostNext ==
  /\ HostTyped' /\ LeaseTyped' /\ LateKnown' /\ CountsTyped'
  /\ \A p \in Proc : HostAt(p)'

LEMMA TaskHost ==
  ASSUME HostInv, NEW p \in Proc, NEW t \in Turns, TaskSteps(p, t)
  PROVE  HostNext
<1>1. UNCHANGED HeldVars
  BY TaskLeaves
<1>2. LateKnown' /\ CountsTyped' /\ LeaseTyped'
  BY <1>1, TaskWrites, TaskGivesUp DEF HostInv, CountsTyped, LeaseTyped, HeldVars
<1>3. HostTyped'
  BY <1>1, TaskWrites DEF HostInv, HostTyped, HeldVars, RequireRecovery, recoveryVars
<1>4. ASSUME NEW q \in Proc PROVE HostAt(q)'
  <2>1. \A u \in Turns : q # p \/ u # t => job'[q][u] = job[q][u]
    BY TaskMoves DEF HostInv, TaskMove
  <2> QED BY <1>1, <2>1, TaskAtHome DEF HostInv, HostAt, HeldVars
<1> QED BY <1>2, <1>3, <1>4 DEF HostNext

----------------------------------------------------------------------------
(* The steps of the heartbeat and of processes. *)

(* A lease that is asked for is one of an owner that is known. *)
LEMMA LeaseKept ==
  ASSUME LeaseTyped, NEW pn \in Pendings, LeaseEffect(pn), released' = released
  PROVE  LeaseTyped'
  BY DEF LeaseTyped, LeaseEffect, Pendings

(* One that is given back is nobody's. *)
LEMMA LeaseReleased ==
  ASSUME HostInv, ~IsFiniteSet(Ids), NEW o \in Ids, ReleaseEffect(o)
  PROVE  LeaseTyped'
<1>1. IsFiniteSet(released) /\ IsFiniteSet({o})
  BY FS_Singleton DEF HostInv, LeaseTyped
<1>2. IsFiniteSet(released \cup {o})
  BY <1>1, FS_Union
<1>3. Fresh \in Ids /\ LeaseTyped
  BY FreshIsNew DEF HostInv
<1>4. CASE lease' = [owner |-> Fresh, active |-> FALSE] /\ released' = released \cup {o}
  BY <1>2, <1>3, <1>4 DEF LeaseTyped
<1>5. CASE UNCHANGED <<lease, released>>
  BY <1>3, <1>5 DEF LeaseTyped
<1> QED BY <1>4, <1>5 DEF ReleaseEffect

(* A process whose host is left alone stays as it should be. *)
LEMMA OtherHosts ==
  ASSUME HostInv, NEW q \in Proc, up'[q] = up[q], hb'[q] = hb[q], owner'[q] = owner[q],
         pending'[q] = pending[q], \A t \in Turns : job'[q][t] = job[q][t]
  PROVE  HostAt(q)'
  BY DEF HostInv, HostAt

(* Cancelling all tasks. *)
LEMMA CancelAllHost ==
  ASSUME HostInv, NEW p \in Proc, CancelAll(p)
  PROVE  /\ demand' \in [Proc -> BOOLEAN] /\ covers' \in [Proc -> BOOLEAN]
         /\ \A q \in Proc, t \in Turns : q # p => job'[q][t] = job[q][t]
         /\ \A t \in Turns : job'[p][t].stage # "none" => job[p][t].stage # "none"
<1>1. demand' \in [Proc -> BOOLEAN] /\ covers' \in [Proc -> BOOLEAN]
  BY DEF HostInv, HostTyped, CancelAll
<1>2. job' = [job EXCEPT ![p] = [t \in Turns |-> Cancelled(job[p][t])]]
  BY DEF CancelAll
<1>3. \A q \in Proc, t \in Turns : q # p => job'[q][t] = job[q][t]
  BY <1>2 DEF HostInv, Typed, JobsTyped
<1>4. \A t \in Turns : job'[p][t] = Cancelled(job[p][t])
  BY <1>2 DEF HostInv, Typed, JobsTyped
<1>5. \A t \in Turns : job'[p][t].stage # "none" => job[p][t].stage # "none"
  BY <1>4 DEF Cancelled, NoJob
<1> QED BY <1>1, <1>3, <1>5

(* An exchange that is prepared. *)
LEMMA PreparedHost ==
  ASSUME HostInv, ~IsFiniteSet(Ids), NEW p \in Proc, up[p] = "up", NEW from \in Ids \cup {None},
         NEW claim \in BOOLEAN, Prepare(p, from, claim)
  PROVE  /\ hb' \in [Proc -> {"rest", "gather", "inspect", "lease", "renew", "off"}]
         /\ pending' \in [Proc -> Pendings \cup {None}]
         /\ covers' \in [Proc -> BOOLEAN]
         /\ hb'[p] = "lease" /\ pending'[p] # None
         /\ \A q \in Proc : q # p => hb'[q] = hb[q] /\ pending'[q] = pending[q]
<1> DEFINE pn == [from |-> from, to |-> Fresh, claim |-> claim]
<1>1. pn \in Pendings
  BY FreshIsNew DEF Pendings
<1>2. hb' = [hb EXCEPT ![p] = "lease"] /\ pending' = [pending EXCEPT ![p] = pn]
      /\ covers' = [covers EXCEPT ![p] = TRUE]
  BY DEF Prepare
<1>3. pn # None
  BY <1>1, ChatConstants DEF Pendings
<1> HIDE DEF pn
<1> QED BY <1>1, <1>2, <1>3 DEF HostInv, HostTyped

(* The heartbeat. *)
LEMMA BeatHost ==
  ASSUME HostInv, ~IsFiniteSet(Ids), NEW p \in Proc, BeatMoves(p) \/ BeatFails(p)
  PROVE  HostNext
<1> DEFINE Beats == {"rest", "gather", "inspect", "lease", "renew", "off"}
<1>1. /\ HostTyped /\ LeaseTyped /\ LateKnown /\ CountsTyped
      /\ hb[p] # "off" => up[p] = "up" /\ owner[p] \in Ids
  BY DEF HostInv, HostAt
<1>2. CASE Beat(p)
  <2>1. hb[p] = "rest" /\ UNCHANGED <<lease, paused, up, owner, owned, pending, cancelling, released, faults>>
    BY <1>2 DEF Beat, storeVars, hostVars
  <2>2. CASE hb' = [hb EXCEPT ![p] = "renew"] /\ UNCHANGED <<late, recoveryVars, job>>
    <3>1. HostTyped' /\ LeaseTyped' /\ LateKnown' /\ CountsTyped'
      BY <1>1, <2>1, <2>2 DEF HostTyped, LeaseTyped, LateKnown, CountsTyped, recoveryVars
    <3>2. \A q \in Proc : HostAt(q)'
      BY <1>1, <2>1, <2>2 DEF HostInv, HostTyped, HostAt
    <3> QED BY <3>1, <3>2 DEF HostNext
  <2>3. CASE /\ hb' = [hb EXCEPT ![p] = "gather"] /\ healthy' = [healthy EXCEPT ![p] = FALSE]
             /\ CancelAll(p) /\ GiveUp(CallsOf(p, Turns))
    <3>1. HostTyped' /\ LeaseTyped' /\ CountsTyped'
      BY <1>1, <2>1, <2>3, CancelAllHost DEF HostTyped, LeaseTyped, CountsTyped
    <3>2. LateKnown'
      <4>1. CallsOf(p, Turns) \in SUBSET Calls /\ IsFiniteSet(CallsOf(p, Turns))
        BY CancelledCalls DEF TurnCalls, Calls
      <4> QED BY <1>1, <2>3, <4>1, GivenUpKnown
    <3>3. \A q \in Proc : HostAt(q)'
      BY <1>1, <2>1, <2>3, CancelAllHost DEF HostInv, HostTyped, HostAt
    <3> QED BY <3>1, <3>2, <3>3 DEF HostNext
  <2> QED BY <1>2, <2>1, <2>2, <2>3 DEF Beat
<1>3. ASSUME hb[p] \in {"gather", "inspect"}, UNCHANGED <<late, owner, owned, job, faults, hostVars, storeVars>>,
             \/ \E from \in Ids \cup {None}, claim \in BOOLEAN : Prepare(p, from, claim)
             \/ /\ hb' = [hb EXCEPT ![p] = "rest"] \/ hb' = [hb EXCEPT ![p] = "inspect"]
                /\ UNCHANGED <<pending, recoveryVars>>
             \/ /\ pending[p] # None /\ hb' = [hb EXCEPT ![p] = "lease"]
                /\ UNCHANGED <<pending, recoveryVars>>
      PROVE  HostNext
  <2>1. LeaseTyped' /\ LateKnown' /\ CountsTyped'
    BY <1>1, <1>3 DEF LeaseTyped, LateKnown, CountsTyped, storeVars, hostVars
  <2>2. CASE \E from \in Ids \cup {None}, claim \in BOOLEAN : Prepare(p, from, claim)
    <3>1. PICK from \in Ids \cup {None}, claim \in BOOLEAN : Prepare(p, from, claim)
      BY <2>2
    <3>2. UNCHANGED <<healthy, demand, up, owner, owned, cancelling, job>>
      BY <1>3, <3>1 DEF Prepare, hostVars
    <3>3. /\ hb' \in [Proc -> Beats] /\ pending' \in [Proc -> Pendings \cup {None}]
          /\ covers' \in [Proc -> BOOLEAN] /\ hb'[p] = "lease" /\ pending'[p] # None
          /\ \A q \in Proc : q # p => hb'[q] = hb[q] /\ pending'[q] = pending[q]
      BY <1>1, <1>3, <3>1, PreparedHost
    <3>4. HostTyped'
      BY <1>1, <3>2, <3>3 DEF HostTyped
    <3>5. \A q \in Proc : HostAt(q)'
      BY <1>1, <1>3, <3>2, <3>3 DEF HostInv, HostAt
    <3> QED BY <2>1, <3>4, <3>5 DEF HostNext
  <2>3. CASE /\ \/ hb' = [hb EXCEPT ![p] = "rest"] \/ hb' = [hb EXCEPT ![p] = "inspect"]
                \/ pending[p] # None /\ hb' = [hb EXCEPT ![p] = "lease"]
             /\ UNCHANGED <<pending, recoveryVars>>
    <3>1. HostTyped'
      BY <1>1, <1>3, <2>3 DEF HostTyped, hostVars, recoveryVars
    <3>2. \A q \in Proc : HostAt(q)'
      BY <1>1, <1>3, <2>3 DEF HostInv, HostTyped, HostAt, hostVars
    <3> QED BY <2>1, <3>1, <3>2 DEF HostNext
  <2> QED BY <1>3, <2>2, <2>3
<1>4. CASE Gathered(p)
  <2>1. owner[p] \in Ids \cup {None} /\ FALSE \in BOOLEAN
    BY <1>1 DEF HostTyped
  <2> QED BY <1>3, <1>4, <2>1 DEF Gathered
<1>5. CASE Inspect(p)
  <2>1. lease.owner \in Ids \cup {None} /\ TRUE \in BOOLEAN
    BY <1>1 DEF LeaseTyped
  <2> QED BY <1>3, <1>5, <2>1 DEF Inspect
<1>6. CASE Lease(p)
  <2>1. pending[p] \in Pendings
    BY <1>6 DEF HostInv, HostTyped, HostAt, Lease
  <2>2. pending[p].to \in Ids /\ LeaseAnswer(pending[p]) \in BOOLEAN
    BY <2>1 DEF Pendings, LeaseAnswer
  <2>3. UNCHANGED <<late, job, faults, paused, up, cancelling, released>> /\ LeaseEffect(pending[p])
        /\ hb[p] = "lease" /\ hb' = [hb EXCEPT ![p] = "rest"]
    BY <1>6 DEF Lease, hostVars
  <2>4. LeaseTyped' /\ LateKnown' /\ CountsTyped'
    BY <1>1, <2>1, <2>3, LeaseKept DEF LateKnown, CountsTyped
  <2>5. HostTyped'
    <3>1. /\ hb' \in [Proc -> Beats] /\ pending' \in [Proc -> Pendings \cup {None}]
          /\ covers' \in [Proc -> BOOLEAN] /\ owner' \in [Proc -> Ids \cup {None}]
      BY <1>1, <1>6, <2>2 DEF HostTyped, Lease
    <3>2. owned' \in [Proc -> BOOLEAN] /\ demand' \in [Proc -> BOOLEAN] /\ healthy' \in [Proc -> BOOLEAN]
      BY <1>1, <1>6, <2>2 DEF HostTyped, Lease
    <3> QED BY <1>1, <2>3, <3>1, <3>2 DEF HostTyped
  <2>6. owner'[p] \in Ids /\ \A q \in Proc \ {p} : owner'[q] = owner[q] /\ pending'[q] = pending[q]
    BY <1>1, <1>6, <2>2 DEF HostTyped, Lease
  <2>7. \A q \in Proc : HostAt(q)'
    BY <1>1, <2>3, <2>6 DEF HostInv, HostTyped, HostAt
  <2> QED BY <2>4, <2>5, <2>7 DEF HostNext
<1>7. CASE Renew(p)
  <2>1. Renewal(p) \in Pendings /\ LeaseAnswer(Renewal(p)) \in BOOLEAN
    BY <1>1, <1>7 DEF Renewal, Pendings, LeaseAnswer, Renew
  <2>2. UNCHANGED <<late, job, faults, paused, up, cancelling, released, owner, pending, demand, covers>>
        /\ LeaseEffect(Renewal(p)) /\ hb[p] = "renew" /\ hb' = [hb EXCEPT ![p] = "rest"]
    BY <1>7 DEF Renew, hostVars
  <2>3. LeaseTyped' /\ LateKnown' /\ CountsTyped'
    BY <1>1, <2>1, <2>2, LeaseKept DEF LateKnown, CountsTyped
  <2>4. HostTyped'
    BY <1>1, <1>7, <2>1, <2>2 DEF HostTyped, Renew
  <2>5. \A q \in Proc : HostAt(q)'
    BY <1>1, <2>2 DEF HostInv, HostTyped, HostAt
  <2> QED BY <2>3, <2>4, <2>5 DEF HostNext
<1>8. CASE BeatFails(p)
  <2>1. UNCHANGED <<lease, released, paused, up, owner, owned, pending, demand, covers, job, cancelling>>
        /\ hb' = [hb EXCEPT ![p] = "rest"] /\ healthy' = [healthy EXCEPT ![p] = FALSE] /\ hb[p] # "off"
    BY <1>8 DEF BeatFails, storeVars, hostVars
  <2>2. LateKnown'
    BY <1>1, <1>8, BeatCalls, GivenUpKnown DEF BeatFails
  <2>3. CountsTyped'
    BY <1>1, <1>8, <2>1, ChatConstants DEF CountsTyped, BeatFails, Fault
  <2>4. HostTyped' /\ LeaseTyped'
    BY <1>1, <2>1 DEF HostTyped, LeaseTyped
  <2>5. \A q \in Proc : HostAt(q)'
    BY <1>1, <2>1 DEF HostInv, HostTyped, HostAt
  <2> QED BY <2>2, <2>3, <2>4, <2>5 DEF HostNext
<1> QED BY <1>2, <1>4, <1>5, <1>6, <1>7, <1>8 DEF BeatMoves

(* A process that forgets everything. *)
LEMMA ForgetHost ==
  ASSUME HostInv, NEW p \in Proc, Forget(p)
  PROVE  HostTyped' /\ \A q \in Proc : HostAt(q)'
<1>1. HostTyped
  BY DEF HostInv
<1>2. HostTyped'
  BY <1>1 DEF HostTyped, Forget
<1>3. \A q \in Proc, t \in Turns : q # p => job'[q][t] = job[q][t]
  BY DEF HostInv, Typed, JobsTyped, Forget
<1>4. \A t \in Turns : job'[p][t] = NoJob
  BY DEF HostInv, Typed, JobsTyped, Forget
<1>5. HostAt(p)'
  BY <1>1, <1>4 DEF HostAt, HostTyped, Forget, NoJob
<1>6. \A q \in Proc \ {p} : HostAt(q)'
  BY <1>1, <1>3, OtherHosts DEF HostTyped, Forget
<1> QED BY <1>2, <1>5, <1>6

(* A process begins, ends or dies. *)
LEMMA ProcessHost ==
  ASSUME HostInv, ~IsFiniteSet(Ids), NEW p \in Proc,
         Restart(p) \/ ShutDown(p) \/ Release(p) \/ Crash(p)
  PROVE  HostNext
<1>1. /\ HostTyped /\ LeaseTyped /\ LateKnown /\ CountsTyped
      /\ up[p] # "down" => owner[p] \in Ids
  BY DEF HostInv, HostAt
<1> DEFINE ended == HeartbeatCalls(p) \cup CallsOf(p, Turns)
<1>2. ended \in SUBSET Calls /\ IsFiniteSet(ended)
  <2>1. CallsOf(p, Turns) \subseteq Calls
    BY CancelledCalls DEF TurnCalls, Calls
  <2> QED BY <2>1, BeatCalls, CancelledCalls, FS_Union
<1>3. Fault => faults' \in 0..MaxFaults
  BY <1>1, ChatConstants DEF Fault, CountsTyped
<1>4. CASE Restart(p)
  <2>1. UNCHANGED <<lease, paused, late, released, faults, job>>
    BY <1>4 DEF Restart, storeVars
  <2>2. HostTyped'
    BY <1>1, <1>4, FreshIsNew DEF HostTyped, Restart, recoveryVars
  <2>3. LeaseTyped' /\ LateKnown' /\ CountsTyped'
    BY <1>1, <2>1 DEF LeaseTyped, LateKnown, CountsTyped
  <2>4. \A q \in Proc : HostAt(q)'
    BY <1>1, <1>4, <2>1, FreshIsNew DEF HostInv, HostTyped, HostAt, Restart
  <2> QED BY <2>2, <2>3, <2>4 DEF HostNext
<1>5. CASE ShutDown(p)
  <2>1. /\ UNCHANGED <<lease, paused, released, owner, owned, pending, healthy, cancelling>>
        /\ up[p] = "up" /\ up' = [up EXCEPT ![p] = "stopping"] /\ hb' = [hb EXCEPT ![p] = "off"]
        /\ CancelAll(p) /\ Fault
    BY <1>5 DEF ShutDown, storeVars
  <2>2. LateKnown'
    BY <1>1, <1>2, <1>5, GivenUpKnown DEF ShutDown
  <2>3. HostTyped' /\ LeaseTyped' /\ CountsTyped'
    BY <1>1, <1>3, <2>1, CancelAllHost DEF HostTyped, LeaseTyped, CountsTyped
  <2>4. \A q \in Proc : HostAt(q)'
    BY <1>1, <2>1, CancelAllHost DEF HostInv, HostTyped, HostAt
  <2> QED BY <2>2, <2>3, <2>4 DEF HostNext
<1>6. CASE Release(p)
  <2>1. owner[p] \in Ids /\ CountsTyped'
    BY <1>1, <1>6 DEF Release, CountsTyped
  <2>2. LeaseTyped' /\ LateKnown'
    <3>1. CASE ReleaseEffect(owner[p]) /\ UNCHANGED late
      BY <1>1, <2>1, <3>1, LeaseReleased DEF LateKnown
    <3>2. CASE GiveUp({ReleaseCall(owner[p])}) /\ UNCHANGED <<storeVars, released>>
      <4>1. ReleaseCall(owner[p]) \in Calls
        BY <2>1 DEF ReleaseCall, Calls
      <4>2. LateKnown'
        BY <1>1, <3>2, <4>1, FS_Singleton, GivenUpKnown
      <4> QED BY <1>1, <3>2, <4>2 DEF LeaseTyped, storeVars
    <3> QED BY <1>6, <3>1, <3>2 DEF Release
  <2> QED BY <1>6, <2>1, <2>2, ForgetHost DEF HostNext, Release
<1>7. CASE Crash(p)
  <2>1. LateKnown'
    BY <1>1, <1>2, <1>7, GivenUpKnown DEF Crash
  <2>2. LeaseTyped' /\ CountsTyped'
    BY <1>1, <1>3, <1>7 DEF Crash, LeaseTyped, CountsTyped, storeVars
  <2> QED BY <1>7, <2>1, <2>2, ForgetHost DEF HostNext, Crash
<1> QED BY <1>4, <1>5, <1>6, <1>7

(* Late calls, expiry and the operator. *)
LEMMA OtherHost ==
  ASSUME HostInv, ~IsFiniteSet(Ids),
         (\E c \in late : Execute(c)) \/ Expire \/ PauseAdmissions \/ UNCHANGED vars
  PROVE  HostNext
<1>1. HostTyped /\ LeaseTyped /\ LateKnown /\ CountsTyped
  BY DEF HostInv
<1>2. UNCHANGED <<up, hb, healthy, owner, owned, pending, demand, covers, job, cancelling>>
  BY DEF Execute, Expire, PauseAdmissions, vars, beatVars, recoveryVars
<1>3. HostTyped' /\ \A p \in Proc : HostAt(p)'
  BY <1>1, <1>2, OtherHosts DEF HostTyped
<1>4. ASSUME NEW c \in late, Execute(c) PROVE HostNext
  <2>1. c \in Calls /\ UNCHANGED <<paused, faults>> /\ late' \subseteq late
    BY <1>1, <1>4 DEF LateKnown, Execute
  <2>2. LateKnown' /\ CountsTyped'
    BY <1>1, <2>1, FewerLate DEF CountsTyped
  <2>3. ASSUME c.op = "lease", LeaseEffect(c.pn), UNCHANGED released PROVE LeaseTyped'
    BY <1>1, <2>1, <2>3, LeaseKept, CallParts
  <2>4. ASSUME c.op = "release", ReleaseEffect(c.owner) PROVE LeaseTyped'
    BY <2>1, <2>4, LeaseReleased, CallParts
  <2>5. ASSUME UNCHANGED <<lease, released>> PROVE LeaseTyped'
    BY <1>1, <2>5 DEF LeaseTyped
  <2>6. LeaseTyped'
    BY <1>4, <2>3, <2>4, <2>5 DEF Execute, StartEffect, EmitEffect
  <2> QED BY <1>3, <2>2, <2>6 DEF HostNext
<1>5. CASE Expire
  <2>1. lease' = [lease EXCEPT !.active = FALSE] /\ UNCHANGED <<released, late, paused>>
    BY <1>5 DEF Expire
  <2>2. faults' \in 0..MaxFaults
    BY <1>1, <1>5, ChatConstants DEF Expire, Fault, CountsTyped
  <2> QED BY <1>1, <1>3, <2>1, <2>2 DEF HostNext, LeaseTyped, LateKnown, CountsTyped
<1>6. CASE PauseAdmissions
  <2>1. UNCHANGED <<lease, released, late>> /\ paused' = ~paused
    BY <1>6 DEF PauseAdmissions, storeVars
  <2>2. faults' \in 0..MaxFaults
    BY <1>1, <1>6, ChatConstants DEF PauseAdmissions, Fault, CountsTyped
  <2> QED BY <1>1, <1>3, <2>1, <2>2 DEF HostNext, LeaseTyped, LateKnown, CountsTyped
<1>7. CASE UNCHANGED vars
  BY <1>1, <1>3, <1>7 DEF HostNext, LeaseTyped, LateKnown, CountsTyped, vars, storeVars
<1> QED BY <1>4, <1>5, <1>6, <1>7

(* What is known of hosts, ids and calls is known after every step. *)
LEMMA StepHost ==
  ASSUME HostInv, ~IsFiniteSet(Ids), [Next]_vars
  PROVE  HostInv'
<1>1. Typed'
  BY StepTyped DEF HostInv
<1>2. ASSUME NEW p \in Proc, NEW t \in Turns,
             \/ Accept(p, t) \/ AcceptUnowned(p, t)
             \/ JobMoves(p, t) \/ JobGivesUp(p, t) \/ StartLost(p, t)
             \/ RunEmit(p, t) \/ FinishLost(p, t)
             \/ Cancel(p, t) \/ CancelLost(p, t) \/ CancelOwned(p, t)
      PROVE  HostNext
  BY <1>2, TaskHost DEF TaskSteps
<1>3. ASSUME NEW p \in Proc,
             \/ BeatMoves(p) \/ BeatFails(p)
             \/ Restart(p) \/ ShutDown(p) \/ Release(p) \/ Crash(p)
      PROVE  HostNext
  BY <1>3, BeatHost, ProcessHost
<1>4. HostNext
  BY <1>2, <1>3, OtherHost DEF Next
<1> QED BY <1>1, <1>4 DEF HostInv, HostNext

LEMMA HostInit == Init => HostInv
<1> SUFFICES ASSUME Init PROVE HostInv
  OBVIOUS
<1>1. Typed
  BY TypedInit
<1>2. LateKnown /\ LeaseTyped /\ CountsTyped
  <2>1. IsFiniteSet({})
    BY FS_EmptySet
  <2>2. LateKnown /\ CountsTyped
    <3>1. late = {} /\ paused = FALSE /\ faults = 0
      BY DEF Init
    <3>2. LateKnown
      BY <2>1, <3>1 DEF LateKnown
    <3>3. MaxFaults \in Nat
      BY ChatConstants
    <3>4. 0 \in 0..MaxFaults
      BY <3>3
    <3> QED BY <3>1, <3>2, <3>4 DEF CountsTyped
  <2>3. LeaseTyped
    <3>1. lease = [owner |-> None, active |-> FALSE] /\ released = {}
      BY DEF Init
    <3>2. lease \in [owner : Ids \cup {None}, active : BOOLEAN]
      BY <3>1
    <3> QED BY <2>1, <3>1, <3>2 DEF LeaseTyped
  <2> QED BY <2>2, <2>3
<1>3. HostTyped
  BY DEF Init, HostTyped
<1>4. \A p \in Proc : HostAt(p)
  BY DEF Init, HostAt, NoJob
<1> QED BY <1>1, <1>2, <1>3, <1>4 DEF HostInv

(* The types of all that is kept: no fault and no late call brings the *)
(* store, a heartbeat or a task out of them (store.py, main.py, runtime.py) *)
THEOREM ChatTypes ==
  ASSUME ~IsFiniteSet(Ids)
  PROVE  Spec => []TypeOK
<1>1. HostInv /\ [Next]_vars => HostInv'
  BY StepHost
<1>2. HostInv => TypeOK
  <2> SUFFICES ASSUME HostInv PROVE TypeOK
    OBVIOUS
  <2>1. StoreTyped /\ HostTyped /\ LeaseTyped /\ LateKnown /\ CountsTyped
    BY DEF HostInv, Typed
  <2>2. job \in [Proc -> [Turns -> [stage : Stages, tries : Nat, sure : BOOLEAN,
                                   ending : Endings \cup {None}]]]
    BY DEF HostInv, Typed, JobsTyped, Jobs
  <2> HIDE DEF HostInv
  <2> QED BY <2>1, <2>2, Zenon DEF StoreTyped, HostTyped, LeaseTyped, LateKnown, CountsTyped, TypeOK
<1> QED BY <1>1, <1>2, HostInit, PTL DEF Spec

----------------------------------------------------------------------------
(* No owner that gave the lease back gets it again. *)

(* Exchanges somebody may still ask for. *)
Exchange(pn) ==
  \/ \E c \in late : c.op = "lease" /\ c.pn = pn
  \/ \E p \in Proc : pending[p] = pn

(* Some owners, the present one among them, none of whom gave the lease *)
(* back: whatever is still asked for leads from them to them. *)
NoWayBack ==
  \E S \in SUBSET (Ids \cup {None}) :
    /\ lease.owner \in S /\ S \cap released = {}
    /\ \A pn \in Pendings : Exchange(pn) /\ pn.from \in S => pn.to \in S

LEMMA NamedByExchange ==
  ASSUME HostInv, NEW pn \in Pendings, Exchange(pn)
  PROVE  pn.from \in Referenced /\ pn.to \in Referenced
<1>1. CASE \E c \in late : c.op = "lease" /\ c.pn = pn
  BY <1>1 DEF Referenced, OwnersOf
<1>2. CASE \E p \in Proc : pending[p] = pn
  <2>1. pn # None
    BY ChatConstants DEF Pendings
  <2> QED BY <1>2, <2>1 DEF Referenced
<1> QED BY <1>1, <1>2 DEF Exchange

(* The lease goes the way of an exchange, or stays where it is. *)
LEMMA WayKept ==
  ASSUME NoWayBack, released' = released,
         \A pn \in Pendings : Exchange(pn)' => Exchange(pn) \/ pn.from = pn.to,
         \/ lease'.owner = lease.owner
         \/ \E pn \in Pendings : Exchange(pn) /\ lease.owner = pn.from /\ lease'.owner = pn.to
  PROVE  NoWayBack'
<1>1. PICK S \in SUBSET (Ids \cup {None}) :
        /\ lease.owner \in S /\ S \cap released = {}
        /\ \A pn \in Pendings : Exchange(pn) /\ pn.from \in S => pn.to \in S
  BY DEF NoWayBack
<1>2. lease'.owner \in S /\ S \cap released' = {}
  BY <1>1
<1>3. \A pn \in Pendings : Exchange(pn)' /\ pn.from \in S => pn.to \in S
  BY <1>1
<1> QED BY <1>2, <1>3 DEF NoWayBack

(* An exchange to a fresh owner leads to no owner that gave the lease back. *)
LEMMA WayPrepared ==
  ASSUME HostInv, ~IsFiniteSet(Ids), NoWayBack, released' = released, lease' = lease,
         \A pn \in Pendings : Exchange(pn)' => Exchange(pn) \/ pn.to = Fresh
  PROVE  NoWayBack'
<1>1. PICK S \in SUBSET (Ids \cup {None}) :
        /\ lease.owner \in S /\ S \cap released = {}
        /\ \A pn \in Pendings : Exchange(pn) /\ pn.from \in S => pn.to \in S
  BY DEF NoWayBack
<1> DEFINE T == S \cup {Fresh}
<1>2. Fresh \in Ids /\ Fresh \notin Referenced /\ Fresh \notin released
  BY FreshIsNew DEF Referenced
<1>3. T \in SUBSET (Ids \cup {None}) /\ lease'.owner \in T /\ T \cap released' = {}
  BY <1>1, <1>2
<1>4. ASSUME NEW pn \in Pendings, Exchange(pn)', pn.from \in T PROVE pn.to \in T
  <2>1. CASE pn.to = Fresh
    BY <2>1
  <2>2. CASE Exchange(pn)
    BY <1>1, <1>2, <1>4, <2>2, NamedByExchange
  <2> QED BY <1>4, <2>1, <2>2
<1> HIDE DEF T
<1> QED BY <1>3, <1>4 DEF NoWayBack

(* Nothing leads from the row a released lease keeps. *)
LEMMA WayReleased ==
  ASSUME HostInv, ~IsFiniteSet(Ids), NoWayBack, NEW o \in Ids, ReleaseEffect(o),
         \A pn \in Pendings : Exchange(pn)' => Exchange(pn)
  PROVE  NoWayBack'
<1>1. CASE lease' = [owner |-> Fresh, active |-> FALSE] /\ released' = released \cup {o} /\ lease.owner = o
  <2>1. Fresh \in Ids /\ Fresh \notin Referenced /\ Fresh \notin released /\ Fresh # o
    BY <1>1, FreshIsNew DEF Referenced
  <2>2. {Fresh} \in SUBSET (Ids \cup {None}) /\ lease'.owner \in {Fresh} /\ {Fresh} \cap released' = {}
    BY <1>1, <2>1
  <2>3. \A pn \in Pendings : Exchange(pn)' => pn.from \notin {Fresh}
    BY <2>1, NamedByExchange
  <2> QED BY <2>2, <2>3 DEF NoWayBack
<1>2. CASE UNCHANGED <<lease, released>>
  BY <1>2, WayKept
<1> QED BY <1>1, <1>2 DEF ReleaseEffect

(* Calls of turns exchange nothing. *)
LEMMA WaySame ==
  ASSUME NoWayBack, UNCHANGED <<released, pending>>, lease'.owner = lease.owner, late' \ late \subseteq TurnCalls
  PROVE  NoWayBack'
<1>1. \A c \in TurnCalls : c.op # "lease"
  BY DEF TurnCalls
<1>2. \A pn \in Pendings : Exchange(pn)' => Exchange(pn)
  BY <1>1 DEF Exchange
<1> QED BY <1>2, WayKept

WayInv == HostInv /\ NoWayBack

(* The steps of the heartbeat, and the calls it gives up. *)
LEMMA WayBeat ==
  ASSUME WayInv, ~IsFiniteSet(Ids), NEW p \in Proc, BeatMoves(p) \/ BeatFails(p)
  PROVE  NoWayBack'
<1>1. HostInv /\ NoWayBack /\ HostTyped
  BY DEF WayInv, HostInv
<1>2. CASE Beat(p)
  <2>1. UNCHANGED <<lease, released, pending>>
    BY <1>2 DEF Beat, storeVars, hostVars
  <2>2. late' \ late \subseteq TurnCalls
    BY <1>1, <1>2, CancelledCalls DEF Beat, GiveUp
  <2> QED BY <1>1, <2>1, <2>2, WaySame
<1>3. ASSUME UNCHANGED <<lease, released, late>>,
             (\E from, claim : Prepare(p, from, claim)) \/ UNCHANGED pending
      PROVE  NoWayBack'
  <2>1. CASE UNCHANGED pending
    BY <1>1, <1>3, <2>1, WaySame
  <2>2. CASE \E from, claim : Prepare(p, from, claim)
    <3>1. PICK from, claim : Prepare(p, from, claim)
      BY <2>2
    <3> DEFINE new == [from |-> from, to |-> Fresh, claim |-> claim]
    <3>2. pending' = [pending EXCEPT ![p] = new] /\ new.to = Fresh
      BY <3>1 DEF Prepare
    <3> HIDE DEF new
    <3>3. \A q \in Proc : pending'[q] = pending[q] \/ pending'[q] = new
      BY <1>1, <3>2 DEF HostTyped
    <3>4. \A pn \in Pendings : Exchange(pn)' => Exchange(pn) \/ pn.to = Fresh
      BY <1>3, <3>2, <3>3 DEF Exchange
    <3> QED BY <1>1, <1>3, <3>4, WayPrepared
  <2> QED BY <1>3, <2>1, <2>2
<1>4. CASE Gathered(p)
  BY <1>3, <1>4 DEF Gathered, storeVars, hostVars
<1>5. CASE Inspect(p)
  BY <1>3, <1>5 DEF Inspect, storeVars, hostVars
<1>6. CASE Lease(p)
  <2>1. pending[p] \in Pendings /\ Exchange(pending[p])
    BY <1>1, <1>6 DEF HostInv, HostTyped, HostAt, Lease, Exchange
  <2>2. \/ lease'.owner = lease.owner
        \/ lease.owner = pending[p].from /\ lease'.owner = pending[p].to
    BY <1>6 DEF Lease, LeaseEffect, LeaseAnswer
  <2>3. \A q \in Proc : pending'[q] \in {pending[q], None}
    BY <1>1, <1>6 DEF Lease, HostTyped
  <2>4. \A pn \in Pendings : Exchange(pn)' => Exchange(pn)
    <3>1. late' = late /\ None \notin Pendings
      BY <1>6, ChatConstants DEF Lease, Pendings
    <3> QED BY <2>3, <3>1 DEF Exchange
  <2>5. released' = released
    BY <1>6 DEF Lease, hostVars
  <2> QED BY <1>1, <2>1, <2>2, <2>4, <2>5, WayKept
<1>7. CASE Renew(p)
  <2>1. lease'.owner = lease.owner /\ UNCHANGED <<released, pending, late>>
    BY <1>7 DEF Renew, Renewal, LeaseEffect, LeaseAnswer, hostVars
  <2> QED BY <1>1, <2>1, WaySame
<1>8. CASE BeatFails(p)
  <2>1. UNCHANGED <<lease, released, pending>> /\ late' \ late \subseteq HeartbeatCalls(p)
    BY <1>8 DEF BeatFails, GiveUp, storeVars, hostVars
  <2>2. \A pn \in Pendings : Exchange(pn)' => Exchange(pn) \/ pn.from = pn.to
    BY <1>1, <2>1, BeatCalls DEF Exchange
  <2> QED BY <1>1, <2>1, <2>2, WayKept
<1> QED BY <1>2, <1>4, <1>5, <1>6, <1>7, <1>8 DEF BeatMoves

(* A process begins, ends or dies. *)
LEMMA WayProcess ==
  ASSUME WayInv, ~IsFiniteSet(Ids), NEW p \in Proc,
         Restart(p) \/ ShutDown(p) \/ Release(p) \/ Crash(p)
  PROVE  NoWayBack'
<1>1. HostInv /\ NoWayBack /\ HostTyped /\ None \notin Pendings
  BY ChatConstants DEF WayInv, HostInv, Pendings
<1> DEFINE ended == HeartbeatCalls(p) \cup CallsOf(p, Turns)
<1>2. \A c \in ended : c.op = "lease" => \/ c.pn = pending[p] /\ pending[p] # None
                                         \/ c.pn.from = c.pn.to
  <2>1. \A c \in CallsOf(p, Turns) : c.op # "lease"
    BY <1>1, CancelledCalls DEF TurnCalls
  <2> QED BY <1>1, <2>1, BeatCalls
<1>3. ASSUME UNCHANGED <<lease, released>>, late' \ late \subseteq ended,
             \A q \in Proc : pending'[q] \in {pending[q], None}
      PROVE  NoWayBack'
  <2>1. \A pn \in Pendings : Exchange(pn)' => Exchange(pn) \/ pn.from = pn.to
    BY <1>1, <1>2, <1>3 DEF Exchange
  <2> QED BY <1>1, <1>3, <2>1, WayKept
<1>4. CASE Restart(p)
  <2>1. UNCHANGED <<lease, released, pending, late>>
    BY <1>4 DEF Restart, storeVars
  <2> QED BY <1>1, <2>1, WaySame
<1>5. CASE ShutDown(p) \/ Crash(p)
  <2>1. UNCHANGED <<lease, released>> /\ late' \ late \subseteq ended
    BY <1>5 DEF ShutDown, Crash, GiveUp, storeVars
  <2>2. \A q \in Proc : pending'[q] \in {pending[q], None}
    BY <1>1, <1>5 DEF ShutDown, Crash, Forget, HostTyped
  <2> QED BY <1>3, <2>1, <2>2
<1>6. CASE Release(p)
  <2>1. \A q \in Proc : pending'[q] \in {pending[q], None}
    BY <1>1, <1>6 DEF Release, Forget, HostTyped
  <2>2. \A c \in late' \ late : c.op = "release"
    BY <1>6 DEF Release, GiveUp, ReleaseCall
  <2>3. \A pn \in Pendings : Exchange(pn)' => Exchange(pn)
    BY <1>1, <2>1, <2>2 DEF Exchange
  <2>4. owner[p] \in Ids
    BY <1>1, <1>6 DEF HostInv, HostAt, Release
  <2>5. CASE ReleaseEffect(owner[p])
    BY <1>1, <2>3, <2>4, <2>5, WayReleased
  <2>6. CASE UNCHANGED <<storeVars, released>>
    BY <1>1, <2>3, <2>6, WayKept DEF storeVars
  <2> QED BY <1>6, <2>5, <2>6 DEF Release
<1> QED BY <1>4, <1>5, <1>6

(* Late calls, expiry and the operator. *)
LEMMA WayOther ==
  ASSUME WayInv, ~IsFiniteSet(Ids),
         (\E c \in late : Execute(c)) \/ Expire \/ PauseAdmissions \/ UNCHANGED vars
  PROVE  NoWayBack'
<1>1. HostInv /\ NoWayBack /\ late \subseteq Calls
  BY DEF WayInv, HostInv, LateKnown
<1>2. CASE Expire \/ PauseAdmissions \/ UNCHANGED vars
  <2>1. UNCHANGED <<released, pending, late>> /\ lease'.owner = lease.owner
    BY <1>1, <1>2 DEF HostInv, LeaseTyped, Expire, PauseAdmissions, vars, storeVars, beatVars
  <2> QED BY <1>1, <2>1, WaySame
<1>3. ASSUME NEW c \in late, Execute(c) PROVE NoWayBack'
  <2>1. late' \subseteq late /\ UNCHANGED pending
    BY <1>3 DEF Execute, beatVars
  <2>2. \A pn \in Pendings : Exchange(pn)' => Exchange(pn)
    BY <2>1 DEF Exchange
  <2>3. ASSUME UNCHANGED <<lease, released>> PROVE NoWayBack'
    BY <1>1, <2>2, <2>3, WayKept
  <2>4. ASSUME c.op = "lease", LeaseEffect(c.pn), UNCHANGED released PROVE NoWayBack'
    <3>1. c.pn \in Pendings /\ Exchange(c.pn)
      BY <1>1, <2>4, CallParts DEF Exchange
    <3>2. lease'.owner = lease.owner \/ (lease.owner = c.pn.from /\ lease'.owner = c.pn.to)
      BY <2>4 DEF LeaseEffect, LeaseAnswer
    <3> QED BY <1>1, <2>2, <2>4, <3>1, <3>2, WayKept
  <2>5. ASSUME c.op = "release", ReleaseEffect(c.owner) PROVE NoWayBack'
    BY <1>1, <2>2, <2>5, CallParts, WayReleased
  <2> QED BY <1>3, <2>3, <2>4, <2>5 DEF Execute, StartEffect, EmitEffect
<1> QED BY <1>2, <1>3

(* NoResurrection: a claim or a rotation of an owner that is gone, however *)
(* late the store runs it, never puts the lease back into the hands of one *)
(* that gave it back (lease and release of store.py). *)
THEOREM ReleasedForGood ==
  ASSUME ~IsFiniteSet(Ids)
  PROVE  Spec => []NoResurrection
<1>1. Init => WayInv
  <2> SUFFICES ASSUME Init PROVE NoWayBack
    BY HostInit DEF WayInv
  <2>1. \A pn \in Pendings : ~Exchange(pn)
    BY ChatConstants DEF Init, Exchange, Pendings
  <2>2. {None} \in SUBSET (Ids \cup {None}) /\ lease.owner \in {None} /\ {None} \cap released = {}
    BY DEF Init
  <2> QED BY <2>1, <2>2 DEF NoWayBack
<1>2. WayInv /\ [Next]_vars => WayInv'
  <2> SUFFICES ASSUME WayInv, [Next]_vars PROVE NoWayBack'
    BY StepHost DEF WayInv
  <2>1. ASSUME NEW p \in Proc, NEW t \in Turns, TaskSteps(p, t) PROVE NoWayBack'
    <3>1. UNCHANGED HeldVars /\ late' \ late \subseteq TurnCalls
      BY <2>1, TaskLeaves, TaskGivesUp DEF WayInv
    <3> QED BY <3>1, WaySame DEF WayInv, HeldVars
  <2>2. ASSUME NEW p \in Proc,
               \/ BeatMoves(p) \/ BeatFails(p)
               \/ Restart(p) \/ ShutDown(p) \/ Release(p) \/ Crash(p)
        PROVE  NoWayBack'
    BY <2>2, WayBeat, WayProcess
  <2> QED BY <2>1, <2>2, WayOther DEF Next, TaskSteps
<1>3. WayInv => NoResurrection
  BY DEF WayInv, NoWayBack, NoResurrection
<1> QED BY <1>1, <1>2, <1>3, PTL DEF Spec

-----------------------------------------------------------------------------
(* The tasks, for owner ids that do not run out: every turn in processing *)
(* has one if starts run before the later attempts of their task *)
(* (Overtaking = FALSE); a turn that was rejected is not in processing if *)
(* none of its starts is left; and a turn is generated once, either way. *)

(* Owners. *)

(* No two processes have one owner id; an id that is asked for is nobody's *)
(* yet: no process has it, no start names it, and nobody else asks for it. *)
Apart ==
  /\ \A p, q \in Proc : p # q /\ owner[p] = owner[q] => owner[p] = None
  /\ \A p \in Proc : pending[p] # None =>
       /\ \A q \in Proc : owner[q] # pending[p].to
       /\ \A q \in Proc : pending[q] # None /\ q # p => pending[q].to # pending[p].to
       /\ \A c \in late : c.op = "start" => c.owner # pending[p].to

(* Processes that are not down have owners of their own. *)
LEMMA OwnersDiffer ==
  ASSUME HostInv, Apart, NEW p \in Proc, NEW q \in Proc, p # q, up[p] # "down"
  PROVE  owner[p] # owner[q]
<1>1. owner[p] # None
  BY ChatConstants DEF HostInv, HostAt
<1> QED BY <1>1 DEF Apart

(* An owner that is asked for is not None. *)
LEMMA AskedIds ==
  ASSUME HostInv, NEW q \in Proc, pending[q] # None
  PROVE  pending[q] \in Pendings /\ pending[q].to \in Ids /\ pending[q].to # None
<1>1. pending[q] \in Pendings
  BY DEF HostInv, HostTyped
<1>2. pending[q].to \in Ids
  BY <1>1 DEF Pendings
<1> QED BY <1>1, <1>2, ChatConstants

(* Nothing that is known names a fresh id. *)
LEMMA FreshNamesNone ==
  ASSUME HostInv, ~IsFiniteSet(Ids)
  PROVE  /\ Fresh # lease.owner /\ Fresh # None /\ Fresh \in Ids
         /\ \A q \in Proc : Fresh # owner[q] /\ (pending[q] # None => Fresh # pending[q].to)
         /\ \A c \in late : c.op = "start" => c.owner # Fresh
<1>1. Fresh \in Ids /\ Fresh \notin Referenced
  BY FreshIsNew
<1>2. \A c \in late : c.op = "start" => c.owner # Fresh
  BY <1>1 DEF Referenced, OwnersOf
<1>3. \A q \in Proc : Fresh # owner[q] /\ (pending[q] # None => Fresh # pending[q].to)
  BY <1>1 DEF Referenced
<1>4. Fresh # lease.owner
  BY <1>1 DEF Referenced
<1> QED BY <1>1, <1>2, <1>3, <1>4, ChatConstants

(* A call a process gives up: of its heartbeat, or of a task of its own, *)
(* with its owner id; its lease is given back when it stops. *)
OwnCall(p, c) ==
  /\ up[p] # "down"
  /\ c.op # "lease" => c.owner = owner[p]
  /\ c.op = "start" => job[p][c.turn].stage = "start"
  /\ c.op = "emit" /\ c.kind = "delta" => job[p][c.turn].stage = "run"
  /\ c.op = "release" => Forget(p)

(* The calls of cancelled tasks are its own. *)
LEMMA CallsOwn ==
  ASSUME HostInv, NEW p \in Proc, NEW ts \in SUBSET Turns, NEW c \in CallsOf(p, ts)
  PROVE  OwnCall(p, c)
<1>1. PICK t \in ts : \/ job[p][t].stage = "start" /\ c = StartCallOf(p, t)
                      \/ job[p][t].stage = "run" /\ c = EmitCall(t, owner[p], "delta")
                      \/ job[p][t].stage = "finish" /\ c = FinishCallOf(p, t)
  BY DEF CallsOf
<1>2. up[p] # "down" /\ (job[p][t].stage = "finish" => job[p][t].ending # "delta")
  BY <1>1 DEF HostInv, HostAt, Typed, JobsTyped, Endings
<1>3. CASE job[p][t].stage = "start" /\ c = StartCallOf(p, t)
  BY <1>2, <1>3 DEF OwnCall, StartCallOf, StartCall
<1>4. CASE job[p][t].stage = "run" /\ c = EmitCall(t, owner[p], "delta")
  BY <1>2, <1>4 DEF OwnCall, EmitCall
<1>5. CASE job[p][t].stage = "finish" /\ c = FinishCallOf(p, t)
  BY <1>2, <1>5 DEF OwnCall, FinishCallOf, EmitCall
<1> QED BY <1>1, <1>3, <1>4, <1>5

(* Whatever is given up, is given up by its own process. *)
LEMMA GivenUpOwn ==
  ASSUME HostInv, [Next]_vars, NEW c \in late' \ late
  PROVE  \E p \in Proc : OwnCall(p, c)
<1>1. ASSUME NEW p \in Proc, GiveUp(HeartbeatCalls(p) \cup CallsOf(p, Turns)), up[p] # "down"
      PROVE  OwnCall(p, c)
  <2>1. c \in HeartbeatCalls(p) => OwnCall(p, c)
    BY <1>1, BeatCalls DEF OwnCall
  <2> QED BY <1>1, <2>1, CallsOwn DEF GiveUp
<1>2. ASSUME NEW p \in Proc, NEW t \in Turns, TaskSteps(p, t) PROVE OwnCall(p, c)
  <2>1. job[p][t].stage # "none" => up[p] # "down"
    BY DEF HostInv, HostAt
  <2>2. CASE StartLost(p, t)
    BY <2>1, <2>2 DEF StartLost, GiveUp, OwnCall, StartCallOf, StartCall
  <2>3. CASE FinishLost(p, t)
    <3>1. job[p][t].ending # "delta"
      BY <2>3 DEF FinishLost, HostInv, Typed, JobsTyped, Endings
    <3> QED BY <2>1, <2>3, <3>1 DEF FinishLost, GiveUp, OwnCall, FinishCallOf, EmitCall
  <2>4. CASE CancelLost(p, t)
    BY <2>4 DEF CancelLost, GiveUp, OwnCall, EmitCall
  <2>5. CASE CancelOwned(p, t)
    BY <2>5, CallsOwn DEF CancelOwned, GiveUp
  <2>6. CASE \/ Accept(p, t) \/ AcceptUnowned(p, t) \/ JobMoves(p, t) \/ JobGivesUp(p, t)
             \/ RunEmit(p, t) \/ Cancel(p, t)
    BY <2>6 DEF Accept, AcceptUnowned, JobMoves, JobGivesUp, RunEmit, Cancel, JobExists,
                JobConfigured, StartAnswered, RunEnds, FinishAnswered, Closed
  <2> QED BY <1>2, <2>2, <2>3, <2>4, <2>5, <2>6 DEF TaskSteps
<1>3. ASSUME NEW p \in Proc, BeatMoves(p) \/ BeatFails(p) PROVE OwnCall(p, c)
  <2>1. up[p] # "down"
    BY <1>3 DEF HostInv, HostAt, BeatMoves, Beat, Gathered, Inspect, Lease, Renew, BeatFails
  <2>2. CASE Beat(p)
    BY <2>2, CallsOwn DEF Beat, GiveUp
  <2>3. CASE BeatFails(p)
    BY <2>1, <2>3, BeatCalls DEF BeatFails, GiveUp, OwnCall
  <2> QED BY <1>3, <2>2, <2>3 DEF BeatMoves, Gathered, Inspect, Lease, Renew
<1>4. ASSUME NEW p \in Proc, Restart(p) \/ ShutDown(p) \/ Release(p) \/ Crash(p) PROVE OwnCall(p, c)
  <2>1. CASE Release(p)
    BY <2>1 DEF Release, GiveUp, OwnCall, ReleaseCall
  <2> QED BY <1>1, <1>4, <2>1 DEF Restart, ShutDown, Crash
<1> QED BY <1>2, <1>3, <1>4 DEF Next, TaskSteps, Execute, Expire, PauseAdmissions, vars

(* Owners stay apart while none is given out. *)
LEMMA ApartKept ==
  ASSUME Apart,
         \A q \in Proc : owner'[q] \in {owner[q], None},
         \A q \in Proc : pending'[q] \in {pending[q], None},
         \A c \in late' \ late : c.op = "start" => \E q \in Proc : c.owner = owner[q],
         \A q \in Proc : pending[q] # None => pending[q].to # None
  PROVE  Apart'
<1>1. \A p, q \in Proc : p # q /\ owner'[p] = owner'[q] => owner'[p] = None
  BY DEF Apart
<1>2. ASSUME NEW p \in Proc, pending'[p] # None
      PROVE  /\ \A q \in Proc : owner'[q] # pending'[p].to
             /\ \A q \in Proc : pending'[q] # None /\ q # p => pending'[q].to # pending'[p].to
             /\ \A c \in late' : c.op = "start" => c.owner # pending'[p].to
  <2>1. pending'[p] = pending[p] /\ pending[p] # None
    BY <1>2
  <2> QED BY <2>1 DEF Apart
<1> QED BY <1>1, <1>2 DEF Apart

(* Owner ids are given out by Prepare and Restart, and to whom they were *)
(* prepared for. *)
LEMMA StepApart ==
  ASSUME HostInv, Apart, ~IsFiniteSet(Ids), [Next]_vars
  PROVE  Apart'
<1>1. HostTyped
  BY DEF HostInv
<1>2. \A c \in late' \ late : c.op = "start" => \E q \in Proc : c.owner = owner[q]
  BY GivenUpOwn DEF OwnCall
<1>3. ASSUME \A q \in Proc : owner'[q] \in {owner[q], None},
             \A q \in Proc : pending'[q] \in {pending[q], None}
      PROVE  Apart'
  BY <1>2, <1>3, ApartKept, AskedIds
<1>4. /\ \A q \in Proc : Fresh # owner[q] /\ (pending[q] # None => Fresh # pending[q].to)
      /\ \A c \in late : c.op = "start" => c.owner # Fresh
  BY FreshNamesNone
<1>5. ASSUME NEW p \in Proc, NEW t \in Turns, TaskSteps(p, t) PROVE Apart'
  BY <1>3, <1>5, TaskLeaves DEF HeldVars
<1>6. ASSUME NEW p \in Proc, Gathered(p) \/ Inspect(p) PROVE Apart'
  <2>1. /\ UNCHANGED <<owner, late>>
        /\ \A q \in Proc : q # p => pending'[q] = pending[q]
        /\ pending'[p] = pending[p] \/ pending'[p].to = Fresh
    BY <1>1, <1>6 DEF Gathered, Inspect, Prepare, HostTyped
  <2>2. CASE pending'[p] = pending[p]
    BY <2>1, <2>2 DEF Apart
  <2>3. CASE pending'[p].to = Fresh
    BY <1>4, <2>1, <2>3 DEF Apart
  <2> QED BY <2>1, <2>2, <2>3
<1>7. ASSUME NEW p \in Proc, Lease(p) PROVE Apart'
  <2> DEFINE to == pending[p].to
  <2>1. pending[p] # None /\ late' = late
    BY <1>7 DEF Lease, HostInv, HostAt
  <2>2. /\ pending'[p] = None
        /\ owner'[p] = to \/ owner'[p] = owner[p]
        /\ \A q \in Proc : q # p => owner'[q] = owner[q] /\ pending'[q] = pending[q]
    BY <1>1, <1>7 DEF Lease, HostTyped
  <2>3. \A q \in Proc : owner[q] # to
    BY <2>1 DEF Apart
  <2>4. \A q, r \in Proc : q # r /\ owner'[q] = owner'[r] => owner'[q] = None
    BY <2>2, <2>3 DEF Apart
  <2>5. \A q \in Proc : pending'[q] # None => q # p /\ pending'[q] = pending[q] /\ pending[q].to # to
    BY <2>1, <2>2 DEF Apart
  <2>6. \A q, r \in Proc : pending'[q] # None => owner'[r] # pending'[q].to
    BY <2>2, <2>5 DEF Apart
  <2>7. \A q \in Proc : pending'[q] # None =>
          /\ \A r \in Proc : pending'[r] # None /\ r # q => pending'[r].to # pending'[q].to
          /\ \A c \in late' : c.op = "start" => c.owner # pending'[q].to
    BY <2>1, <2>5 DEF Apart
  <2> QED BY <2>4, <2>6, <2>7 DEF Apart
<1>8. ASSUME NEW p \in Proc, Beat(p) \/ Renew(p) \/ BeatFails(p) PROVE Apart'
  BY <1>3, <1>8 DEF Beat, Renew, BeatFails
<1>9. ASSUME NEW p \in Proc, Restart(p) PROVE Apart'
  <2>1. /\ UNCHANGED <<late, pending>> /\ owner'[p] = Fresh
        /\ \A q \in Proc : q # p => owner'[q] = owner[q]
    BY <1>1, <1>9 DEF Restart, HostTyped
  <2>2. \A q, r \in Proc : q # r /\ owner'[q] = owner'[r] => owner'[q] = None
    BY <1>4, <2>1 DEF Apart
  <2>3. \A q, r \in Proc : pending[q] # None => owner'[r] # pending[q].to
    BY <1>4, <2>1 DEF Apart
  <2> QED BY <2>1, <2>2, <2>3 DEF Apart
<1>10. ASSUME NEW p \in Proc, ShutDown(p) \/ Release(p) \/ Crash(p) PROVE Apart'
  BY <1>1, <1>3, <1>10 DEF ShutDown, Release, Crash, Forget, HostTyped
<1>11. CASE (\E c \in late : Execute(c)) \/ Expire \/ PauseAdmissions \/ UNCHANGED vars
  BY <1>3, <1>11 DEF Execute, Expire, PauseAdmissions, vars, beatVars
<1> QED BY <1>5, <1>6, <1>7, <1>8, <1>9, <1>10, <1>11 DEF Next, TaskSteps, BeatMoves

----------------------------------------------------------------------------
(* Tasks. *)

(* A task that has asked for its turn and has not ended it. *)
Answering == {"start", "run", "finish"}

(* A start given up is accounted for: its turn exists, its task still asks *)
(* or a recovery is due. *)
StartsKnown(p) ==
  ~Overtaking => \A c \in late : c.op = "start" /\ c.owner = owner[p] /\ status[c.turn] = None =>
    job[p][c.turn].stage = "start" \/ demand[p]

(* A task that was turned down for good. *)
TurnedDown(p, t) == job[p][t].stage = "rejected" /\ (job[p][t].sure \/ ~Overtaking)

(* It left no start and no turn of its owner. *)
RejectedAt(p) ==
  \A t \in Turns : TurnedDown(p, t) =>
    StartCallOf(p, t) \notin late /\ (lease.owner = owner[p] => status[t] # "PROCESSING")

AnsweredAt(p) ==
  ~Overtaking /\ up[p] = "up" /\ healthy[p] /\ lease.owner = owner[p] =>
    \A t \in Processing : job[p][t].stage \in Answering

(* What a process knows of its recovery and of what it cancels, and that *)
(* an owner it asks for has no turns. *)
BeatAt(p) ==
  /\ hb[p] = "renew" => healthy[p] \/ demand[p]
  /\ up[p] # "stopping" /\ healthy[p] => ~demand[p]
  /\ \A t \in cancelling[p] : status[t] \in Endings
  /\ pending[p] # None /\ lease.owner = pending[p].to => Processing = {}

Accounted(p) == StartsKnown(p) /\ RejectedAt(p) /\ AnsweredAt(p) /\ BeatAt(p)

StrayInv == HostInv /\ Apart /\ \A p \in Proc : Accounted(p)

----------------------------------------------------------------------------
(* What a step of a task does to its turn, and to nothing else. *)

TurnAt(t) ==
  /\ \A u \in Turns : u # t => status'[u] = status[u]
  /\ status[t] \in Endings => status'[t] \in Endings
  /\ status[t] # None => status'[t] # None

TaskAt(p, t) ==
  /\ TurnAt(t)
  /\ status'[t] = "PROCESSING" =>
       status[t] = "PROCESSING" \/ (Guard(owner[p]) /\ up[p] # "down" /\ job'[p][t].stage = "run")
  /\ job[p][t].stage \in Answering /\ status'[t] = "PROCESSING" =>
       job'[p][t].stage \in Answering \/ ~healthy'[p]
  /\ ~Overtaking /\ job[p][t].stage = "start" =>
       \/ job'[p][t].stage = "start" \/ demand'[p] \/ status'[t] # None
       \/ StartCallOf(p, t) \notin late'
  /\ \A c \in late' \ late : c.op = "start" => c = StartCallOf(p, t) /\ job[p][t].stage = "start"
  /\ (job'[p][t].stage = "rejected" /\ (job'[p][t].sure \/ ~Overtaking)) =>
       \/ job'[p][t] = job[p][t]
       \/ StartCallOf(p, t) \notin late' /\ status'[t] # "PROCESSING"
  /\ \A q \in Proc : q # p => cancelling'[q] = cancelling[q]
  /\ \A u \in cancelling'[p] \ cancelling[p] : u = t /\ status'[t] \in Endings

(* What it does to the health of its process. *)
HealthAt(p) ==
  /\ \A q \in Proc : q # p => healthy'[q] = healthy[q] /\ demand'[q] = demand[q]
  /\ demand[p] => demand'[p]
  /\ healthy'[p] => healthy[p] /\ demand'[p] = demand[p]
  /\ healthy[p] => healthy'[p] \/ demand'[p]

LEMMA TaskHealth ==
  ASSUME HostInv, NEW p \in Proc, NEW t \in Turns, TaskSteps(p, t)
  PROVE  HealthAt(p)
<1>1. CASE UNCHANGED recoveryVars
  BY <1>1 DEF recoveryVars, HealthAt
<1>2. CASE RequireRecovery(p)
  BY <1>2 DEF RequireRecovery, HealthAt, HostInv, HostTyped
<1> QED BY <1>1, <1>2, TaskWrites

(* A demand for a recovery, seen from the process. *)
LEMMA Required ==
  ASSUME HostInv, NEW p \in Proc, RequireRecovery(p)
  PROVE  ~healthy'[p] /\ demand'[p]
  BY DEF RequireRecovery, HostInv, HostTyped

(* emit. *)
LEMMA EmitAt ==
  ASSUME StoreTyped, NEW t \in Turns, NEW o, NEW k \in Kinds, EmitEffect(t, o, k)
  PROVE  /\ TurnAt(t)
         /\ status'[t] = "PROCESSING" => status[t] = "PROCESSING"
         /\ EmitAnswer(t, o) \in {"ok", "over"} /\ k \in Endings => status'[t] \in Endings
         /\ EmitAnswer(t, o) = "over" => status'[t] \in Endings
<1>1. /\ "PROCESSING" \notin Endings /\ None \notin Endings
      /\ None # "PROCESSING" /\ \A e \in Endings : e \notin {"PROCESSING"} /\ e # None
  BY ChatConstants DEF Endings
<1>2. /\ EmitAnswer(t, o) = "ok" => status[t] = "PROCESSING"
      /\ EmitAnswer(t, o) = "over" => status[t] \in Endings
  BY <1>1 DEF EmitAnswer, StoreTyped, Endings
<1>3. CASE EmitAnswer(t, o) = "ok"
  <2>1. status' = IF k \in Endings THEN [status EXCEPT ![t] = k] ELSE status
    BY <1>3 DEF EmitEffect, WriteEvent
  <2> QED BY <1>1, <1>2, <1>3, <2>1 DEF StoreTyped, TurnAt
<1>4. CASE EmitAnswer(t, o) # "ok"
  <2>1. status' = status
    BY <1>4 DEF EmitEffect
  <2> QED BY <1>2, <1>4, <2>1 DEF TurnAt
<1> QED BY <1>3, <1>4

(* start. *)
LEMMA StartAt ==
  ASSUME StoreTyped, NEW t \in Turns, NEW o, StartEffect(t, o)
  PROVE  /\ TurnAt(t)
         /\ StartAnswer(t, o) = "made" => Guard(o) /\ status[t] = None /\ status'[t] = "PROCESSING"
         /\ StartAnswer(t, o) # "made" => status' = status
         /\ StartAnswer(t, o) = "rejected" => status[t] = None
         /\ StartAnswer(t, o) = "existing" => status[t] # None
<1>1. None \notin Endings /\ None # "PROCESSING"
  BY ChatConstants DEF Endings
<1>2. /\ StartAnswer(t, o) = "made" => Guard(o) /\ status[t] = None
      /\ StartAnswer(t, o) = "rejected" => status[t] = None
      /\ StartAnswer(t, o) = "existing" => status[t] # None
  BY <1>1 DEF StartAnswer
<1>3. CASE StartAnswer(t, o) = "made"
  <2>1. status' = [status EXCEPT ![t] = "PROCESSING"]
    BY <1>3 DEF StartEffect
  <2> QED BY <1>1, <1>2, <1>3, <2>1 DEF StoreTyped, TurnAt
<1>4. CASE StartAnswer(t, o) # "made"
  <2>1. status' = status
    BY <1>4 DEF StartEffect
  <2> QED BY <1>2, <1>4, <2>1 DEF TurnAt
<1> QED BY <1>3, <1>4

(* The stage of a task that is given a record. *)
LEMMA GivenStage ==
  ASSUME JobsTyped, NEW p \in Proc, NEW t \in Turns
  PROVE  /\ JobEnds(p, t) => job'[p][t].stage = "none"
         /\ \A b \in BOOLEAN : job' = [job EXCEPT ![p][t] = RejectedJob(b)] =>
              job'[p][t].stage = "rejected" /\ job'[p][t].sure = b
         /\ job' = [job EXCEPT ![p][t] = [NoJob EXCEPT !.stage = "run"]] => job'[p][t].stage = "run"
         /\ job' = [job EXCEPT ![p][t] = [NoJob EXCEPT !.stage = "exists"]] => job'[p][t].stage = "exists"
<1>1. \A j : job' = [job EXCEPT ![p][t] = j] => job'[p][t] = j
  BY DEF JobsTyped
<1>2. /\ NoJob.stage = "none"
      /\ \A b \in BOOLEAN : RejectedJob(b).stage = "rejected" /\ RejectedJob(b).sure = b
  BY JobRecords
<1>3. [NoJob EXCEPT !.stage = "run"].stage = "run" /\ [NoJob EXCEPT !.stage = "exists"].stage = "exists"
  BY JobRecords DEF Stages, Admitting
<1>4. JobEnds(p, t) => job'[p][t].stage = "none"
  BY <1>1, <1>2 DEF JobEnds
<1>5. \A b \in BOOLEAN : job' = [job EXCEPT ![p][t] = RejectedJob(b)] =>
        job'[p][t].stage = "rejected" /\ job'[p][t].sure = b
  BY <1>1, <1>2
<1>6. job' = [job EXCEPT ![p][t] = [NoJob EXCEPT !.stage = "run"]] => job'[p][t].stage = "run"
  <2> DEFINE j == [NoJob EXCEPT !.stage = "run"]
  <2>1. j.stage = "run"
    BY <1>3
  <2> HIDE DEF j
  <2>2. job' = [job EXCEPT ![p][t] = j] => job'[p][t].stage = "run"
    BY <1>1, <2>1
  <2> QED BY <2>2 DEF j
<1>7. job' = [job EXCEPT ![p][t] = [NoJob EXCEPT !.stage = "exists"]] => job'[p][t].stage = "exists"
  <2> DEFINE j == [NoJob EXCEPT !.stage = "exists"]
  <2>1. j.stage = "exists"
    BY <1>3
  <2> HIDE DEF j
  <2>2. job' = [job EXCEPT ![p][t] = j] => job'[p][t].stage = "exists"
    BY <1>1, <2>1
  <2> QED BY <2>2 DEF j
<1> QED BY <1>4, <1>5, <1>6, <1>7

(* Steps that leave the store, the late calls and the cancellations alone. *)
LEMMA QuietTask ==
  ASSUME HostInv, NEW p \in Proc, NEW t \in Turns,
         UNCHANGED <<status, cancelling>>, late' \subseteq late,
         job[p][t].stage \in Answering => job'[p][t].stage \in Answering \/ ~healthy'[p],
         job[p][t].stage = "start" => job'[p][t].stage = "start" \/ demand'[p] \/ status[t] # None,
         job'[p][t].stage = "rejected" => job'[p][t] = job[p][t]
  PROVE  TaskAt(p, t)
  BY DEF TaskAt, TurnAt

(* Before the turn is accepted. *)
LEMMA AdmittingAt ==
  ASSUME HostInv, NEW p \in Proc, NEW t \in Turns,
         \/ Accept(p, t) \/ AcceptUnowned(p, t) \/ JobExists(p, t)
         \/ JobConfigured(p, t) \/ JobGivesUp(p, t)
  PROVE  TaskAt(p, t)
<1> USE DEF memVars, storeVars
<1>1. UNCHANGED <<status, cancelling>> /\ late' \subseteq late
  BY DEF Accept, AcceptUnowned, JobExists, JobConfigured, JobGivesUp
<1>2. JobsTyped
  BY DEF HostInv, Typed
<1>3. CASE AcceptUnowned(p, t)
  BY <1>1, <1>3, QuietTask DEF AcceptUnowned
<1>4. CASE Accept(p, t)
  <2>1. job'[p][t].stage = "exists"
    BY <1>2, <1>4, GivenStage DEF Accept
  <2>2. job[p][t].stage \in {"none", "rejected"}
    BY <1>4, JobRecords DEF Accept
  <2> QED BY <1>1, <2>1, <2>2, QuietTask DEF Answering
<1>5. CASE JobExists(p, t) \/ JobConfigured(p, t) \/ JobGivesUp(p, t)
  <2>1. job[p][t].stage \in {"exists", "config"}
    BY <1>5 DEF JobExists, JobConfigured, JobGivesUp
  <2>2. \/ JobEnds(p, t) \/ job' = [job EXCEPT ![p][t].stage = "config"]
        \/ job' = [job EXCEPT ![p][t].stage = "start"]
    BY <1>5 DEF JobExists, JobConfigured, JobGivesUp
  <2>3. job'[p][t].stage \in {"none", "config", "start"}
    <3>1. CASE JobEnds(p, t)
      BY <1>2, <3>1, GivenStage
    <3>2. CASE job' = [job EXCEPT ![p][t].stage = "config"]
      BY <1>2, <3>2 DEF JobsTyped, Jobs
    <3>3. CASE job' = [job EXCEPT ![p][t].stage = "start"]
      BY <1>2, <3>3 DEF JobsTyped, Jobs
    <3> QED BY <2>2, <3>1, <3>2, <3>3
  <2> QED BY <1>1, <2>1, <2>3, QuietTask DEF Answering
<1> QED BY <1>3, <1>4, <1>5

(* An attempt of start or finish that came to nothing. *)
LEMMA UnsureAt ==
  ASSUME HostInv, NEW p \in Proc, NEW t \in Turns, StartUnsure(p, t) \/ FinishUnsure(p, t)
  PROVE  \/ job'[p][t].stage = job[p][t].stage
         \/ job'[p][t].stage = "none" /\ ~healthy'[p] /\ demand'[p]
<1>1. JobsTyped
  BY DEF HostInv, Typed
<1>2. CASE JobEnds(p, t) /\ RequireRecovery(p)
  <2>1. job'[p][t].stage = "none"
    BY <1>1, <1>2, GivenStage
  <2> QED BY <1>2, <2>1, Required
<1>3. CASE job' = [job EXCEPT ![p][t].tries = @ + 1, ![p][t].sure = FALSE]
  BY <1>1, <1>3 DEF JobsTyped, Jobs
<1>4. CASE job' = [job EXCEPT ![p][t].tries = @ + 1]
  BY <1>1, <1>4 DEF JobsTyped, Jobs
<1> QED BY <1>2, <1>3, <1>4 DEF StartUnsure, FinishUnsure

(* An attempt of start that is answered. *)
LEMMA AnsweredStartAt ==
  ASSUME HostInv, NEW p \in Proc, NEW t \in Turns, StartAnswered(p, t)
  PROVE  TaskAt(p, t)
<1> DEFINE answer == StartAnswer(t, owner[p])
<1>1. /\ job[p][t].stage = "start" /\ late' \subseteq late
      /\ ~Overtaking => StartCallOf(p, t) \notin late'
      /\ cancelling' = cancelling /\ StartEffect(t, owner[p])
  BY DEF StartAnswered, memVars
<1>2. JobsTyped /\ StoreTyped /\ up[p] # "down"
  BY <1>1 DEF HostInv, HostAt, Typed
<1>3. /\ TurnAt(t)
      /\ answer = "made" => Guard(owner[p])
      /\ answer # "made" => status' = status
      /\ answer = "rejected" => status[t] = None
      /\ None # "PROCESSING"
  BY <1>1, <1>2, StartAt, ChatConstants
<1>4. job' = [job EXCEPT ![p][t] = [NoJob EXCEPT !.stage = "run"]] => job'[p][t].stage = "run"
  BY <1>2, GivenStage
<1>5. JobEnds(p, t) => job'[p][t].stage = "none"
  BY <1>2, GivenStage
<1>6. job' = [job EXCEPT ![p][t] = RejectedJob(StartCallOf(p, t) \notin late')] =>
        job'[p][t].stage = "rejected" /\ (job'[p][t].sure => StartCallOf(p, t) \notin late')
  BY <1>2, GivenStage, AnsweredReject
<1>7. /\ answer = "made" => job'[p][t].stage = "run"
      /\ answer = "rejected" =>
           job'[p][t].stage = "rejected" /\ (job'[p][t].sure => StartCallOf(p, t) \notin late')
  BY <1>4, <1>6 DEF StartAnswered
<1>8. answer = "existing" /\ job'[p][t].stage # "run" =>
        job'[p][t].stage = "none" /\ (status[t] = "PROCESSING" => ~healthy'[p])
  BY <1>4, <1>5, Required DEF StartAnswered, StartFound
<1>9. answer = "refused" =>
        job'[p][t].stage = "start" \/ (job'[p][t].stage = "none" /\ ~healthy'[p] /\ demand'[p])
  BY <1>1, UnsureAt DEF StartAnswered
<1>10. answer \in {"made", "existing", "rejected", "refused"}
  BY DEF StartAnswered
<1> HIDE DEF answer
<1>11. /\ status'[t] = "PROCESSING" =>
            status[t] = "PROCESSING" \/ (Guard(owner[p]) /\ up[p] # "down" /\ job'[p][t].stage = "run")
       /\ status'[t] = "PROCESSING" => job'[p][t].stage \in Answering \/ ~healthy'[p]
  BY <1>2, <1>3, <1>7, <1>8, <1>9, <1>10 DEF Answering
<1>12. job'[p][t].stage = "rejected" =>
         /\ status'[t] # "PROCESSING"
         /\ job'[p][t].sure => StartCallOf(p, t) \notin late'
  BY <1>3, <1>7, <1>8, <1>9, <1>10
<1> QED BY <1>1, <1>3, <1>11, <1>12 DEF TaskAt

(* One that is not. *)
LEMMA LostStartAt ==
  ASSUME HostInv, NEW p \in Proc, NEW t \in Turns, StartLost(p, t)
  PROVE  TaskAt(p, t)
<1>1. /\ job[p][t].stage = "start" /\ UNCHANGED <<status, cancelling>>
      /\ late' \ late \subseteq {StartCallOf(p, t)}
  BY DEF StartLost, GiveUp, storeVars, memVars
<1>2. JobsTyped
  BY DEF HostInv, Typed
<1>3. \/ job'[p][t].stage = "start"
      \/ job'[p][t].stage = "none" /\ ~healthy'[p] /\ demand'[p]
  <2>1. CASE StartUnsure(p, t)
    BY <1>1, <2>1, UnsureAt
  <2>2. CASE JobEnds(p, t) /\ RequireRecovery(p)
    BY <1>2, <2>2, GivenStage, Required
  <2> QED BY <2>1, <2>2 DEF StartLost
<1> QED BY <1>1, <1>3 DEF TaskAt, TurnAt, Answering

(* Steps of a task that is past start, and does not start again. *)
LEMMA LaterTask ==
  ASSUME HostInv, NEW p \in Proc, NEW t \in Turns,
         job[p][t].stage # "start", TurnAt(t), cancelling' = cancelling,
         \A c \in late' \ late : c.op # "start",
         status'[t] = "PROCESSING" => status[t] = "PROCESSING",
         job[p][t].stage \in Answering /\ status'[t] = "PROCESSING" =>
           job'[p][t].stage \in Answering \/ ~healthy'[p],
         job'[p][t].stage = "rejected" => job'[p][t] = job[p][t]
  PROVE  TaskAt(p, t)
  BY DEF TaskAt

(* A task whose turn is accepted. *)
LEMMA RunningAt ==
  ASSUME HostInv, NEW p \in Proc, NEW t \in Turns,
         \/ RunEmit(p, t) \/ RunEnds(p, t) \/ FinishAnswered(p, t)
         \/ FinishLost(p, t) \/ Closed(p, t)
  PROVE  TaskAt(p, t)
<1> USE DEF memVars, storeVars
<1>1. JobsTyped /\ StoreTyped
  BY DEF HostInv, Typed
<1>2. cancelling' = cancelling
  BY DEF RunEmit, RunEnds, FinishAnswered, FinishLost, Closed
<1>3. \A c \in late' \ late : c.op # "start"
  BY DEF RunEmit, RunEnds, FinishAnswered, FinishLost, Closed, GiveUp, FinishCallOf, EmitCall
<1>4. ASSUME NEW e, Finishing(p, t, e) PROVE job'[p][t].stage = "finish"
  <2> DEFINE j == [NoJob EXCEPT !.stage = "finish", !.ending = e]
  <2>1. j.stage = "finish"
    BY DEF NoJob
  <2>2. job' = [job EXCEPT ![p][t] = j]
    BY <1>4 DEF Finishing
  <2> HIDE DEF j
  <2> QED BY <1>1, <2>1, <2>2 DEF JobsTyped
<1>5. "PROCESSING" \notin Endings /\ \A e \in Endings : e # "PROCESSING"
  BY DEF Endings
<1>6. CASE RunEmit(p, t)
  <2>1. job[p][t].stage = "run" /\ EmitEffect(t, owner[p], "delta") /\ "delta" \in Kinds
    BY <1>6 DEF RunEmit, Kinds
  <2>2. /\ TurnAt(t) /\ (status'[t] = "PROCESSING" => status[t] = "PROCESSING")
        /\ EmitAnswer(t, owner[p]) = "over" => status'[t] \in Endings
    BY <1>1, <2>1, EmitAt
  <2>3. \/ EmitAnswer(t, owner[p]) = "over" /\ job'[p][t].stage = "closing"
        \/ job'[p][t].stage \in {"run", "finish"}
    <3>1. job' = [job EXCEPT ![p][t].stage = "closing"] => job'[p][t].stage = "closing"
      BY <1>1 DEF JobsTyped, Jobs
    <3> QED BY <1>4, <1>6, <2>1, <3>1 DEF RunEmit
  <2> QED BY <1>2, <1>3, <1>5, <2>1, <2>2, <2>3, LaterTask DEF Answering
<1>7. CASE RunEnds(p, t)
  <2>1. job[p][t].stage = "run" /\ status' = status /\ job'[p][t].stage = "finish"
    BY <1>4, <1>7 DEF RunEnds
  <2> QED BY <1>2, <1>3, <2>1, LaterTask DEF Answering, TurnAt
<1>8. CASE FinishAnswered(p, t)
  <2> DEFINE e == job[p][t].ending
  <2>1. job[p][t].stage = "finish" /\ EmitEffect(t, owner[p], e) /\ e \in Endings /\ e \in Kinds
    BY <1>1, <1>8 DEF FinishAnswered, JobsTyped, Kinds
  <2>2. /\ TurnAt(t) /\ (status'[t] = "PROCESSING" => status[t] = "PROCESSING")
        /\ EmitAnswer(t, owner[p]) \in {"ok", "over"} => status'[t] \in Endings
    BY <1>1, <2>1, EmitAt
  <2>3. \/ job'[p][t].stage = "none" /\ EmitAnswer(t, owner[p]) \in {"ok", "over"}
        \/ job'[p][t].stage = "finish"
        \/ job'[p][t].stage = "none" /\ ~healthy'[p]
    <3>1. CASE EmitAnswer(t, owner[p]) \in {"ok", "over"}
      BY <1>1, <1>8, <3>1, GivenStage DEF FinishAnswered
    <3>2. CASE EmitAnswer(t, owner[p]) \notin {"ok", "over"}
      BY <1>8, <2>1, <3>2, UnsureAt DEF FinishAnswered
    <3> QED BY <3>1, <3>2
  <2> HIDE DEF e
  <2> QED BY <1>2, <1>3, <1>5, <2>1, <2>2, <2>3, LaterTask DEF Answering
<1>9. CASE FinishLost(p, t)
  <2>1. job[p][t].stage = "finish" /\ status' = status
    BY <1>9 DEF FinishLost
  <2>2. job'[p][t].stage = "finish" \/ (job'[p][t].stage = "none" /\ ~healthy'[p])
    BY <1>9, <2>1, UnsureAt DEF FinishLost
  <2> QED BY <1>2, <1>3, <2>1, <2>2, LaterTask DEF Answering, TurnAt
<1>10. CASE Closed(p, t)
  <2>1. job[p][t].stage = "closing" /\ status' = status /\ job'[p][t].stage = "none"
    BY <1>1, <1>10, GivenStage DEF Closed
  <2> QED BY <1>2, <1>3, <2>1, LaterTask DEF Answering, TurnAt
<1> QED BY <1>6, <1>7, <1>8, <1>9, <1>10

(* The cancellation of a turn: it is stored first. *)
LEMMA CancelAt ==
  ASSUME HostInv, NEW p \in Proc, NEW t \in Turns, \A u \in cancelling[p] : status[u] \in Endings,
         Cancel(p, t) \/ CancelLost(p, t) \/ CancelOwned(p, t)
  PROVE  TaskAt(p, t)
<1>1. JobsTyped /\ StoreTyped /\ cancelling \in [Proc -> SUBSET Turns]
  BY DEF HostInv, Typed, HostTyped
<1>2. CASE Cancel(p, t)
  <2>1. /\ EmitEffect(t, owner[p], "CANCELLED") /\ "CANCELLED" \in Kinds /\ "CANCELLED" \in Endings
        /\ EmitAnswer(t, owner[p]) \in {"ok", "over"} /\ UNCHANGED <<job, late>>
        /\ cancelling' = [cancelling EXCEPT ![p] = @ \cup {t}]
    BY <1>2 DEF Cancel, Kinds, Endings
  <2>2. /\ TurnAt(t) /\ (status'[t] = "PROCESSING" => status[t] = "PROCESSING")
        /\ status'[t] \in Endings
    BY <1>1, <2>1, EmitAt
  <2>3. status'[t] # None
    BY <2>2, ChatConstants DEF Endings
  <2> QED BY <1>1, <2>1, <2>2, <2>3 DEF TaskAt
<1>3. CASE CancelLost(p, t)
  <2>1. UNCHANGED <<status, job, cancelling>> /\ \A c \in late' \ late : c.op = "emit"
    BY <1>3 DEF CancelLost, GiveUp, EmitCall, storeVars, memVars
  <2> QED BY <2>1 DEF TaskAt, TurnAt
<1>4. CASE CancelOwned(p, t)
  <2>1. /\ status' = status /\ cancelling' = [cancelling EXCEPT ![p] = @ \ {t}]
        /\ job' = [job EXCEPT ![p][t] = Cancelled(job[p][t])]
        /\ t \in cancelling[p] /\ late' \ late \subseteq CallsOf(p, {t})
    BY <1>4 DEF CancelOwned, GiveUp, storeVars
  <2>2. status[t] \in Endings /\ "PROCESSING" \notin Endings /\ None \notin Endings
    BY <2>1, ChatConstants DEF Endings
  <2>3. \A c \in CallsOf(p, {t}) : c.op = "start" => c = StartCallOf(p, t) /\ job[p][t].stage = "start"
    BY DEF CallsOf, EmitCall, FinishCallOf
  <2>4. job'[p][t].stage # "rejected"
    <3>1. job'[p][t] = Cancelled(job[p][t])
      BY <1>1, <2>1 DEF JobsTyped
    <3> QED BY <1>1, <3>1, JobRecords DEF JobsTyped
  <2> QED BY <1>1, <2>1, <2>2, <2>3, <2>4 DEF TaskAt, TurnAt
<1> QED BY <1>2, <1>3, <1>4

(* So for every step of a task. *)
LEMMA EachTaskAt ==
  ASSUME StrayInv, NEW p \in Proc, NEW t \in Turns, TaskSteps(p, t)
  PROVE  TaskAt(p, t)
<1>1. HostInv /\ \A u \in cancelling[p] : status[u] \in Endings
  BY DEF StrayInv, Accounted, BeatAt
<1> QED BY <1>1, AdmittingAt, AnsweredStartAt, LostStartAt, RunningAt, CancelAt DEF TaskSteps, JobMoves

----------------------------------------------------------------------------
(* What a step of a task does to every process. *)

(* A start is known by its turn and its owner. *)
LEMMA StartIs ==
  ASSUME NEW c \in Calls, c.op = "start"
  PROVE  c = StartCall(c.turn, c.owner)
<1>1. c \in [op : {"start"}, turn : Turns, owner : Ids]
  BY DEF Calls
<1> QED BY <1>1 DEF StartCall

(* A turn comes into processing by the task that started it. *)
LEMMA Gains ==
  ASSUME HostInv, NEW p \in Proc, NEW t \in Turns, TaskAt(p, t), NEW u \in Processing'
  PROVE  \/ u \in Processing
         \/ u = t /\ lease.owner = owner[p] /\ up[p] # "down" /\ job'[p][t].stage = "run"
<1>1. Guard(owner[p]) => lease.owner = owner[p]
  BY DEF Guard
<1> QED BY <1>1 DEF TaskAt, TurnAt, Processing

(* Of the process of the task, and of the others. *)
LEMMA TaskStarts ==
  ASSUME StrayInv, NEW p \in Proc, NEW t \in Turns, NEW q \in Proc, TaskAt(p, t), HealthAt(p),
         UNCHANGED HeldVars, LateKnown',
         \A r \in Proc, u \in Turns : r # p \/ u # t => job'[r][u] = job[r][u]
  PROVE  StartsKnown(q)'
<1> SUFFICES ASSUME ~Overtaking,
                    NEW c \in late', c.op = "start", c.owner = owner[q], status'[c.turn] = None
             PROVE  job'[q][c.turn].stage = "start" \/ demand'[q]
  BY DEF StartsKnown, HeldVars
<1>1. HostInv /\ Apart /\ StartsKnown(q)
  BY DEF StrayInv, Accounted
<1>2. c \in Calls /\ c = StartCall(c.turn, c.owner) /\ c.turn \in Turns
  BY StartIs, CallParts DEF LateKnown
<1>3. status[c.turn] = None
  BY <1>2 DEF TaskAt, TurnAt
<1>4. c \notin late => c = StartCallOf(p, t) /\ job[p][t].stage = "start" /\ up[p] # "down"
  BY <1>1 DEF TaskAt, HostInv, HostAt
<1>5. StartCallOf(p, t).turn = t /\ StartCallOf(p, t).owner = owner[p]
  BY DEF StartCallOf, StartCall
<1>6. CASE q # p
  <2>1. c \in late
    BY <1>1, <1>4, <1>5, <1>6, OwnersDiffer
  <2>2. job[q][c.turn].stage = "start" \/ demand[q]
    BY <1>1, <1>3, <2>1 DEF StartsKnown
  <2> QED BY <1>2, <1>6, <2>2 DEF HealthAt
<1>7. CASE q = p /\ c.turn # t
  <2>1. c \in late
    BY <1>4, <1>5, <1>7
  <2>2. job[q][c.turn].stage = "start" \/ demand[q]
    BY <1>1, <1>3, <2>1 DEF StartsKnown
  <2> QED BY <1>2, <1>7, <2>2 DEF HealthAt
<1>8. CASE q = p /\ c.turn = t
  <2>1. c = StartCallOf(p, t)
    BY <1>2, <1>8 DEF StartCallOf
  <2>2. job[p][t].stage = "start" \/ demand[p]
    BY <1>1, <1>3, <1>4, <1>8 DEF StartsKnown
  <2> QED BY <1>8, <2>1, <2>2 DEF TaskAt, HealthAt
<1> QED BY <1>6, <1>7, <1>8

LEMMA TaskRejected ==
  ASSUME StrayInv, NEW p \in Proc, NEW t \in Turns, NEW q \in Proc, TaskAt(p, t),
         UNCHANGED HeldVars,
         \A r \in Proc, u \in Turns : r # p \/ u # t => job'[r][u] = job[r][u]
  PROVE  RejectedAt(q)'
<1> SUFFICES ASSUME NEW u \in Turns, TurnedDown(q, u)'
             PROVE  /\ StartCallOf(q, u) \notin late'
                    /\ lease.owner = owner[q] => status'[u] # "PROCESSING"
  BY DEF RejectedAt, StartCallOf, HeldVars
<1>1. HostInv /\ Apart /\ RejectedAt(q)
  BY DEF StrayInv, Accounted
<1>2. \A r \in Proc, v \in Turns : /\ StartCallOf(r, v).turn = v /\ StartCallOf(r, v).owner = owner[r]
                                   /\ StartCallOf(r, v).op = "start"
  BY DEF StartCallOf, StartCall
<1>3. StartCallOf(q, u) \in late' \ late => u = t /\ owner[q] = owner[p] /\ job[p][t].stage = "start"
  BY <1>2 DEF TaskAt
<1>4. job[p][t].stage = "start" => up[p] # "down"
  BY <1>1 DEF HostInv, HostAt
<1>5. status'[u] = "PROCESSING" =>
        \/ status[u] = "PROCESSING"
        \/ u = t /\ lease.owner = owner[p] /\ up[p] # "down" /\ job'[p][t].stage = "run"
  BY <1>1, Gains DEF Processing
<1>6. CASE q # p
  <2>1. TurnedDown(q, u) /\ (up[p] # "down" => owner[p] # owner[q])
    BY <1>1, <1>6, OwnersDiffer DEF TurnedDown
  <2> QED BY <1>1, <1>3, <1>4, <1>5, <2>1 DEF RejectedAt
<1>7. CASE q = p /\ u # t
  <2>1. TurnedDown(q, u)
    BY <1>7 DEF TurnedDown
  <2> QED BY <1>1, <1>3, <1>5, <1>7, <2>1 DEF RejectedAt
<1>8. CASE q = p /\ u = t
  <2>1. CASE job'[p][t] = job[p][t]
    BY <1>1, <1>3, <1>5, <1>8, <2>1 DEF RejectedAt, TurnedDown
  <2>2. CASE StartCallOf(p, t) \notin late' /\ status'[t] # "PROCESSING"
    BY <1>8, <2>2
  <2> QED BY <1>8, <2>1, <2>2 DEF TaskAt, TurnedDown
<1> QED BY <1>6, <1>7, <1>8

LEMMA TaskAnswered ==
  ASSUME StrayInv, NEW p \in Proc, NEW t \in Turns, NEW q \in Proc, TaskAt(p, t), HealthAt(p),
         UNCHANGED HeldVars,
         \A r \in Proc, u \in Turns : r # p \/ u # t => job'[r][u] = job[r][u]
  PROVE  AnsweredAt(q)' /\ BeatAt(q)'
<1>1. HostInv /\ Apart /\ AnsweredAt(q) /\ BeatAt(q)
  BY DEF StrayInv, Accounted
<1>2. up[p] # "down" /\ q # p => owner[p] # owner[q]
  BY <1>1, OwnersDiffer
<1>3. healthy'[q] => healthy[q]
  BY DEF HealthAt
<1>4. ASSUME ~Overtaking, up[q] = "up", healthy'[q], lease.owner = owner[q], NEW u \in Processing'
      PROVE  job'[q][u].stage \in Answering
  <2>1. CASE u \in Processing
    <3>1. job[q][u].stage \in Answering
      BY <1>1, <1>3, <1>4, <2>1 DEF AnsweredAt
    <3>2. CASE q # p \/ u # t
      BY <3>1, <3>2 DEF Processing
    <3>3. CASE q = p /\ u = t
      BY <1>4, <3>1, <3>3 DEF TaskAt, Processing
    <3> QED BY <3>2, <3>3
  <2>2. CASE u = t /\ lease.owner = owner[p] /\ up[p] # "down" /\ job'[p][t].stage = "run"
    BY <1>2, <1>4, <2>2 DEF Answering
  <2> QED BY <1>1, <2>1, <2>2, Gains
<1>5. AnsweredAt(q)'
  BY <1>4 DEF AnsweredAt, HeldVars
<1>6. pending[q] # None /\ lease.owner = pending[q].to => Processing' = {}
  <2> SUFFICES ASSUME pending[q] # None, lease.owner = pending[q].to, NEW u \in Processing' PROVE FALSE
    OBVIOUS
  <2>1. owner[p] # pending[q].to /\ Processing = {}
    BY <1>1 DEF Apart, BeatAt
  <2> QED BY <1>1, <2>1, Gains
<1>7. \A u \in cancelling'[q] : status'[u] \in Endings
  <2>1. cancelling \in [Proc -> SUBSET Turns]
    BY <1>1 DEF HostInv, HostTyped
  <2> QED BY <1>1, <2>1 DEF BeatAt, TaskAt, TurnAt
<1>8. /\ hb[q] = "renew" => healthy'[q] \/ demand'[q]
      /\ up[q] # "stopping" /\ healthy'[q] => ~demand'[q]
  BY <1>1 DEF BeatAt, HealthAt
<1> QED BY <1>5, <1>6, <1>7, <1>8 DEF BeatAt, HeldVars

StrayNext == \A p \in Proc : Accounted(p)'

LEMMA TaskStray ==
  ASSUME StrayInv, NEW p \in Proc, NEW t \in Turns, TaskSteps(p, t)
  PROVE  StrayNext
<1>1. HostInv /\ Apart
  BY DEF StrayInv
<1>2. TaskAt(p, t) /\ HealthAt(p) /\ UNCHANGED HeldVars /\ LateKnown'
  BY <1>1, EachTaskAt, TaskHealth, TaskLeaves, TaskGivesUp
<1>3. \A r \in Proc, u \in Turns : r # p \/ u # t => job'[r][u] = job[r][u]
  BY <1>1, TaskMoves DEF HostInv, TaskMove
<1>4. \A q \in Proc : StartsKnown(q)' /\ RejectedAt(q)' /\ AnsweredAt(q)' /\ BeatAt(q)'
  BY <1>2, <1>3, TaskStarts, TaskRejected, TaskAnswered
<1> QED BY <1>4 DEF StrayNext, Accounted

----------------------------------------------------------------------------
(* Steps that begin no turn. *)

StoreMild ==
  /\ \A t \in Turns : /\ status[t] \in Endings => status'[t] \in Endings
                      /\ status[t] # None => status'[t] # None
  /\ Processing' \subseteq Processing

(* The lease goes to no owner that is known, or its turns are ended. *)
LeaseMild(q) ==
  \/ lease'.owner = lease.owner
  \/ Processing' = {}
  \/ lease'.owner # owner[q] /\ (pending[q] # None => lease'.owner # pending[q].to)

LEMMA StoreSame ==
  ASSUME status' = status
  PROVE  StoreMild
  BY DEF StoreMild, Processing

LEMMA SweepMild ==
  ASSUME StoreTyped, NEW pn, LeaseEffect(pn)
  PROVE  StoreMild /\ \A q : LeaseMild(q)
<1>1. "FAILED" \in Endings /\ "PROCESSING" \notin Endings /\ "FAILED" # None /\ "FAILED" # "PROCESSING"
  BY ChatConstants DEF Endings
<1>2. CASE Sweep
  <2>1. \A t \in Turns : status'[t] = IF t \in Processing THEN "FAILED" ELSE status[t]
    BY <1>2 DEF Sweep
  <2>2. Processing' = {}
    BY <1>1, <2>1 DEF Processing
  <2> QED BY <1>1, <2>1, <2>2 DEF StoreMild, LeaseMild, Processing
<1>3. CASE UNCHANGED <<status, events>> /\ ~(LeaseAnswer(pn) /\ lease.owner # pn.to)
  BY <1>3, StoreSame DEF LeaseEffect, LeaseMild
<1> QED BY <1>2, <1>3 DEF LeaseEffect

LEMMA ReleaseMild ==
  ASSUME HostInv, ~IsFiniteSet(Ids), NEW o, ReleaseEffect(o)
  PROVE  StoreMild /\ \A q \in Proc : LeaseMild(q)
<1>1. status' = status
  BY DEF ReleaseEffect
<1>2. \A q \in Proc : Fresh # owner[q] /\ (pending[q] # None => Fresh # pending[q].to)
  BY FreshIsNew DEF Referenced
<1>3. lease' = lease \/ lease'.owner = Fresh
  BY DEF ReleaseEffect
<1> QED BY <1>1, <1>2, <1>3, StoreSame DEF LeaseMild

(* A process that keeps its owner, ends tasks only with a recovery, and *)
(* gives up no start but of a task that asks. *)
LEMMA MildAt ==
  ASSUME StrayInv, LateKnown', NEW q \in Proc, StoreMild, LeaseMild(q), owner'[q] = owner[q],
         up'[q] = "up" => up[q] = "up",
         up'[q] # "stopping" /\ healthy'[q] => healthy[q] /\ ~demand'[q],
         demand[q] => demand'[q],
         hb'[q] = "renew" => healthy'[q] \/ demand'[q],
         cancelling'[q] \subseteq cancelling[q],
         pending'[q] # None /\ lease'.owner = pending'[q].to => pending'[q] = pending[q],
         \A t \in Turns : \/ job'[q][t] = job[q][t]
                          \/ /\ job'[q][t].stage # "rejected"
                             /\ job[q][t].stage = "start" => demand'[q]
                             /\ up'[q] = "up" => ~healthy'[q],
         \A c \in late' \ late : c.op = "start" /\ c.owner = owner[q] => job[q][c.turn].stage = "start"
  PROVE  Accounted(q)'
<1>1. Accounted(q) /\ cancelling[q] \subseteq Turns
  BY DEF StrayInv, HostInv, HostTyped
<1>2. StartsKnown(q)'
  <2> SUFFICES ASSUME ~Overtaking,
                      NEW c \in late', c.op = "start", c.owner = owner[q], status'[c.turn] = None
               PROVE  job'[q][c.turn].stage = "start" \/ demand'[q]
    BY DEF StartsKnown
  <2>1. c.turn \in Turns
    BY CallParts DEF LateKnown
  <2>2. status[c.turn] = None
    BY <2>1 DEF StoreMild
  <2>3. job[q][c.turn].stage = "start" \/ demand[q]
    BY <1>1, <2>2 DEF Accounted, StartsKnown
  <2> QED BY <2>1, <2>3
<1>3. RejectedAt(q)'
  <2> SUFFICES ASSUME NEW t \in Turns, TurnedDown(q, t)'
               PROVE  /\ StartCallOf(q, t) \notin late'
                      /\ lease'.owner = owner[q] => status'[t] # "PROCESSING"
    BY DEF RejectedAt, StartCallOf
  <2>1. job[q][t].stage = "rejected" /\ TurnedDown(q, t)
    BY DEF TurnedDown
  <2>2. StartCallOf(q, t).op = "start" /\ StartCallOf(q, t).owner = owner[q] /\ StartCallOf(q, t).turn = t
    BY DEF StartCallOf, StartCall
  <2>3. StartCallOf(q, t) \notin late'
    BY <1>1, <2>1, <2>2 DEF Accounted, RejectedAt
  <2>4. lease'.owner = owner[q] => status'[t] # "PROCESSING"
    BY <1>1, <2>1 DEF Accounted, RejectedAt, StoreMild, LeaseMild, Processing
  <2> QED BY <2>3, <2>4
<1>4. AnsweredAt(q)'
  <2> SUFFICES ASSUME ~Overtaking, up'[q] = "up", healthy'[q], lease'.owner = owner[q],
                      NEW t \in Processing'
               PROVE  job'[q][t].stage \in Answering
    BY DEF AnsweredAt
  <2>1. t \in Processing /\ t \in Turns /\ lease.owner = lease'.owner
    BY DEF StoreMild, LeaseMild, Processing
  <2>2. job[q][t].stage \in Answering
    BY <1>1, <2>1 DEF Accounted, AnsweredAt
  <2> QED BY <2>1, <2>2
<1>5. BeatAt(q)'
  <2>1. pending'[q] # None /\ lease'.owner = pending'[q].to => Processing' = {}
    BY <1>1 DEF Accounted, BeatAt, StoreMild, LeaseMild
  <2>2. \A t \in cancelling'[q] : status'[t] \in Endings
    BY <1>1 DEF Accounted, BeatAt, StoreMild
  <2> QED BY <2>1, <2>2 DEF BeatAt
<1> QED BY <1>2, <1>3, <1>4, <1>5 DEF Accounted

(* A process nothing is done to. *)
LEMMA Elsewhere ==
  ASSUME StrayInv, LateKnown', NEW q \in Proc, StoreMild, LeaseMild(q), owner'[q] = owner[q],
         up'[q] = up[q], healthy'[q] = healthy[q], demand'[q] = demand[q], hb'[q] = hb[q],
         cancelling'[q] = cancelling[q], pending'[q] = pending[q],
         \A t \in Turns : job'[q][t] = job[q][t],
         \A c \in late' \ late : c.op = "start" => c.owner # owner[q]
  PROVE  Accounted(q)'
<1>1. BeatAt(q)
  BY DEF StrayInv, Accounted
<1> QED BY <1>1, MildAt DEF BeatAt

(* A process that is down, and knows nothing. *)
LEMMA ForgottenAt ==
  ASSUME StrayInv, LateKnown', NEW p \in Proc, Forget(p)
  PROVE  Accounted(p)'
<1>1. HostTyped /\ JobsTyped
  BY DEF StrayInv, HostInv, Typed
<1>2. /\ up'[p] = "down" /\ hb'[p] = "off" /\ owner'[p] = None /\ pending'[p] = None
      /\ ~healthy'[p]
      /\ cancelling'[p] = {} /\ \A t \in Turns : job'[p][t] = NoJob
  BY <1>1 DEF Forget, HostTyped, JobsTyped
<1>3. \A c \in late' : c.op = "start" => c.owner # None
  BY CallParts, ChatConstants DEF LateKnown
<1>4. StartsKnown(p)' /\ RejectedAt(p)'
  BY <1>2, <1>3, JobRecords DEF StartsKnown, RejectedAt, TurnedDown
<1>5. AnsweredAt(p)' /\ BeatAt(p)'
  BY <1>2 DEF AnsweredAt, BeatAt
<1> QED BY <1>4, <1>5 DEF Accounted

----------------------------------------------------------------------------
(* The heartbeat and the processes. *)

(* The starts a process gives up are those of its tasks that ask. *)
LEMMA GivenStarts ==
  ASSUME HostInv, NEW p \in Proc, NEW ts \in SUBSET Turns,
         NEW c \in HeartbeatCalls(p) \cup CallsOf(p, ts), c.op = "start"
  PROVE  c.owner = owner[p] /\ up[p] # "down" /\ job[p][c.turn].stage = "start"
<1>1. c \notin HeartbeatCalls(p)
  BY BeatCalls
<1>2. PICK t \in ts : job[p][t].stage = "start" /\ c = StartCallOf(p, t)
  BY <1>1 DEF CallsOf, EmitCall, FinishCallOf
<1>3. c.turn = t /\ c.owner = owner[p]
  BY <1>2 DEF StartCallOf, StartCall
<1> QED BY <1>2, <1>3 DEF HostInv, HostAt

(* Beat, and the heartbeat that fails. *)
LEMMA BeatStray ==
  ASSUME StrayInv, LateKnown', NEW p \in Proc, Beat(p) \/ BeatFails(p)
  PROVE  StrayNext
<1>1. HostInv /\ Apart /\ HostTyped /\ JobsTyped /\ Accounted(p)
  BY DEF StrayInv, HostInv, Typed
<1>2. UNCHANGED <<status, lease, owner, pending, up, cancelling>>
  BY DEF Beat, BeatFails, storeVars, hostVars
<1>3. StoreMild /\ \A q : LeaseMild(q)
  BY <1>2, StoreSame DEF LeaseMild
<1>4. \A c \in late' \ late : c \in HeartbeatCalls(p) \cup CallsOf(p, Turns)
  BY DEF Beat, BeatFails, GiveUp
<1>5. \A c \in late' \ late : c.op = "start" => c.owner = owner[p] /\ up[p] # "down" /\ job[p][c.turn].stage = "start"
  BY <1>1, <1>4, GivenStarts
<1>6. /\ \A q \in Proc : q # p => hb'[q] = hb[q] /\ healthy'[q] = healthy[q] /\ demand'[q] = demand[q]
      /\ \A q \in Proc, t \in Turns : q # p => job'[q][t] = job[q][t]
  BY <1>1 DEF Beat, BeatFails, CancelAll, HostTyped, JobsTyped, recoveryVars
<1>7. \A q \in Proc : q # p => Accounted(q)'
  BY <1>1, <1>2, <1>3, <1>5, <1>6, Elsewhere, OwnersDiffer
<1>8. \/ /\ job' = job /\ demand' = demand /\ hb'[p] = "renew" /\ healthy'[p] = healthy[p]
         /\ healthy[p] /\ ~demand[p]
      \/ /\ hb'[p] = "gather" /\ ~healthy'[p] /\ CancelAll(p)
      \/ /\ job' = job /\ demand' = demand /\ hb'[p] = "rest" /\ ~healthy'[p]
  BY <1>1 DEF Beat, BeatFails, HostTyped, recoveryVars
<1>9. ASSUME job' = job, demand' = demand PROVE Accounted(p)'
  <2>1. up[p] # "stopping" /\ healthy[p] => ~demand[p]
    BY <1>1 DEF Accounted, BeatAt
  <2>2. /\ healthy'[p] => healthy[p]
        /\ hb'[p] = "renew" => healthy'[p]
    BY <1>8
  <2> QED BY <1>2, <1>3, <1>5, <1>9, <2>1, <2>2, MildAt
<1>10. CASE hb'[p] = "gather" /\ ~healthy'[p] /\ CancelAll(p)
  <2>1. \A t \in Turns : job'[p][t] = Cancelled(job[p][t])
    BY <1>1, <1>10 DEF CancelAll, JobsTyped
  <2>2. \A t \in Turns : job'[p][t].stage # "rejected" /\ (job[p][t].stage = "start" => demand'[p])
    BY <1>1, <1>10, <2>1, JobRecords DEF CancelAll, JobsTyped, HostTyped, Admitting
  <2>3. demand[p] => demand'[p]
    BY <1>1, <1>10 DEF CancelAll, HostTyped
  <2>4. Accounted(p)'
    BY <1>2, <1>3, <1>5, <1>10, <2>2, <2>3, MildAt
  <2> QED BY <1>7, <2>4 DEF StrayNext
<1> QED BY <1>7, <1>8, <1>9, <1>10 DEF StrayNext

(* The next lease is for a fresh owner, or for the one asked for before. *)
LEMMA PreparedStray ==
  ASSUME StrayInv, ~IsFiniteSet(Ids), NEW p \in Proc, Gathered(p) \/ Inspect(p)
  PROVE  StrayNext
<1>1. HostInv /\ Apart /\ HostTyped /\ Accounted(p) /\ BeatAt(p) /\ LateKnown
  BY DEF StrayInv, HostInv, Accounted
<1>2. UNCHANGED <<status, lease, owner, up, cancelling, late, job, healthy, demand>>
  BY DEF Gathered, Inspect, Prepare, storeVars, hostVars, recoveryVars
<1>3. StoreMild /\ (\A q : LeaseMild(q)) /\ LateKnown'
  BY <1>1, <1>2, StoreSame DEF LeaseMild, LateKnown
<1>4. /\ hb'[p] \in {"rest", "inspect", "lease"}
      /\ \A q \in Proc : q # p => hb'[q] = hb[q] /\ pending'[q] = pending[q]
      /\ pending'[p] = pending[p] \/ pending'[p].to = Fresh
  BY <1>1 DEF Gathered, Inspect, Prepare, HostTyped
<1>5. Fresh # lease.owner
  BY <1>1, FreshNamesNone
<1>6. \A q \in Proc : q # p => Accounted(q)'
  BY <1>2, <1>3, <1>4, Elsewhere
<1>7. Accounted(p)'
  <2>1. pending'[p] # None /\ lease'.owner = pending'[p].to => pending'[p] = pending[p]
    BY <1>2, <1>4, <1>5
  <2>2. up'[p] # "stopping" /\ healthy'[p] => healthy[p] /\ ~demand'[p]
    BY <1>1, <1>2 DEF BeatAt
  <2>3. hb'[p] = "renew" => healthy'[p] \/ demand'[p]
    BY <1>4
  <2> QED BY <1>2, <1>3, <2>1, <2>2, <2>3, MildAt
<1> QED BY <1>6, <1>7 DEF StrayNext

(* The lease was kept, or is lost. *)
LEMMA RenewStray ==
  ASSUME StrayInv, NEW p \in Proc, Renew(p)
  PROVE  StrayNext
<1>1. HostInv /\ Apart /\ HostTyped /\ StoreTyped /\ Accounted(p) /\ BeatAt(p) /\ LateKnown
  BY DEF StrayInv, HostInv, Typed, Accounted
<1>2. UNCHANGED <<owner, up, cancelling, late, job, demand, pending>> /\ hb[p] = "renew"
  BY DEF Renew, hostVars
<1>3. StoreMild /\ (\A q : LeaseMild(q)) /\ LateKnown'
  BY <1>1, <1>2, SweepMild DEF Renew, LateKnown
<1>4. /\ hb'[p] = "rest" /\ (healthy'[p] => ~demand[p])
      /\ \A q \in Proc : q # p => hb'[q] = hb[q] /\ healthy'[q] = healthy[q]
  BY <1>1 DEF Renew, HostTyped
<1>5. \A q \in Proc : q # p => Accounted(q)'
  BY <1>2, <1>3, <1>4, Elsewhere
<1>6. Accounted(p)'
  <2>1. healthy'[p] => healthy[p] /\ ~demand'[p]
    BY <1>1, <1>2, <1>4 DEF BeatAt
  <2> QED BY <1>2, <1>3, <1>4, <2>1, MildAt
<1> QED BY <1>5, <1>6 DEF StrayNext

(* A claim or a rotation: the new owner finds no turn in processing. *)
LEMMA LeaseStray ==
  ASSUME StrayInv, NEW p \in Proc, Lease(p)
  PROVE  StrayNext
<1> DEFINE to == pending[p].to
           ok == LeaseAnswer(pending[p])
<1>1. HostInv /\ Apart /\ HostTyped /\ StoreTyped /\ Accounted(p) /\ BeatAt(p) /\ LateKnown
  BY DEF StrayInv, HostInv, Typed, Accounted
<1>2. UNCHANGED <<up, cancelling, late, job>> /\ hb[p] = "lease" /\ pending[p] # None
  BY <1>1 DEF Lease, hostVars, HostInv, HostAt
<1>3. StoreMild /\ (\A q : LeaseMild(q)) /\ LateKnown'
  BY <1>1, <1>2, SweepMild DEF Lease, LateKnown
<1>4. /\ hb'[p] = "rest" /\ pending'[p] = None
      /\ \A q \in Proc : q # p => /\ hb'[q] = hb[q] /\ healthy'[q] = healthy[q] /\ demand'[q] = demand[q]
                                  /\ owner'[q] = owner[q] /\ pending'[q] = pending[q]
  BY <1>1 DEF Lease, HostTyped
<1>5. \A q \in Proc : q # p => Accounted(q)'
  BY <1>2, <1>3, <1>4, Elsewhere
<1>6. CASE ok
  <2>1. /\ lease'.owner = to /\ owner'[p] = to /\ healthy'[p] = covers[p] /\ demand'[p] = ~covers[p]
    BY <1>1, <1>6 DEF Lease, LeaseEffect, HostTyped
  <2>2. Processing' = {}
    <3>1. CASE lease.owner = to
      BY <1>1, <1>2, <1>3, <3>1 DEF BeatAt, StoreMild
    <3>2. CASE lease.owner # to
      <4>1. Sweep /\ "FAILED" # "PROCESSING"
        BY <1>6, <3>2 DEF Lease, LeaseEffect
      <4> QED BY <4>1 DEF Sweep, Processing
    <3> QED BY <3>1, <3>2
  <2>3. \A c \in late : c.op = "start" => c.owner # to
    BY <1>1, <1>2 DEF Apart
  <2>4. StartsKnown(p)'
    BY <1>2, <2>1, <2>3 DEF StartsKnown
  <2>5. RejectedAt(p)'
    <3>1. \A t \in Turns : StartCallOf(p, t)'.op = "start" /\ StartCallOf(p, t)'.owner = to
      BY <2>1 DEF StartCallOf, StartCall
    <3>2. \A t \in Turns : StartCallOf(p, t)' \notin late'
      BY <1>2, <2>3, <3>1
    <3>3. \A t \in Turns : status'[t] # "PROCESSING"
      BY <2>2 DEF Processing
    <3> QED BY <3>2, <3>3 DEF RejectedAt
  <2>6. AnsweredAt(p)'
    BY <2>2 DEF AnsweredAt
  <2>7. BeatAt(p)'
    BY <1>1, <1>2, <1>3, <1>4, <2>1 DEF BeatAt, StoreMild, HostTyped
  <2> QED BY <1>5, <2>4, <2>5, <2>6, <2>7 DEF StrayNext, Accounted
<1>7. CASE ~ok
  <2>1. ~healthy'[p] /\ demand' = demand /\ owner' = owner
    BY <1>1, <1>7 DEF Lease, HostTyped
  <2>2. Accounted(p)'
    BY <1>2, <1>3, <1>4, <2>1, MildAt
  <2> QED BY <1>5, <2>2 DEF StrayNext
<1> QED BY <1>6, <1>7

(* A new process has an owner id nobody knows. *)
LEMMA RestartStray ==
  ASSUME StrayInv, ~IsFiniteSet(Ids), NEW p \in Proc, Restart(p)
  PROVE  StrayNext
<1>1. HostInv /\ Apart /\ HostTyped /\ Accounted(p) /\ BeatAt(p) /\ LateKnown
  BY DEF StrayInv, HostInv, Accounted
<1>2. /\ UNCHANGED <<status, lease, late, healthy, demand, pending, job, cancelling>>
      /\ up[p] = "down" /\ up'[p] = "up" /\ hb'[p] = "rest" /\ owner'[p] = Fresh
      /\ \A q \in Proc : q # p => hb'[q] = hb[q] /\ up'[q] = up[q] /\ owner'[q] = owner[q]
  BY <1>1 DEF Restart, storeVars, recoveryVars, HostTyped
<1>3. /\ Fresh # lease.owner
      /\ \A q \in Proc : Fresh # owner[q] /\ (pending[q] # None => Fresh # pending[q].to)
      /\ \A c \in late : c.op = "start" => c.owner # Fresh
  BY <1>1, FreshNamesNone
<1>4. StoreMild /\ (\A q : LeaseMild(q)) /\ LateKnown'
  BY <1>1, <1>2, StoreSame DEF LeaseMild, LateKnown
<1>5. \A q \in Proc : q # p => Accounted(q)'
  BY <1>2, <1>4, Elsewhere
<1>6. StartsKnown(p)' /\ RejectedAt(p)'
  <2>1. \A t \in Turns : StartCallOf(p, t)'.op = "start" /\ StartCallOf(p, t)'.owner = Fresh
    BY <1>2 DEF StartCallOf, StartCall
  <2> QED BY <1>2, <1>3, <2>1 DEF StartsKnown, RejectedAt
<1>7. AnsweredAt(p)'
  BY <1>2, <1>3 DEF AnsweredAt
<1>8. BeatAt(p)'
  BY <1>1, <1>2 DEF BeatAt, Processing
<1> QED BY <1>5, <1>6, <1>7, <1>8 DEF StrayNext, Accounted

(* What its tasks had under way when it stops, is known. *)
LEMMA ShutDownStray ==
  ASSUME StrayInv, LateKnown', NEW p \in Proc, ShutDown(p)
  PROVE  StrayNext
<1>1. HostInv /\ Apart /\ HostTyped /\ JobsTyped
  BY DEF StrayInv, HostInv, Typed
<1>2. /\ UNCHANGED <<status, lease, owner, pending, healthy, cancelling>>
      /\ up'[p] = "stopping" /\ hb'[p] = "off" /\ CancelAll(p)
      /\ \A q \in Proc : q # p => hb'[q] = hb[q] /\ up'[q] = up[q]
  BY <1>1 DEF ShutDown, storeVars, HostTyped
<1>3. StoreMild /\ \A q : LeaseMild(q)
  BY <1>2, StoreSame DEF LeaseMild
<1>4. \A c \in late' \ late : c.op = "start" => c.owner = owner[p] /\ up[p] # "down" /\ job[p][c.turn].stage = "start"
  BY <1>1, GivenStarts DEF ShutDown, GiveUp
<1>5. \A q \in Proc : q # p => demand'[q] = demand[q] /\ \A t \in Turns : job'[q][t] = job[q][t]
  BY <1>1, <1>2 DEF CancelAll, HostTyped, JobsTyped
<1>6. \A q \in Proc : q # p => Accounted(q)'
  BY <1>1, <1>2, <1>3, <1>4, <1>5, Elsewhere, OwnersDiffer
<1>7. \A t \in Turns : job'[p][t] = Cancelled(job[p][t])
  BY <1>1, <1>2 DEF CancelAll, JobsTyped
<1>8. \A t \in Turns : job'[p][t].stage # "rejected" /\ (job[p][t].stage = "start" => demand'[p])
  BY <1>1, <1>2, <1>7, JobRecords DEF CancelAll, JobsTyped, HostTyped, Admitting
<1>9. demand[p] => demand'[p]
  BY <1>1, <1>2 DEF CancelAll, HostTyped
<1>10. Accounted(p)'
  BY <1>2, <1>3, <1>4, <1>8, <1>9, MildAt
<1> QED BY <1>6, <1>10 DEF StrayNext

(* A process that is gone, whether it gave the lease back or not. *)
LEMMA GoneStray ==
  ASSUME StrayInv, LateKnown', ~IsFiniteSet(Ids), NEW p \in Proc, Release(p) \/ Crash(p)
  PROVE  StrayNext
<1>1. HostInv /\ Apart /\ HostTyped /\ JobsTyped
  BY DEF StrayInv, HostInv, Typed
<1>2. Forget(p)
  BY DEF Release, Crash
<1>3. \A q \in Proc : q # p => /\ hb'[q] = hb[q] /\ up'[q] = up[q] /\ owner'[q] = owner[q]
                               /\ healthy'[q] = healthy[q] /\ demand'[q] = demand[q]
                               /\ pending'[q] = pending[q] /\ cancelling'[q] = cancelling[q]
                               /\ \A t \in Turns : job'[q][t] = job[q][t]
  BY <1>1, <1>2 DEF Forget, HostTyped, JobsTyped
<1>4. StoreMild /\ \A q \in Proc : LeaseMild(q)
  <2>1. CASE ReleaseEffect(owner[p])
    BY <1>1, <2>1, ReleaseMild
  <2>2. CASE UNCHANGED <<status, lease>>
    BY <2>2, StoreSame DEF LeaseMild
  <2> QED BY <2>1, <2>2 DEF Release, Crash, storeVars
<1>5. \A c \in late' \ late : c.op = "start" => c.owner = owner[p] /\ up[p] # "down"
  <2>1. CASE Release(p)
    BY <2>1 DEF Release, GiveUp, ReleaseCall
  <2>2. CASE Crash(p)
    BY <1>1, <2>2, GivenStarts DEF Crash, GiveUp
  <2> QED BY <2>1, <2>2
<1>6. \A q \in Proc : q # p => Accounted(q)'
  BY <1>1, <1>3, <1>4, <1>5, Elsewhere, OwnersDiffer
<1>7. Accounted(p)'
  BY <1>2, ForgottenAt
<1> QED BY <1>6, <1>7 DEF StrayNext

(* A start that runs late begins no turn without a task. *)
LEMMA LateStartStray ==
  ASSUME StrayInv, LateKnown', NEW c \in late, Execute(c), c.op = "start"
  PROVE  \A q \in Proc : Accounted(q)'
<1> SUFFICES ASSUME NEW q \in Proc PROVE Accounted(q)'
  OBVIOUS
<1>1. /\ HostInv /\ Apart /\ StoreTyped /\ LateKnown
      /\ StartsKnown(q) /\ RejectedAt(q) /\ AnsweredAt(q) /\ BeatAt(q)
  BY DEF StrayInv, HostInv, Typed, Accounted
<1>2. /\ UNCHANGED <<up, hb, healthy, owner, demand, pending, job, cancelling, lease>>
      /\ late' = late \ {c} /\ StartEffect(c.turn, c.owner)
  BY DEF Execute, StartEffect, EmitEffect, beatVars, recoveryVars
<1>3. c \in Calls /\ c.turn \in Turns /\ c.owner \in Ids /\ c = StartCall(c.turn, c.owner)
  BY <1>1, StartIs, CallParts DEF LateKnown
<1> DEFINE made == StartAnswer(c.turn, c.owner) = "made"
<1>4. /\ TurnAt(c.turn)
      /\ made => lease.owner = c.owner /\ status[c.turn] = None
      /\ ~made => status' = status
  BY <1>1, <1>2, <1>3, StartAt DEF Guard
<1> HIDE DEF made
<1>5. CASE ~made
  <2>1. StoreMild /\ LeaseMild(q)
    BY <1>2, <1>4, <1>5, StoreSame DEF LeaseMild
  <2> QED BY <1>2, <2>1, Elsewhere
<1>6. CASE made
  <2>1. \A u \in Processing' : u \in Processing \/ u = c.turn
    BY <1>4 DEF TurnAt, Processing
  <2>2. /\ \A u \in Turns : status'[u] = None => status[u] = None
        /\ \A u \in Turns : status[u] \in Endings => status'[u] \in Endings
    BY <1>4 DEF TurnAt
  <2>3. ~Overtaking /\ c.owner = owner[q] => job[q][c.turn].stage = "start" \/ demand[q]
    BY <1>1, <1>4, <1>6 DEF StartsKnown
  <2>4. StartsKnown(q)'
    <3> SUFFICES ASSUME ~Overtaking, NEW d \in late', d.op = "start", d.owner = owner[q], status'[d.turn] = None
                 PROVE  job[q][d.turn].stage = "start" \/ demand[q]
      BY <1>2 DEF StartsKnown
    <3>1. d \in late /\ d.turn \in Turns
      BY <1>1, <1>2, CallParts DEF LateKnown
    <3> QED BY <1>1, <2>2, <3>1 DEF StartsKnown
  <2>5. RejectedAt(q)'
    <3> SUFFICES ASSUME NEW t \in Turns, TurnedDown(q, t)
                 PROVE  /\ StartCallOf(q, t) \notin late'
                        /\ lease.owner = owner[q] => status'[t] # "PROCESSING"
      BY <1>2 DEF RejectedAt, TurnedDown, StartCallOf
    <3>1. StartCallOf(q, t) \notin late /\ (lease.owner = owner[q] => t \notin Processing)
      BY <1>1 DEF RejectedAt, Processing
    <3>2. t = c.turn /\ c.owner = owner[q] => c = StartCallOf(q, t)
      BY <1>3 DEF StartCallOf
    <3>3. lease.owner = owner[q] => t \notin Processing'
      BY <1>4, <1>6, <2>1, <3>1, <3>2
    <3> QED BY <1>2, <3>1, <3>3 DEF Processing
  <2>6. AnsweredAt(q)'
    <3> SUFFICES ASSUME ~Overtaking, up[q] = "up", healthy[q], lease.owner = owner[q],
                        NEW u \in Processing'
                 PROVE  job[q][u].stage \in Answering
      BY <1>2 DEF AnsweredAt
    <3>1. CASE u \in Processing
      BY <1>1, <3>1 DEF AnsweredAt
    <3>2. CASE u = c.turn
      BY <1>1, <1>4, <1>6, <2>3, <3>2 DEF BeatAt, Answering
    <3> QED BY <2>1, <3>1, <3>2
  <2>7. BeatAt(q)'
    <3>1. pending[q] # None => lease.owner # pending[q].to
      BY <1>1, <1>4, <1>6 DEF Apart
    <3>2. \A u \in cancelling[q] : u \in Turns /\ status'[u] \in Endings
      BY <1>1, <2>2 DEF BeatAt, HostInv, HostTyped
    <3> QED BY <1>1, <1>2, <3>1, <3>2 DEF BeatAt
  <2> QED BY <2>4, <2>5, <2>6, <2>7 DEF Accounted
<1> QED BY <1>5, <1>6

(* Calls that run late, expiry and the operator. *)
LEMMA OtherStray ==
  ASSUME StrayInv, LateKnown', ~IsFiniteSet(Ids),
         (\E c \in late : Execute(c)) \/ Expire \/ PauseAdmissions \/ UNCHANGED vars
  PROVE  StrayNext
<1>1. HostInv /\ Apart /\ StoreTyped /\ LateKnown
  BY DEF StrayInv, HostInv, Typed
<1>2. /\ UNCHANGED <<up, hb, healthy, owner, demand, pending, job, cancelling>>
      /\ late' \subseteq late
  BY DEF Execute, Expire, PauseAdmissions, vars, beatVars, recoveryVars
<1>3. ASSUME StoreMild, \A q \in Proc : LeaseMild(q) PROVE StrayNext
  BY <1>2, <1>3, Elsewhere DEF StrayNext
<1>4. ASSUME UNCHANGED status, lease'.owner = lease.owner PROVE StrayNext
  BY <1>3, <1>4, StoreSame DEF LeaseMild
<1>5. ASSUME NEW c \in late, Execute(c) PROVE StrayNext
  <2>1. c \in Calls
    BY <1>1 DEF LateKnown
  <2>2. CASE c.op = "start"
    BY <1>5, <2>2, LateStartStray DEF StrayNext
  <2>3. CASE c.op = "emit" /\ EmitEffect(c.turn, c.owner, c.kind)
    <3>1. c.turn \in Turns /\ c.kind \in Kinds
      BY <2>1, <2>3, CallParts
    <3>2. /\ TurnAt(c.turn) /\ lease' = lease
          /\ status'[c.turn] = "PROCESSING" => status[c.turn] = "PROCESSING"
      BY <1>1, <2>3, <3>1, EmitAt DEF EmitEffect
    <3>3. StoreMild /\ \A q : LeaseMild(q)
      BY <3>2 DEF TurnAt, StoreMild, LeaseMild, Processing
    <3> QED BY <1>3, <3>3
  <2>4. CASE c.op = "lease" /\ LeaseEffect(c.pn)
    BY <1>1, <1>3, <2>4, SweepMild
  <2>5. CASE c.op = "release" /\ ReleaseEffect(c.owner)
    BY <1>1, <1>3, <2>5, ReleaseMild
  <2> QED BY <1>5, <2>2, <2>3, <2>4, <2>5 DEF Execute
<1>6. CASE Expire \/ PauseAdmissions \/ UNCHANGED vars
  <2>1. UNCHANGED status /\ lease'.owner = lease.owner
    BY <1>1, <1>6 DEF HostInv, LeaseTyped, Expire, PauseAdmissions, vars, storeVars
  <2> QED BY <1>4, <2>1
<1> QED BY <1>5, <1>6

(* Every step keeps the account. *)
LEMMA StepStray ==
  ASSUME StrayInv, ~IsFiniteSet(Ids), [Next]_vars
  PROVE  StrayInv'
<1>1. HostInv' /\ LateKnown'
  BY StepHost DEF StrayInv, HostInv
<1>2. ASSUME NEW p \in Proc, NEW t \in Turns,
             \/ Accept(p, t) \/ AcceptUnowned(p, t)
             \/ JobMoves(p, t) \/ JobGivesUp(p, t) \/ StartLost(p, t)
             \/ RunEmit(p, t) \/ FinishLost(p, t)
             \/ Cancel(p, t) \/ CancelLost(p, t) \/ CancelOwned(p, t)
      PROVE  StrayNext
  BY <1>2, TaskStray DEF TaskSteps
<1>3. ASSUME NEW p \in Proc,
             \/ BeatMoves(p) \/ BeatFails(p)
             \/ Restart(p) \/ ShutDown(p) \/ Release(p) \/ Crash(p)
      PROVE  StrayNext
  BY <1>1, <1>3, BeatStray, PreparedStray, LeaseStray, RenewStray, RestartStray, ShutDownStray, GoneStray
     DEF BeatMoves
<1>4. StrayNext
  BY <1>1, <1>2, <1>3, OtherStray DEF Next
<1>5. Apart'
  BY StepApart DEF StrayInv
<1> QED BY <1>1, <1>4, <1>5 DEF StrayInv, StrayNext

LEMMA StrayInit == Init => StrayInv
<1> SUFFICES ASSUME Init PROVE Apart /\ \A p \in Proc : Accounted(p)
  BY HostInit DEF StrayInv
<1>1. Apart
  BY DEF Init, Apart
<1>2. ASSUME NEW p \in Proc PROVE Accounted(p)
  <2>1. /\ late = {} /\ pending[p] = None /\ cancelling[p] = {} /\ up[p] = "down" /\ hb[p] = "off"
        /\ ~healthy[p] /\ \A t \in Turns : job[p][t] = NoJob
    BY DEF Init
  <2>2. StartsKnown(p) /\ RejectedAt(p)
    BY <2>1, JobRecords DEF StartsKnown, RejectedAt, TurnedDown
  <2>3. AnsweredAt(p) /\ BeatAt(p)
    BY <2>1 DEF AnsweredAt, BeatAt
  <2> QED BY <2>2, <2>3 DEF Accounted
<1> QED BY <1>1, <1>2

(* NoStrayTurn: whatever is lost, given up, cancelled or restarted, a *)
(* process that reports ready and holds the lease has a task for every *)
(* turn in processing (the recovery of runtime.py and main.py). A start *)
(* that was given up may still run, but not after a later attempt. *)
THEOREM NobodyStrays ==
  ASSUME ~IsFiniteSet(Ids), ~Overtaking
  PROVE  Spec => []NoStrayTurn
<1>1. StrayInv /\ [Next]_vars => StrayInv'
  BY StepStray
<1>2. StrayInv => NoStrayTurn
  <2>1. ASSUME NEW p \in Proc, Guard(owner[p]) PROVE lease.owner = owner[p]
    BY <2>1 DEF Guard
  <2> QED BY <2>1 DEF StrayInv, Accounted, AnsweredAt, NoStrayTurn, Answering
<1> QED BY <1>1, <1>2, StrayInit, PTL DEF Spec

(* RejectionHolds and RejectionIsDefinitive: a task that is turned down *)
(* with no start of its own still under way stays out of processing, *)
(* whatever overtakes what; the comment of runtime.py:280 is right of every *)
(* rejection only if an attempt given up never runs after a later one. *)
THEOREM RejectedForGood ==
  ASSUME ~IsFiniteSet(Ids)
  PROVE  Spec => [](RejectionHolds /\ (~Overtaking => RejectionIsDefinitive))
<1>1. StrayInv /\ [Next]_vars => StrayInv'
  BY StepStray
<1>2. StrayInv => RejectionHolds /\ (~Overtaking => RejectionIsDefinitive)
  <2>1. ASSUME NEW p \in Proc, Guard(owner[p]) PROVE lease.owner = owner[p]
    BY <2>1 DEF Guard
  <2> QED BY <2>1 DEF StrayInv, Accounted, RejectedAt, TurnedDown, RejectionHolds, RejectionIsDefinitive
<1> QED BY <1>1, <1>2, StrayInit, PTL DEF Spec

----------------------------------------------------------------------------
(* A turn is generated once. *)

Begun == {"run", "finish"}
Asking == {"config", "start"}

Delta(c) == c.op = "emit" /\ c.kind = "delta"

(* A turn without a row has no event, no task that generates it and no *)
(* event under way. *)
NotBegun ==
  \A t \in Turns : status[t] = None =>
    /\ events[t] = <<>>
    /\ \A p \in Proc : job[p][t].stage \notin Begun
    /\ \A c \in late : Delta(c) => c.turn # t

(* Nobody has, or asks for, an owner id whose lease is being given back. *)
ReleasesGone ==
  \A c \in late : c.op = "release" =>
    \A p \in Proc : /\ owner[p] # c.owner
                    /\ pending[p] # None => pending[p].to # c.owner

(* A task generates a turn in processing under the lease of its process. *)
HeldByIts(p) ==
  \A t \in Turns : job[p][t].stage \in Begun /\ status[t] = "PROCESSING" => lease.owner = owner[p]

(* A turn that its owner began, and whose task still asks, has no events. *)
StartsClean(p) ==
  \A t \in Turns : job[p][t].stage \in Asking /\ status[t] = "PROCESSING" /\ lease.owner = owner[p] =>
    events[t] = <<>> /\ \A c \in late : Delta(c) /\ c.turn = t => c.owner # owner[p]

OnceInv ==
  /\ HostInv /\ AloneInv /\ Apart
  /\ NotBegun /\ ReleasesGone /\ \A p \in Proc : HeldByIts(p) /\ StartsClean(p)

----------------------------------------------------------------------------
(* What a step may do to turns, owners, tasks and the lease. *)

(* A turn gets its row without an event, and a row for good. *)
LEMMA RowsMove ==
  ASSUME HostInv, StoreStep, NEW t \in Turns
  PROVE  /\ status'[t] = None => status[t] = None
         /\ status'[t] = "PROCESSING" => status[t] \in {None, "PROCESSING"}
         /\ status[t] = None => events'[t] = events[t]
<1>1. StoreTyped
  BY DEF HostInv, Typed
<1>2. /\ None \notin Endings /\ "PROCESSING" \notin Endings /\ None # "PROCESSING" /\ "FAILED" \in Endings
  BY ChatConstants DEF Endings
<1>3. CASE UNCHANGED <<status, events>>
  BY <1>1, <1>3 DEF StoreTyped, Endings
<1>4. ASSUME NEW u \in Turns, Admission(u) PROVE
         /\ status'[t] = None => status[t] = None
         /\ status'[t] = "PROCESSING" => status[t] \in {None, "PROCESSING"}
         /\ status[t] = None => events'[t] = events[t]
  BY <1>1, <1>2, <1>4 DEF StoreTyped, Admission
<1>5. ASSUME NEW u \in Turns, NEW k \in Kinds, status[u] = "PROCESSING", WriteEvent(u, k) PROVE
         /\ status'[t] = None => status[t] = None
         /\ status'[t] = "PROCESSING" => status[t] \in {None, "PROCESSING"}
         /\ status[t] = None => events'[t] = events[t]
  BY <1>1, <1>2, <1>5 DEF StoreTyped, WriteEvent
<1>6. CASE Sweep
  BY <1>1, <1>2, <1>6 DEF StoreTyped, Sweep, Processing
<1> QED BY <1>3, <1>4, <1>5, <1>6 DEF StoreStep

(* The lease changes hands when it is exchanged, which ends the turns, or *)
(* given back by its owner. *)
GivenBack ==
  /\ lease'.owner = Fresh
  /\ \/ \E p \in Proc : Release(p) /\ lease.owner = owner[p]
     \/ \E c \in late : c.op = "release" /\ lease.owner = c.owner /\ UNCHANGED <<owner, job>>

LEMMA LeaseMoves ==
  ASSUME HostInv, [Next]_vars, lease'.owner # lease.owner
  PROVE  Processing' = {} \/ GivenBack
<1>1. ASSUME NEW pn, LeaseEffect(pn) PROVE Processing' = {}
  <2>1. Sweep /\ "FAILED" # "PROCESSING"
    BY <1>1 DEF LeaseEffect
  <2> QED BY <2>1 DEF Sweep, Processing
<1>2. ASSUME NEW p \in Proc, NEW t \in Turns, TaskSteps(p, t) PROVE FALSE
  BY <1>2, TaskLeaves DEF HeldVars
<1>3. ASSUME NEW p \in Proc, BeatMoves(p) \/ BeatFails(p) PROVE Processing' = {}
  BY <1>1, <1>3 DEF BeatMoves, Beat, Gathered, Inspect, Lease, Renew, BeatFails, storeVars
<1>4. ASSUME NEW p \in Proc, Restart(p) \/ ShutDown(p) \/ Release(p) \/ Crash(p) PROVE GivenBack
  BY <1>4 DEF Restart, ShutDown, Release, Crash, ReleaseEffect, GivenBack, storeVars
<1>5. ASSUME NEW c \in late, Execute(c) PROVE Processing' = {} \/ GivenBack
  BY <1>1, <1>5 DEF Execute, StartEffect, EmitEffect, ReleaseEffect, GivenBack, beatVars
<1>6. CASE Expire \/ PauseAdmissions \/ UNCHANGED vars
  BY <1>6 DEF HostInv, LeaseTyped, Expire, PauseAdmissions, vars, storeVars
<1> QED BY <1>2, <1>3, <1>4, <1>5, <1>6 DEF Next, TaskSteps

(* An owner id is left, fresh or prepared; the one prepared is fresh. *)
OwnerMove(q) ==
  /\ owner'[q] \in {owner[q], None, Fresh} \/ (pending[q] # None /\ owner'[q] = pending[q].to)
  /\ pending'[q] # None => pending'[q] = pending[q] \/ pending'[q].to = Fresh

LEMMA OwnersMove ==
  ASSUME HostInv, [Next]_vars, NEW q \in Proc
  PROVE  OwnerMove(q)
<1>1. HostTyped
  BY DEF HostInv
<1>2. UNCHANGED <<owner, pending>> => OwnerMove(q)
  BY DEF OwnerMove
<1>3. ASSUME NEW p \in Proc, NEW t \in Turns, TaskSteps(p, t) PROVE OwnerMove(q)
  BY <1>2, <1>3, TaskLeaves DEF HeldVars
<1>4. ASSUME NEW p \in Proc, Gathered(p) \/ Inspect(p) PROVE OwnerMove(q)
  BY <1>1, <1>4 DEF Gathered, Inspect, Prepare, HostTyped, OwnerMove
<1>5. ASSUME NEW p \in Proc, Lease(p) PROVE OwnerMove(q)
  <2>1. pending[p] # None
    BY <1>5 DEF Lease, HostInv, HostAt
  <2> QED BY <1>1, <1>5, <2>1 DEF Lease, HostTyped, OwnerMove
<1>6. ASSUME NEW p \in Proc, Beat(p) \/ Renew(p) \/ BeatFails(p) PROVE OwnerMove(q)
  BY <1>2, <1>6 DEF Beat, Renew, BeatFails
<1>7. ASSUME NEW p \in Proc, Restart(p) \/ ShutDown(p) \/ Release(p) \/ Crash(p) PROVE OwnerMove(q)
  BY <1>1, <1>7 DEF Restart, ShutDown, Release, Crash, Forget, HostTyped, OwnerMove
<1>8. CASE (\E c \in late : Execute(c)) \/ Expire \/ PauseAdmissions \/ UNCHANGED vars
  BY <1>2, <1>8 DEF Execute, Expire, PauseAdmissions, vars, beatVars
<1> QED BY <1>3, <1>4, <1>5, <1>6, <1>7, <1>8 DEF Next, TaskSteps, BeatMoves

(* And it changes only when no task of its process can write. *)
LEMMA OwnersAlone ==
  ASSUME HostInv, AloneInv, [Next]_vars, NEW q \in Proc, owner'[q] # owner[q], NEW t \in Turns
  PROVE  job'[q][t].stage \in {"none", "rejected", "exists"}
<1>1. HostTyped /\ JobsTyped
  BY DEF HostInv, Typed
<1>2. ASSUME NEW p \in Proc, NEW u \in Turns, TaskSteps(p, u) PROVE FALSE
  BY <1>2, TaskLeaves DEF HeldVars
<1>3. ASSUME NEW p \in Proc, BeatMoves(p) \/ BeatFails(p) PROVE job'[q][t].stage \in {"none", "rejected", "exists"}
  <2>1. Lease(p) /\ p = q
    BY <1>1, <1>3 DEF BeatMoves, Beat, Gathered, Inspect, Lease, Renew, BeatFails, HostTyped
  <2> QED BY <2>1 DEF Lease, AloneInv, QuietAt, Recovering
<1>4. ASSUME NEW p \in Proc, Restart(p) \/ ShutDown(p) \/ Release(p) \/ Crash(p)
      PROVE  job'[q][t].stage \in {"none", "rejected", "exists"}
  <2>1. p = q /\ (Restart(p) \/ Forget(p))
    BY <1>1, <1>4 DEF Restart, ShutDown, Release, Crash, Forget, HostTyped
  <2>2. CASE Restart(p)
    BY <2>1, <2>2 DEF Restart, HostInv, HostAt
  <2>3. CASE Forget(p)
    BY <1>1, <2>1, <2>3, JobRecords DEF Forget, JobsTyped
  <2> QED BY <2>1, <2>2, <2>3
<1>5. CASE (\E c \in late : Execute(c)) \/ Expire \/ PauseAdmissions \/ UNCHANGED vars
  BY <1>5 DEF Execute, Expire, PauseAdmissions, vars, beatVars
<1> QED BY <1>2, <1>3, <1>4, <1>5 DEF Next, TaskSteps

(* A task begins to generate when start is answered under the lease: its *)
(* turn is made, or has been in processing. *)
Begins(p, t) ==
  /\ lease.owner = owner[p] /\ job[p][t].stage = "start"
  /\ status[t] \in {None, "PROCESSING"} /\ status'[t] = "PROCESSING"
  /\ UNCHANGED <<lease, owner>>

LEMMA TaskBegins ==
  ASSUME HostInv, NEW p \in Proc, NEW t \in Turns, TaskSteps(p, t),
         job'[p][t].stage \in Begun, job[p][t].stage \notin {"run", job'[p][t].stage}
  PROVE  Begins(p, t)
<1> USE DEF Begun
<1>1. JobsTyped /\ StoreTyped
  BY DEF HostInv, Typed
<1>2. UNCHANGED <<lease, owner>>
  BY TaskLeaves DEF HeldVars
<1>3. CASE StartAnswered(p, t)
  <2>1. job[p][t].stage = "start" /\ StartEffect(t, owner[p])
    BY <1>3 DEF StartAnswered
  <2>2. JobEnds(p, t) => job'[p][t].stage = "none"
    BY <1>1, GivenStage
  <2>3. job' = [job EXCEPT ![p][t] = RejectedJob(StartCallOf(p, t) \notin late')] =>
          job'[p][t].stage = "rejected"
    BY <1>1, GivenStage, AnsweredReject
  <2>4. StartUnsure(p, t) => job'[p][t].stage \in {"start", "none"}
    BY <2>1, UnsureAt
  <2>5. \/ StartAnswer(t, owner[p]) = "made"
        \/ StartAnswer(t, owner[p]) = "existing" /\ status[t] = "PROCESSING"
    BY <1>3, <2>2, <2>3, <2>4 DEF StartAnswered, StartFound
  <2>6. Guard(owner[p])
    BY <2>5 DEF StartAnswer
  <2>7. lease.owner = owner[p]
    BY <2>6 DEF Guard
  <2> QED BY <1>1, <1>2, <2>1, <2>5, <2>7, StartAt DEF Begins
<1>4. CASE StartLost(p, t)
  <2>1. job[p][t].stage = "start"
    BY <1>4 DEF StartLost
  <2> QED BY <1>1, <1>4, <2>1, UnsureAt, GivenStage DEF StartLost
<1>5. CASE Accept(p, t) \/ AcceptUnowned(p, t) \/ JobExists(p, t) \/ JobConfigured(p, t) \/ JobGivesUp(p, t)
  <2>1. JobEnds(p, t) => job'[p][t].stage = "none"
    BY <1>1, GivenStage
  <2>2. job' = [job EXCEPT ![p][t] = [NoJob EXCEPT !.stage = "exists"]] => job'[p][t].stage = "exists"
    BY <1>1, GivenStage
  <2>3. \A s : job' = [job EXCEPT ![p][t].stage = s] => job'[p][t].stage = s
    BY <1>1 DEF JobsTyped, Jobs
  <2> QED BY <1>5, <2>1, <2>2, <2>3 DEF Accept, AcceptUnowned, JobExists, JobConfigured, JobGivesUp
<1>6. CASE RunEmit(p, t) \/ RunEnds(p, t)
  BY <1>6 DEF RunEmit, RunEnds
<1>7. CASE FinishAnswered(p, t) \/ FinishLost(p, t) \/ Closed(p, t)
  BY <1>1, <1>7, UnsureAt, GivenStage DEF FinishAnswered, FinishLost, Closed
<1>8. CASE Cancel(p, t) \/ CancelLost(p, t) \/ CancelOwned(p, t)
  <2>1. CancelOwned(p, t) => job'[p][t] = Cancelled(job[p][t])
    BY <1>1 DEF CancelOwned, JobsTyped
  <2> QED BY <1>1, <1>8, <2>1, JobRecords DEF Cancel, CancelLost, JobsTyped
<1> QED BY <1>3, <1>4, <1>5, <1>6, <1>7, <1>8 DEF TaskSteps, JobMoves

(* A task that asks for its turn saw that it had no row. *)
LEMMA TaskAsks ==
  ASSUME HostInv, NEW p \in Proc, NEW t \in Turns, TaskSteps(p, t),
         job[p][t].stage \notin Asking, job'[p][t].stage \in Asking
  PROVE  status'[t] = None
<1> USE DEF Asking
<1>1. JobsTyped
  BY DEF HostInv, Typed
<1>2. CASE JobExists(p, t)
  BY <1>1, <1>2, GivenStage DEF JobExists, storeVars
<1>3. CASE Accept(p, t) \/ AcceptUnowned(p, t) \/ JobConfigured(p, t) \/ JobGivesUp(p, t)
  BY <1>1, <1>3, GivenStage DEF Accept, AcceptUnowned, JobConfigured, JobGivesUp
<1>4. CASE StartAnswered(p, t) \/ StartLost(p, t)
  BY <1>4 DEF StartAnswered, StartLost
<1>5. ASSUME NEW e, Finishing(p, t, e) PROVE job'[p][t].stage = "finish"
  <2> DEFINE j == [NoJob EXCEPT !.stage = "finish", !.ending = e]
  <2>1. j.stage = "finish"
    BY DEF NoJob
  <2>2. job' = [job EXCEPT ![p][t] = j]
    BY <1>5 DEF Finishing
  <2> HIDE DEF j
  <2> QED BY <1>1, <2>1, <2>2 DEF JobsTyped
<1>6. CASE RunEmit(p, t) \/ RunEnds(p, t)
  <2>1. job' = [job EXCEPT ![p][t].stage = "closing"] => job'[p][t].stage = "closing"
    BY <1>1 DEF JobsTyped, Jobs
  <2> QED BY <1>5, <1>6, <2>1 DEF RunEmit, RunEnds
<1>7. CASE FinishAnswered(p, t) \/ FinishLost(p, t) \/ Closed(p, t)
  BY <1>1, <1>7, UnsureAt, GivenStage DEF FinishAnswered, FinishLost, Closed
<1>8. CASE Cancel(p, t) \/ CancelLost(p, t) \/ CancelOwned(p, t)
  <2>1. CancelOwned(p, t) => job'[p][t] = Cancelled(job[p][t])
    BY <1>1 DEF CancelOwned, JobsTyped
  <2> QED BY <1>1, <1>8, <2>1, JobRecords DEF Cancel, CancelLost, JobsTyped
<1> QED BY <1>2, <1>3, <1>4, <1>6, <1>7, <1>8 DEF TaskSteps, JobMoves

(* Of every step: a cancelled task neither generates nor asks. *)
StageMove(p, t) ==
  /\ job'[p][t].stage \in Begun => job[p][t].stage \in {"run", job'[p][t].stage} \/ Begins(p, t)
  /\ job[p][t].stage \notin Asking /\ job'[p][t].stage \in Asking => status'[t] = None

LEMMA StagesMove ==
  ASSUME HostInv, [Next]_vars, NEW p \in Proc, NEW t \in Turns
  PROVE  StageMove(p, t)
<1>1. JobsTyped
  BY DEF HostInv, Typed
<1>2. job'[p][t] = job[p][t] \/ job'[p][t].stage \in {"none", "closing"} => StageMove(p, t)
  BY DEF StageMove, Begun, Asking
<1>3. ASSUME NEW q \in Proc, NEW u \in Turns, TaskSteps(q, u) PROVE StageMove(p, t)
  <2>1. CASE q = p /\ u = t
    BY <1>3, <2>1, TaskBegins, TaskAsks DEF StageMove
  <2>2. CASE q # p \/ u # t
    BY <1>2, <1>3, <2>2, TaskMoves DEF HostInv, TaskMove
  <2> QED BY <2>1, <2>2
<1>4. ASSUME NEW q \in Proc, CancelAll(q) PROVE StageMove(p, t)
  <2>1. job'[p][t] = job[p][t] \/ job'[p][t] = Cancelled(job[p][t])
    BY <1>1, <1>4 DEF CancelAll, JobsTyped
  <2> QED BY <1>1, <1>2, <2>1, JobRecords DEF JobsTyped
<1>5. ASSUME NEW q \in Proc, Forget(q) PROVE StageMove(p, t)
  BY <1>1, <1>2, <1>5, JobRecords DEF Forget, JobsTyped
<1>6. ASSUME NEW q \in Proc, BeatMoves(q) \/ BeatFails(q) PROVE StageMove(p, t)
  BY <1>2, <1>4, <1>6 DEF BeatMoves, Beat, Gathered, Inspect, Lease, Renew, BeatFails
<1>7. ASSUME NEW q \in Proc, Restart(q) \/ ShutDown(q) \/ Release(q) \/ Crash(q) PROVE StageMove(p, t)
  BY <1>2, <1>4, <1>5, <1>7 DEF Restart, ShutDown, Release, Crash
<1>8. CASE (\E c \in late : Execute(c)) \/ Expire \/ PauseAdmissions \/ UNCHANGED vars
  BY <1>2, <1>8 DEF Execute, Expire, PauseAdmissions, vars
<1> QED BY <1>3, <1>6, <1>7, <1>8 DEF Next, TaskSteps

(* What emit writes, it writes under the lease, to its turn. *)
LEMMA EmitEvents ==
  ASSUME HostInv, NEW t \in Turns, NEW u \in Turns, NEW o, NEW k \in Kinds, EmitEffect(u, o, k),
         events'[t] # events[t]
  PROVE  u = t /\ lease.owner = o /\ (k \in Endings => status'[t] \in Endings)
<1>1. StoreTyped
  BY DEF HostInv, Typed
<1>2. WriteEvent(u, k) /\ EmitAnswer(u, o) = "ok"
  BY DEF EmitEffect
<1>3. Guard(o)
  BY <1>2 DEF EmitAnswer
<1>4. lease.owner = o
  BY <1>3 DEF Guard
<1>5. u = t
  BY <1>1, <1>2 DEF WriteEvent, StoreTyped
<1> QED BY <1>1, <1>2, <1>4, <1>5 DEF WriteEvent, StoreTyped

(* A turn gets an event from its task, or one that comes late, under the *)
(* lease, or it ends. *)
EventMove(t) ==
  \/ status'[t] # "PROCESSING"
  \/ \E p \in Proc : job[p][t].stage = "run" /\ lease.owner = owner[p]
  \/ \E c \in late : Delta(c) /\ c.turn = t /\ c.owner = lease.owner

LEMMA EventsMove ==
  ASSUME HostInv, [Next]_vars, NEW t \in Turns, events'[t] # events[t]
  PROVE  EventMove(t)
<1>1. JobsTyped /\ StoreTyped /\ late \subseteq Calls
  BY DEF HostInv, Typed, LateKnown
<1>2. "PROCESSING" \notin Endings
  BY DEF Endings
<1>3. ASSUME NEW pn, LeaseEffect(pn) PROVE EventMove(t)
  <2>1. Sweep /\ "FAILED" # "PROCESSING"
    BY <1>1, <1>3 DEF LeaseEffect
  <2> QED BY <2>1 DEF Sweep, Processing, EventMove
<1>4. ASSUME NEW u \in Turns, NEW o, NEW k \in Endings, EmitEffect(u, o, k) PROVE EventMove(t)
  BY <1>2, <1>4, EmitEvents DEF Kinds, EventMove
<1>5. ASSUME NEW p \in Proc, NEW u \in Turns, TaskSteps(p, u) PROVE EventMove(t)
  <2>1. CASE RunEmit(p, u)
    BY <2>1, EmitEvents DEF RunEmit, Kinds, EventMove
  <2>2. CASE FinishAnswered(p, u)
    BY <1>1, <1>4, <2>2 DEF FinishAnswered, JobsTyped
  <2>3. CASE Cancel(p, u)
    BY <1>4, <2>3 DEF Cancel, Endings
  <2>4. CASE StartAnswered(p, u)
    BY <2>4 DEF StartAnswered, StartEffect
  <2>5. CASE \/ Accept(p, u) \/ AcceptUnowned(p, u) \/ JobExists(p, u) \/ JobConfigured(p, u)
             \/ RunEnds(p, u) \/ Closed(p, u) \/ JobGivesUp(p, u) \/ StartLost(p, u)
             \/ FinishLost(p, u) \/ CancelLost(p, u) \/ CancelOwned(p, u)
    BY <2>5 DEF Accept, AcceptUnowned, JobExists, JobConfigured, RunEnds, Closed, JobGivesUp, StartLost,
                FinishLost, CancelLost, CancelOwned, storeVars
  <2> QED BY <1>5, <2>1, <2>2, <2>3, <2>4, <2>5 DEF TaskSteps, JobMoves
<1>6. ASSUME NEW p \in Proc, BeatMoves(p) \/ BeatFails(p) PROVE EventMove(t)
  BY <1>3, <1>6 DEF BeatMoves, Beat, Gathered, Inspect, Lease, Renew, BeatFails, storeVars
<1>7. ASSUME NEW p \in Proc, Restart(p) \/ ShutDown(p) \/ Release(p) \/ Crash(p) PROVE FALSE
  BY <1>7 DEF Restart, ShutDown, Release, Crash, ReleaseEffect, storeVars
<1>8. ASSUME NEW c \in late, Execute(c) PROVE EventMove(t)
  <2>1. CASE c.op = "emit" /\ EmitEffect(c.turn, c.owner, c.kind)
    <3>1. c.turn \in Turns /\ c.kind \in Kinds
      BY <1>1, <2>1, CallParts
    <3> QED BY <1>2, <2>1, <3>1, EmitEvents DEF Kinds, EventMove, Delta
  <2> QED BY <1>3, <1>8, <2>1 DEF Execute, StartEffect, ReleaseEffect
<1>9. CASE Expire \/ PauseAdmissions \/ UNCHANGED vars
  BY <1>9 DEF Expire, PauseAdmissions, vars, storeVars
<1> QED BY <1>5, <1>6, <1>7, <1>8, <1>9 DEF Next, TaskSteps

----------------------------------------------------------------------------
(* The invariant. *)

LEMMA StepNotBegun ==
  ASSUME OnceInv, [Next]_vars
  PROVE  NotBegun'
<1>1. HostInv /\ NotBegun
  BY DEF OnceInv
<1>2. StoreStep
  BY <1>1, StepTyped DEF HostInv
<1> SUFFICES ASSUME NEW t \in Turns, status'[t] = None
             PROVE  /\ events'[t] = <<>>
                    /\ \A p \in Proc : job'[p][t].stage \notin Begun
                    /\ \A c \in late' : Delta(c) => c.turn # t
  BY DEF NotBegun
<1>3. status[t] = None /\ events'[t] = <<>> /\ None # "PROCESSING"
  BY <1>1, <1>2, RowsMove, ChatConstants DEF NotBegun
<1>4. \A p \in Proc : job'[p][t].stage \notin Begun
  BY <1>1, <1>3, StagesMove DEF NotBegun, StageMove, Begins, Begun
<1>5. ASSUME NEW c \in late' \ late, Delta(c), c.turn = t PROVE FALSE
  <2>1. PICK p \in Proc : OwnCall(p, c)
    BY <1>1, <1>5, GivenUpOwn
  <2> QED BY <1>1, <1>3, <1>5, <2>1 DEF OwnCall, Delta, NotBegun, Begun
<1> QED BY <1>1, <1>3, <1>4, <1>5 DEF NotBegun

LEMMA StepReleases ==
  ASSUME OnceInv, ~IsFiniteSet(Ids), [Next]_vars
  PROVE  ReleasesGone'
<1>1. HostInv /\ Apart /\ ReleasesGone
  BY DEF OnceInv
<1> SUFFICES ASSUME NEW c \in late', c.op = "release", NEW q \in Proc
             PROVE  owner'[q] # c.owner /\ (pending'[q] # None => pending'[q].to # c.owner)
  BY DEF ReleasesGone
<1>2. c \in Calls
  BY <1>1, StepHost DEF HostInv, LateKnown
<1>3. c.owner # None
  BY <1>2, CallParts, ChatConstants
<1>4. OwnerMove(q)
  BY <1>1, OwnersMove
<1>5. CASE c \in late
  <2>1. c.owner # Fresh
    BY <1>1, <1>5, FreshIsNew DEF Referenced, OwnersOf
  <2> QED BY <1>1, <1>3, <1>4, <1>5, <2>1 DEF ReleasesGone, OwnerMove
<1>6. CASE c \notin late
  <2>1. PICK p \in Proc : up[p] # "down" /\ c.owner = owner[p] /\ Forget(p)
    BY <1>1, <1>6, GivenUpOwn DEF OwnCall
  <2>2. owner' = [owner EXCEPT ![p] = None] /\ pending' = [pending EXCEPT ![p] = None]
    BY <2>1 DEF Forget
  <2>3. q # p => owner[q] # owner[p]
    BY <1>1, <2>1, OwnersDiffer
  <2> QED BY <1>1, <1>3, <2>1, <2>2, <2>3 DEF HostInv, HostTyped, Apart
<1> QED BY <1>5, <1>6

(* The lease is not taken from a task but by an exchange. *)
LEMMA LeaseOfTask ==
  ASSUME OnceInv, ~IsFiniteSet(Ids), [Next]_vars, NEW p \in Proc, NEW t \in Processing',
         lease.owner = owner[p], job[p][t].stage # "none", job'[p][t].stage # "none"
  PROVE  lease'.owner = lease.owner
<1>1. HostInv /\ Apart /\ ReleasesGone /\ JobsTyped
  BY DEF OnceInv, HostInv, Typed
<1>2. up[p] # "down" /\ t \in Turns
  BY <1>1 DEF HostInv, HostAt, Processing
<1>3. ASSUME NEW q \in Proc, Release(q), lease.owner = owner[q] PROVE FALSE
  <2>1. q = p
    BY <1>1, <1>2, <1>3, OwnersDiffer
  <2>2. job'[p][t] = NoJob
    BY <1>1, <1>2, <1>3, <2>1 DEF Release, Forget, JobsTyped
  <2> QED BY <2>2, JobRecords
<1>4. ASSUME GivenBack PROVE FALSE
  BY <1>1, <1>3, <1>4 DEF GivenBack, ReleasesGone
<1> QED BY <1>1, <1>4, LeaseMoves

LEMMA StepHeld ==
  ASSUME OnceInv, ~IsFiniteSet(Ids), [Next]_vars, NEW p \in Proc
  PROVE  HeldByIts(p)'
<1>1. HostInv /\ AloneInv /\ NotBegun /\ HeldByIts(p)
  BY DEF OnceInv
<1>2. StoreStep
  BY <1>1, StepTyped DEF HostInv
<1> SUFFICES ASSUME NEW t \in Turns, job'[p][t].stage \in Begun, status'[t] = "PROCESSING"
             PROVE  lease'.owner = owner'[p]
  BY DEF HeldByIts
<1>3. CASE job[p][t].stage \notin Begun
  <2>1. Begins(p, t)
    BY <1>1, <1>3, StagesMove DEF StageMove, Begun
  <2> QED BY <2>1 DEF Begins
<1>4. CASE job[p][t].stage \in Begun
  <2>1. status[t] = "PROCESSING"
    BY <1>1, <1>2, <1>4, RowsMove DEF NotBegun
  <2>2. lease.owner = owner[p]
    BY <1>1, <1>4, <2>1 DEF HeldByIts
  <2>3. owner'[p] = owner[p]
    BY <1>1, OwnersAlone DEF Begun
  <2>4. lease'.owner = lease.owner
    BY <1>4, <2>2, LeaseOfTask DEF Begun, Processing
  <2> QED BY <2>2, <2>3, <2>4
<1> QED BY <1>3, <1>4

LEMMA StepClean ==
  ASSUME OnceInv, ~IsFiniteSet(Ids), [Next]_vars, NEW p \in Proc
  PROVE  StartsClean(p)'
<1>1. HostInv /\ AloneInv /\ Apart /\ NotBegun /\ StartsClean(p)
  BY DEF OnceInv
<1>2. StoreStep
  BY <1>1, StepTyped DEF HostInv
<1> SUFFICES ASSUME NEW t \in Turns, job'[p][t].stage \in Asking, status'[t] = "PROCESSING",
                    lease'.owner = owner'[p]
             PROVE  /\ events'[t] = <<>>
                    /\ \A c \in late' : Delta(c) /\ c.turn = t => c.owner # owner'[p]
  BY DEF StartsClean
<1>3. job[p][t].stage \in Asking
  BY <1>1, StagesMove, ChatConstants DEF StageMove
<1>4. owner'[p] = owner[p] /\ up[p] # "down"
  BY <1>1, <1>3, OwnersAlone DEF Asking, HostInv, HostAt
<1>5. lease.owner = owner[p]
  <2> SUFFICES ASSUME lease'.owner # lease.owner PROVE FALSE
    BY <1>4
  <2>1. lease'.owner = Fresh
    BY <1>1, LeaseMoves DEF GivenBack, Processing
  <2> QED BY <1>1, <1>4, <2>1, FreshNamesNone
<1>6. \A q \in Proc : job[q][t].stage = "run" => owner[q] # owner[p]
  BY <1>1, <1>3, <1>4, OwnersDiffer DEF Asking
<1>7. ASSUME NEW c \in late' \ late, Delta(c), c.turn = t PROVE c.owner # owner[p]
  <2>1. PICK q \in Proc : OwnCall(q, c)
    BY <1>1, <1>7, GivenUpOwn
  <2> QED BY <1>6, <1>7, <2>1 DEF OwnCall, Delta
<1>8. CASE status[t] = None
  BY <1>1, <1>2, <1>4, <1>7, <1>8, RowsMove DEF NotBegun
<1>9. CASE status[t] = "PROCESSING"
  <2>1. events[t] = <<>> /\ \A c \in late : Delta(c) /\ c.turn = t => c.owner # owner[p]
    BY <1>1, <1>3, <1>5, <1>9 DEF StartsClean
  <2>2. ~EventMove(t)
    BY <1>5, <1>6, <2>1 DEF EventMove
  <2> QED BY <1>1, <1>4, <1>7, <2>1, <2>2, EventsMove
<1> QED BY <1>1, <1>2, <1>8, <1>9, RowsMove

LEMMA OnceInit == Init => OnceInv
<1> SUFFICES ASSUME Init PROVE OnceInv
  OBVIOUS
<1>1. HostInv /\ AloneInv
  BY HostInit, AloneInit
<1>2. Apart
  BY StrayInit DEF StrayInv
<1>3. /\ late = {} /\ \A t \in Turns : status[t] = None /\ events[t] = <<>>
      /\ \A p \in Proc, t \in Turns : job[p][t] = NoJob
  BY DEF Init
<1>4. NotBegun /\ ReleasesGone
  BY <1>3, JobRecords DEF NotBegun, ReleasesGone, Begun
<1>5. \A p \in Proc : HeldByIts(p) /\ StartsClean(p)
  BY <1>3, ChatConstants DEF HeldByIts, StartsClean
<1> QED BY <1>1, <1>2, <1>4, <1>5 DEF OnceInv

(* GeneratedOnce: an admission that was repeated, lost, given up or raced *)
(* by another process lets one task generate, and no event was written *)
(* before it (start of store.py, the retries of runtime.py:287). *)
THEOREM GeneratesOnce ==
  ASSUME ~IsFiniteSet(Ids)
  PROVE  Spec => GeneratedOnce
<1>1. OnceInv /\ [Next]_vars => OnceInv'
  <2> SUFFICES ASSUME OnceInv, [Next]_vars PROVE OnceInv'
    OBVIOUS
  <2>1. HostInv' /\ AloneInv' /\ Apart'
    BY StepHost, StepAlone, StepApart DEF OnceInv
  <2> QED BY <2>1, StepNotBegun, StepReleases, StepHeld, StepClean DEF OnceInv
<1>2. OnceInv /\ [Next]_vars =>
        [\A p \in Proc, t \in Turns :
           job[p][t].stage # "run" /\ job'[p][t].stage = "run" =>
             events[t] = <<>> /\ \A q \in Proc \ {p} : job[q][t].stage \notin {"run", "finish"}]_vars
  <2> SUFFICES ASSUME OnceInv, [Next]_vars, NEW p \in Proc, NEW t \in Turns,
                      job[p][t].stage # "run", job'[p][t].stage = "run"
               PROVE  events[t] = <<>> /\ \A q \in Proc \ {p} : job[q][t].stage \notin {"run", "finish"}
    OBVIOUS
  <2>1. HostInv /\ Apart /\ NotBegun /\ StartsClean(p) /\ \A q \in Proc : HeldByIts(q)
    BY DEF OnceInv
  <2>2. Begins(p, t)
    BY <2>1, StagesMove DEF StageMove, Begun
  <2>3. CASE status[t] = None
    BY <2>1, <2>3 DEF NotBegun, Begun
  <2>4. CASE status[t] = "PROCESSING"
    <3>1. events[t] = <<>>
      BY <2>1, <2>2, <2>4 DEF Begins, StartsClean, Asking
    <3>2. up[p] # "down"
      BY <2>1, <2>2 DEF Begins, HostInv, HostAt
    <3>3. ASSUME NEW q \in Proc \ {p}, job[q][t].stage \in {"run", "finish"} PROVE FALSE
      <4>1. lease.owner = owner[q] /\ lease.owner = owner[p]
        BY <2>1, <2>2, <2>4, <3>3 DEF HeldByIts, Begins, Begun
      <4> QED BY <2>1, <3>2, <3>3, <4>1, OwnersDiffer
    <3> QED BY <3>1, <3>3
  <2> QED BY <2>2, <2>3, <2>4 DEF Begins
<1> QED BY <1>1, <1>2, OnceInit, PTL DEF Spec, GeneratedOnce

=============================================================================
