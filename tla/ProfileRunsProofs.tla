-------------------------- MODULE ProfileRunsProofs --------------------------
(***************************************************************************)
(* Proofs about ProfileRuns, for every number of recipients, versions,     *)
(* bodies, processes, workers and faults: the rows and the ledger, what is *)
(* kept for Chat, and what the run lock keeps of a row.                    *)
(***************************************************************************)
EXTENDS MCProfileScenarios, TLAPS

(* The initial states are typed. *)
LEMMA TypeInit == Init => TypeOK
<1> SUFFICES ASSUME Init PROVE TypeOK
  OBVIOUS
<1>1. InputTypeOK
  BY DEF Init, InputInit, InputTypeOK
<1>2. RunTypeOK
  BY DEF Init, NoRow, Rows, RunTypeOK
<1>3. FlowTypeOK
  BY DEF Init, FlowTypeOK
<1>4. WorkerTypeOK
  BY RunConstants DEF Init, WorkerTypeOK, Stages, Statuses, Carrying
<1>5. BackendTypeOK
  BY InputConstants DEF Init, BackendTypeOK
<1> QED
  BY <1>1, <1>2, <1>3, <1>4, <1>5, RunConstants DEF Init, TypeOK

----------------------------------------------------------------------------
(* Parts that a step leaves alone stay typed. *)
LEMMA InputFrame == InputTypeOK /\ UNCHANGED inputVars => InputTypeOK'
  BY DEF InputTypeOK, inputVars
(* Steps that touch no table keep the tables typed. *)
LEMMA RunFrame == RunTypeOK /\ UNCHANGED dbVars => RunTypeOK'
  BY DEF RunTypeOK, dbVars
(* Steps that touch no queue keep the queues typed. *)
LEMMA FlowFrame == FlowTypeOK /\ UNCHANGED flowVars => FlowTypeOK'
  BY DEF FlowTypeOK, flowVars
(* Steps that touch no worker keep the workers typed. *)
LEMMA WorkerFrame == WorkerTypeOK /\ UNCHANGED workerVars => WorkerTypeOK'
  BY DEF WorkerTypeOK, workerVars
(* Steps that leave Backend alone keep its state typed. *)
LEMMA BackendFrame == BackendTypeOK /\ UNCHANGED beVars => BackendTypeOK'
  BY DEF BackendTypeOK, beVars

(* A fault is taken from the faults left, or none is. *)
LEMMA FaultTyped == faults \in 0 .. MaxFaults /\ (Fault \/ NoFault) => faults' \in 0 .. MaxFaults
  BY RunConstants DEF Fault, NoFault

(* Saving the row of a worker keeps the table typed. *)
LEMMA SaveTyped ==
  ASSUME RunTypeOK, NEW w \in Workers, job[w] \in Requests,
         NEW status \in Statuses, NEW result \in Results \cup {None}, SaveRun(w, status, result)
  PROVE  runs' \in [Recipients -> [Versions -> Rows]]
<1>1. \A old \in Rows : Upserted(old, status, job[w].hash, result) \in Rows
  BY DEF Upserted, Rows, Requests
<1>2. job[w].rid \in Recipients /\ job[w].ver \in Versions
  BY DEF Requests
<1> QED
  BY <1>1, <1>2 DEF RunTypeOK, SaveRun

(* The frames of an action, and what it says of the faults left. *)
LEMMA RestTyped ==
  ASSUME TypeOK
  PROVE  /\ UNCHANGED inputVars => InputTypeOK'
         /\ UNCHANGED dbVars => RunTypeOK'
         /\ UNCHANGED flowVars => FlowTypeOK'
         /\ UNCHANGED workerVars => WorkerTypeOK'
         /\ UNCHANGED beVars => BackendTypeOK'
         /\ UNCHANGED catalog => catalog' \in Catalogs \cup {None}
         /\ UNCHANGED faults => faults' \in 0 .. MaxFaults
         /\ (Fault \/ NoFault) => faults' \in 0 .. MaxFaults
  BY InputFrame, RunFrame, FlowFrame, WorkerFrame, BackendFrame, FaultTyped DEF TypeOK

(* Steps of Backend, of intake and of the surroundings. *)
LEMMA BackendStepTyped == TypeOK /\ BackendStep => TypeOK'
<1> SUFFICES ASSUME TypeOK, NEW r \in Recipients, NEW h \in Hashes,
                    BackendIssue(r, h) \/ BackendRebody(r, h)
             PROVE  TypeOK'
  BY DEF BackendStep
<1>1. BackendTypeOK'
  <2>1. CASE BackendIssue(r, h)
    BY <2>1, InputConstants DEF TypeOK, BackendTypeOK, BackendIssue, Versions
  <2>2. CASE BackendRebody(r, h)
    <3>1. beVersion[r] \in Versions
      BY <2>2, InputConstants DEF TypeOK, BackendTypeOK, BackendRebody, Versions
    <3> QED BY <2>2, <3>1 DEF TypeOK, BackendTypeOK, BackendRebody
  <2> QED BY <2>1, <2>2
<1> QED
  BY <1>1, RestTyped DEF TypeOK, BackendIssue, BackendRebody, dbVars, flowVars, inputVars, workerVars

(* record() keeps the input store typed. *)
LEMMA RecordInputTyped ==
  ASSUME InputTypeOK, NEW r \in Recipients, NEW v \in Versions, NEW h \in Hashes,
         NEW p \in Profiles \cup {None}, NEW run, RecordInput(r, v, h, p, run)
  PROVE  InputTypeOK'
<1>1. versions' \in [Recipients -> [Versions -> Hashes \cup {None}]]
  BY DEF InputTypeOK, RecordInput
<1>2. latest' \in [Recipients -> Inputs \cup {None}]
  BY DEF InputTypeOK, RecordInput, LatestAfter, Inputs
<1>3. analysis' \in [Recipients -> Profiles \cup {None}]
  BY DEF InputTypeOK, RecordInput
<1> QED BY <1>1, <1>2, <1>3 DEF InputTypeOK

(* Admission keeps the queues typed. *)
LEMMA EnqueueTyped ==
  ASSUME FlowTypeOK, NEW p \in Processes, NEW q \in Requests, Enqueue(p, q)
  PROVE  queue' \in [Processes -> Seq(Requests)]
  BY DEF FlowTypeOK, Enqueue

(* A step of intake keeps the state typed. *)
LEMMA IntakeStepTyped ==
  ASSUME TypeOK, NEW p \in Processes, IntakeStep(p)
  PROVE  TypeOK'
<1>1. ASSUME NEW q \in Requests, Receive(p, q) PROVE TypeOK'
  <2>1. q.rid \in Recipients /\ q.ver \in Versions /\ q.hash \in Hashes
    BY DEF Requests
  <2>2. profile[q.rid] \in Profiles \cup {None}
    BY <2>1 DEF TypeOK, RunTypeOK
  <2>3. InputTypeOK'
    BY <1>1, <2>1, <2>2, RecordInputTyped, RestTyped DEF TypeOK, Receive
  <2>4. FlowTypeOK'
    <3>1. queue' \in [Processes -> Seq(Requests)]
      BY <1>1, EnqueueTyped DEF TypeOK, FlowTypeOK, Receive
    <3>2. admitting' \in [Processes -> SUBSET Requests]
      BY <1>1 DEF TypeOK, FlowTypeOK, Receive
    <3> QED BY <1>1, <3>1, <3>2 DEF TypeOK, FlowTypeOK, Receive
  <2>5. faults' \in 0 .. MaxFaults
    BY <1>1, RestTyped DEF Receive
  <2> QED
    BY <1>1, <2>3, <2>4, <2>5, RestTyped DEF TypeOK, Receive
<1>2. ASSUME NEW q \in admitting[p], Submit(p, q) PROVE TypeOK'
  <2>1. q \in Requests
    BY <1>2 DEF TypeOK, FlowTypeOK
  <2>2. FlowTypeOK'
    BY <1>2, <2>1, EnqueueTyped DEF TypeOK, FlowTypeOK, Submit
  <2> QED
    BY <1>2, <2>2, RestTyped DEF TypeOK, Submit
<1> QED
  BY <1>1, <1>2 DEF IntakeStep

(* Workers that forget their jobs stay typed. *)
LEMMA ForgetTyped ==
  ASSUME WorkerTypeOK, NEW ws, Forget(ws)
  PROVE  WorkerTypeOK'
  BY RunConstants DEF WorkerTypeOK, Forget, Stages, Statuses, Carrying

(* The updates of a row that are not a save. *)
LEMMA RowsTyped ==
  ASSUME NEW row \in Rows
  PROVE  /\ [row EXCEPT !.status = "FAILED", !.aged = FALSE] \in Rows
         /\ [row EXCEPT !.aged = TRUE] \in Rows
         /\ [row EXCEPT !.status = "SUPERSEDED"] \in Rows
  BY DEF Rows, Statuses

(* Steps of the surroundings keep the state typed. *)
LEMMA SurroundingsTyped ==
  ASSUME TypeOK
  PROVE  /\ \A p \in Processes : Crash(p) \/ Restart(p) => TypeOK'
         /\ \A w \in Workers : LoseSession(w) => TypeOK'
         /\ \A r \in Recipients, v \in Versions : Age(r, v) => TypeOK'
         /\ \A c \in Catalogs \cup {None} : SwitchCatalog(c) => TypeOK'
<1>1. ASSUME NEW p \in Processes, Crash(p) PROVE TypeOK'
  <2>1. WorkerTypeOK'
    BY <1>1, ForgetTyped DEF TypeOK, Crash
  <2>2. FlowTypeOK'
    BY <1>1 DEF TypeOK, FlowTypeOK, Crash
  <2> QED BY <1>1, <2>1, <2>2, RestTyped DEF TypeOK, Crash
<1>2. ASSUME NEW p \in Processes, Restart(p) PROVE TypeOK'
  <2>1. RunTypeOK'
    BY <1>2, RowsTyped DEF TypeOK, RunTypeOK, Restart, dbVars
  <2>2. FlowTypeOK'
    BY <1>2 DEF TypeOK, FlowTypeOK, Restart
  <2> QED BY <1>2, <2>1, <2>2, RestTyped DEF TypeOK, Restart
<1>3. ASSUME NEW w \in Workers, LoseSession(w) PROVE TypeOK'
  <2>1. WorkerTypeOK'
    BY <1>3 DEF TypeOK, WorkerTypeOK, LoseSession
  <2> QED BY <1>3, <2>1, RestTyped DEF TypeOK, LoseSession
<1>4. ASSUME NEW r \in Recipients, NEW v \in Versions, Age(r, v) PROVE TypeOK'
  <2>1. RunTypeOK'
    <3>1. [runs[r][v] EXCEPT !.aged = TRUE] \in Rows
      BY RowsTyped DEF TypeOK, RunTypeOK
    <3>2. runs' = [runs EXCEPT ![r] = [runs[r] EXCEPT ![v] = [runs[r][v] EXCEPT !.aged = TRUE]]]
      BY <1>4 DEF Age
    <3> QED BY <1>4, <3>1, <3>2 DEF TypeOK, RunTypeOK, Age
  <2> QED BY <1>4, <2>1, RestTyped DEF TypeOK, Age
<1>5. ASSUME NEW c \in Catalogs \cup {None}, SwitchCatalog(c) PROVE TypeOK'
  BY <1>5, RestTyped DEF TypeOK, SwitchCatalog
<1> QED
  BY <1>1, <1>2, <1>3, <1>4, <1>5

----------------------------------------------------------------------------
(* Steps of a worker. *)
LEMMA WorkerStepTyped ==
  ASSUME TypeOK, NEW w \in Workers, WorkerStep(w)
  PROVE  TypeOK'
<1> USE DEF Go, Carrying, Stages
<1>1. CASE Take(w)
  <2>1. Home[w] \in Processes /\ queue[Home[w]] \in Seq(Requests)
    BY RunConstants DEF TypeOK, FlowTypeOK
  <2>2. Head(queue[Home[w]]) \in Requests /\ Tail(queue[Home[w]]) \in Seq(Requests)
    BY <1>1, <2>1 DEF Take
  <2>3. WorkerTypeOK'
    BY <1>1, <2>2 DEF TypeOK, WorkerTypeOK, Take
  <2>4. FlowTypeOK'
    BY <1>1, <2>1, <2>2 DEF TypeOK, FlowTypeOK, Take
  <2> QED BY <1>1, <2>3, <2>4, RestTyped DEF TypeOK, Take
<1>2. CASE LockKey(w)
  <2>1. WorkerTypeOK'
    BY <1>2 DEF TypeOK, WorkerTypeOK, LockKey, AfterLock
  <2>2. faults' \in 0 .. MaxFaults
    BY <1>2, RestTyped DEF LockKey
  <2> QED BY <1>2, <2>1, <2>2, RestTyped DEF TypeOK, LockKey
<1>3. CASE CheckInput(w)
  <2>1. WorkerTypeOK'
    BY <1>3 DEF TypeOK, WorkerTypeOK, CheckInput
  <2>2. faults' \in 0 .. MaxFaults
    BY <1>3, RestTyped DEF CheckInput
  <2> QED BY <1>3, <2>1, <2>2, RestTyped DEF TypeOK, CheckInput
<1>4. CASE Decide(w)
  <2>1. Row(w) \in Rows
    BY <1>4 DEF TypeOK, RunTypeOK, WorkerTypeOK, Decide, Row, Requests
  <2>2. Verdict(Row(w), job[w].hash) = "resend" => Row(w).result \in Results
    BY <2>1 DEF Verdict, Rows
  <2>3. WorkerTypeOK'
    BY <1>4, <2>2, RunConstants DEF TypeOK, WorkerTypeOK, Decide
  <2>4. faults' \in 0 .. MaxFaults
    BY <1>4, RestTyped DEF Decide, StatementOk, StatementFails
  <2> QED BY <1>4, <2>3, <2>4, RestTyped DEF TypeOK, Decide
<1>5. CASE StartRun(w)
  <2>1. WorkerTypeOK'
    BY <1>5 DEF TypeOK, WorkerTypeOK, StartRun
  <2>2. RunTypeOK'
    BY <1>5, SaveTyped, RestTyped DEF TypeOK, RunTypeOK, WorkerTypeOK, StartRun, Statuses
  <2>3. faults' \in 0 .. MaxFaults
    BY <1>5, RestTyped DEF StartRun, StatementOk, StatementFails
  <2> QED BY <1>5, <2>1, <2>2, <2>3, RestTyped DEF TypeOK, StartRun
<1>6. CASE Analyse(w)
  <2>1. WorkerTypeOK'
    BY <1>6 DEF TypeOK, WorkerTypeOK, Analyse, Results, Requests
  <2>2. faults' \in 0 .. MaxFaults
    BY <1>6, RestTyped DEF Analyse
  <2> QED BY <1>6, <2>1, <2>2, RestTyped DEF TypeOK, Analyse
<1>7. CASE CommitResult(w)
  <2>1. WorkerTypeOK'
    BY <1>7 DEF TypeOK, WorkerTypeOK, CommitResult
  <2>2. RunTypeOK'
    BY <1>7, SaveTyped, RestTyped DEF TypeOK, RunTypeOK, WorkerTypeOK, CommitResult, Statuses
  <2>3. faults' \in 0 .. MaxFaults
    BY <1>7, RestTyped DEF CommitResult, StatementOk, StatementFails
  <2> QED BY <1>7, <2>1, <2>2, <2>3, RestTyped DEF TypeOK, CommitResult
<1>8. CASE UpsertProfile(w)
  <2>1. WorkerTypeOK'
    BY <1>8, RunConstants DEF TypeOK, WorkerTypeOK, UpsertProfile
  <2>2. RunTypeOK'
    BY <1>8 DEF TypeOK, RunTypeOK, WorkerTypeOK, UpsertProfile, Profiles, Requests
  <2>3. faults' \in 0 .. MaxFaults
    BY <1>8, RestTyped DEF UpsertProfile, StatementOk, StatementFails
  <2> QED BY <1>8, <2>1, <2>2, <2>3, RestTyped DEF TypeOK, UpsertProfile
<1>9. CASE KeepReceipt(w)
  <2>1. WorkerTypeOK'
    BY <1>9, RunConstants DEF TypeOK, WorkerTypeOK, KeepReceipt
  <2>2. InputTypeOK'
    BY <1>9 DEF TypeOK, InputTypeOK, WorkerTypeOK, KeepReceipt, RecordAnalysis, Profiles, Requests, inputVars
  <2>3. faults' \in 0 .. MaxFaults
    BY <1>9, RestTyped DEF KeepReceipt
  <2> QED BY <1>9, <2>1, <2>2, <2>3, RestTyped DEF TypeOK, KeepReceipt
<1>10. CASE FailRun(w)
  <2>1. WorkerTypeOK'
    BY <1>10 DEF TypeOK, WorkerTypeOK, FailRun
  <2>2. RunTypeOK'
    BY <1>10, SaveTyped, RestTyped DEF TypeOK, RunTypeOK, WorkerTypeOK, FailRun, Statuses
  <2>3. faults' \in 0 .. MaxFaults
    BY <1>10, RestTyped DEF FailRun, StatementOk, StatementFails
  <2> QED BY <1>10, <2>1, <2>2, <2>3, RestTyped DEF TypeOK, FailRun
<1>11. CASE Send(w)
  <2>1. \A status \in Statuses : Attempted(w, status) => WorkerTypeOK'
    BY <1>11, RunConstants DEF TypeOK, WorkerTypeOK, Send, Attempted
  <2>2. WorkerTypeOK'
    BY <1>11, <2>1 DEF Send, Statuses
  <2>3. BackendTypeOK'
    BY <1>11 DEF TypeOK, BackendTypeOK, WorkerTypeOK, Send, Accept, Callbacks, Requests
  <2>4. faults' \in 0 .. MaxFaults
    BY <1>11, RestTyped DEF Send
  <2> QED BY <1>11, <2>2, <2>3, <2>4, RestTyped DEF TypeOK, Send
<1>12. CASE Invisible(w)
  <2>1. WorkerTypeOK'
    BY <1>12 DEF TypeOK, WorkerTypeOK, Invisible
  <2>2. faults' \in 0 .. MaxFaults
    BY <1>12, RestTyped DEF Invisible
  <2> QED BY <1>12, <2>1, <2>2, RestTyped DEF TypeOK, Invisible
<1>13. CASE RecordReply(w)
  <2>1. WorkerTypeOK'
    BY <1>13 DEF TypeOK, WorkerTypeOK, RecordReply
  <2>2. RunTypeOK'
    BY <1>13, SaveTyped, RestTyped DEF TypeOK, RunTypeOK, WorkerTypeOK, RecordReply
  <2>3. faults' \in 0 .. MaxFaults
    BY <1>13, RestTyped DEF RecordReply, StatementOk, StatementFails
  <2> QED BY <1>13, <2>1, <2>2, <2>3, RestTyped DEF TypeOK, RecordReply
<1>14. CASE SupersedeOlder(w)
  <2>1. WorkerTypeOK'
    BY <1>14 DEF TypeOK, WorkerTypeOK, SupersedeOlder
  <2>2. RunTypeOK'
    <3> DEFINE old == runs[job[w].rid]
               new == [v \in Versions |->
                         IF v < job[w].ver /\ old[v].status = "RESULT_READY"
                           THEN [old[v] EXCEPT !.status = "SUPERSEDED"] ELSE old[v]]
    <3>1. job[w].rid \in Recipients /\ old \in [Versions -> Rows]
      BY <1>14 DEF TypeOK, RunTypeOK, WorkerTypeOK, SupersedeOlder, Requests
    <3>2. new \in [Versions -> Rows]
      BY <3>1, RowsTyped
    <3>3. runs' = [runs EXCEPT ![job[w].rid] = new] \/ runs' = runs
      BY <1>14 DEF SupersedeOlder
    <3>4. profile' = profile
      BY <1>14 DEF SupersedeOlder
    <3> HIDE DEF new, old
    <3> QED BY <3>1, <3>2, <3>3, <3>4 DEF TypeOK, RunTypeOK
  <2>3. faults' \in 0 .. MaxFaults
    BY <1>14, RestTyped DEF SupersedeOlder, StatementOk, StatementFails
  <2> QED BY <1>14, <2>1, <2>2, <2>3, RestTyped DEF TypeOK, SupersedeOlder
<1>15. CASE Release(w)
  <2>1. WorkerTypeOK'
    BY <1>15, ForgetTyped DEF TypeOK, Release
  <2> QED BY <1>15, <2>1, RestTyped DEF TypeOK, Release
<1> QED
  BY <1>1, <1>2, <1>3, <1>4, <1>5, <1>6, <1>7, <1>8, <1>9, <1>10, <1>11, <1>12, <1>13, <1>14, <1>15
  DEF WorkerStep

(* TypeOK is inductive. *)
LEMMA TypeStep == TypeOK /\ [Next]_vars => TypeOK'
<1> SUFFICES ASSUME TypeOK, [Next]_vars PROVE TypeOK'
  OBVIOUS
<1>1. CASE UNCHANGED vars
  BY <1>1, RestTyped DEF TypeOK, vars
<1>2. CASE Next
  BY <1>2, BackendStepTyped, IntakeStepTyped, SurroundingsTyped, WorkerStepTyped DEF Next
<1> QED BY <1>1, <1>2

(* Every reachable state is typed. *)
THEOREM TypeCorrect == Spec => []TypeOK
  BY TypeInit, TypeStep, PTL DEF Spec

----------------------------------------------------------------------------
(* Results belong to the body they answer. *)

(* A row saved with a result of the job's body, or without a status that *)
(* carries a result, keeps RowOfInput. *)
LEMMA SaveOfInput ==
  ASSUME RunTypeOK, RowOfInput, NEW w \in Workers, job[w] \in Requests,
         NEW status \in Statuses, NEW result \in Results \cup {None}, SaveRun(w, status, result),
         status \in Sendable => result \in Results /\ result.hash = job[w].hash
  PROVE  RowOfInput'
<1> DEFINE new == Upserted(Row(w), status, job[w].hash, result)
<1>1. new.status \in Sendable => new.result # None /\ new.result.hash = new.hash
  BY RunConstants DEF Upserted
<1>2. job[w].rid \in Recipients /\ job[w].ver \in Versions
  BY DEF Requests
<1>3. runs' = [runs EXCEPT ![job[w].rid][job[w].ver] = new]
  BY DEF SaveRun, Row
<1> SUFFICES ASSUME NEW r \in Recipients, NEW v \in Versions, runs'[r][v].status \in Sendable
             PROVE  runs'[r][v].result # None /\ runs'[r][v].result.hash = runs'[r][v].hash
  BY DEF RowOfInput
<1> HIDE DEF new
<1>4. CASE r = job[w].rid /\ v = job[w].ver
  BY <1>1, <1>2, <1>3, <1>4 DEF RunTypeOK
<1>5. CASE r # job[w].rid \/ v # job[w].ver
  BY <1>2, <1>3, <1>5 DEF RunTypeOK, RowOfInput
<1> QED BY <1>4, <1>5

(* A step that leaves rows, or workers, alone keeps what is of them. *)
LEMMA ResultFrame ==
  ASSUME ResultInv
  PROVE  /\ UNCHANGED runs => RowOfInput'
         /\ UNCHANGED <<pc, job, outcome>> => CarriedOfInput'
  BY DEF ResultInv, RowOfInput, CarriedOfInput

(* A step after which every row that carries a result carried it before *)
(* keeps RowOfInput. *)
Kept(r, v) ==
  /\ runs[r][v].status \in Sendable
  /\ runs'[r][v].result = runs[r][v].result
  /\ runs'[r][v].hash = runs[r][v].hash

(* If every answered row keeps body and result, RowOfInput is kept. *)
LEMMA RestampOfInput ==
  ASSUME RowOfInput,
         \A r \in Recipients, v \in Versions : runs'[r][v].status \in Sendable => Kept(r, v)
  PROVE  RowOfInput'
  BY DEF RowOfInput, Kept

(* _SUPERSEDE_OLDER touches the status of older, waiting rows only. *)
LEMMA SupersededRows ==
  ASSUME TypeOK, NEW w \in Workers, SupersedeOlder(w), NEW r \in Recipients, NEW v \in Versions
  PROVE  \/ runs'[r][v] = runs[r][v]
         \/ /\ r = job[w].rid /\ v < job[w].ver
            /\ runs[r][v].status = "RESULT_READY"
            /\ runs'[r][v] = [runs[r][v] EXCEPT !.status = "SUPERSEDED"]
<1> DEFINE old == runs[job[w].rid]
           new == [u \in Versions |->
                     IF u < job[w].ver /\ old[u].status = "RESULT_READY"
                       THEN [old[u] EXCEPT !.status = "SUPERSEDED"] ELSE old[u]]
<1>1. runs' = [runs EXCEPT ![job[w].rid] = new] \/ runs' = runs
  BY DEF SupersedeOlder
<1>2. runs'[r] = new \/ runs'[r] = runs[r]
  BY <1>1 DEF TypeOK, RunTypeOK
<1>3. r = job[w].rid \/ runs'[r] = runs[r]
  BY <1>1 DEF TypeOK, RunTypeOK
<1> QED BY <1>2, <1>3

(* recover_stale_runs changes statuses only. *)
LEMMA RestartedRows ==
  ASSUME TypeOK, NEW p \in Processes, Restart(p), NEW r \in Recipients, NEW v \in Versions
  PROVE  \/ runs'[r][v] = runs[r][v]
         \/ /\ runs[r][v].status = "RUNNING"
            /\ runs'[r][v] = [runs[r][v] EXCEPT !.status = "FAILED", !.aged = FALSE]
  BY DEF TypeOK, RunTypeOK, Restart

(* What restamping a row leaves alone. *)
LEMMA RestampFields ==
  ASSUME NEW row \in Rows
  PROVE  /\ LET new == [row EXCEPT !.status = "SUPERSEDED"] IN
              new.status = "SUPERSEDED" /\ new.result = row.result /\ new.hash = row.hash
         /\ LET new == [row EXCEPT !.status = "FAILED", !.aged = FALSE] IN
              new.status = "FAILED" /\ new.result = row.result /\ new.hash = row.hash
         /\ LET new == [row EXCEPT !.aged = TRUE] IN
              new.status = row.status /\ new.result = row.result /\ new.hash = row.hash
  BY DEF Rows

(* Ageing a row leaves all but its age alone. *)
LEMMA AgedRows ==
  ASSUME TypeOK, NEW q \in Recipients, NEW u \in Versions, Age(q, u),
         NEW r \in Recipients, NEW v \in Versions
  PROVE  \/ runs'[r][v] = runs[r][v]
         \/ /\ runs[r][v].status = "RUNNING"
            /\ runs'[r][v] = [runs[r][v] EXCEPT !.aged = TRUE]
  BY DEF TypeOK, RunTypeOK, Age

(* A step of a worker keeps every result with its body. *)
LEMMA ResultOfWorkerStep ==
  ASSUME ResultInv, NEW w \in Workers, WorkerStep(w)
  PROVE  RowOfInput' /\ CarriedOfInput'
<1> USE DEF Go, Carrying, Stages
<1>1. CASE Take(w)
  BY <1>1, ResultFrame DEF ResultInv, TypeOK, WorkerTypeOK, CarriedOfInput, Take, dbVars
<1>2. CASE LockKey(w)
  BY <1>2, ResultFrame DEF ResultInv, TypeOK, WorkerTypeOK, CarriedOfInput, LockKey, AfterLock, dbVars
<1>3. CASE CheckInput(w)
  BY <1>3, ResultFrame DEF ResultInv, TypeOK, WorkerTypeOK, CarriedOfInput, CheckInput, dbVars
<1>4. CASE Decide(w)
  <2>1. Row(w) \in Rows /\ (Row(w).status \in Sendable => Row(w).result.hash = Row(w).hash)
    BY <1>4 DEF ResultInv, TypeOK, RunTypeOK, WorkerTypeOK, RowOfInput, Decide, Row, Requests
  <2>2. Verdict(Row(w), job[w].hash) = "resend" => Row(w).result.hash = job[w].hash
    BY <2>1 DEF Verdict, Rows, Statuses, Sendable
  <2>3. CarriedOfInput'
    BY <1>4, <2>2 DEF ResultInv, TypeOK, WorkerTypeOK, CarriedOfInput, Decide
  <2> QED BY <1>4, <2>3, ResultFrame DEF Decide, dbVars
<1>5. CASE StartRun(w)
  <2>1. CarriedOfInput'
    BY <1>5 DEF ResultInv, TypeOK, WorkerTypeOK, CarriedOfInput, StartRun
  <2>2. RowOfInput'
    BY <1>5, SaveOfInput, ResultFrame DEF ResultInv, TypeOK, WorkerTypeOK, StartRun, Statuses, Sendable
  <2> QED BY <2>1, <2>2
<1>6. CASE Analyse(w)
  BY <1>6, ResultFrame DEF ResultInv, TypeOK, WorkerTypeOK, CarriedOfInput, Analyse, dbVars
<1>7. CASE CommitResult(w)
  <2>1. CarriedOfInput'
    BY <1>7 DEF ResultInv, TypeOK, WorkerTypeOK, CarriedOfInput, CommitResult
  <2>2. outcome[w] \in Results /\ outcome[w].hash = job[w].hash /\ job[w] \in Requests
    BY <1>7 DEF ResultInv, TypeOK, WorkerTypeOK, CarriedOfInput, CommitResult
  <2>3. RowOfInput'
    BY <1>7, <2>2, SaveOfInput, ResultFrame DEF ResultInv, TypeOK, CommitResult, Statuses
  <2> QED BY <2>1, <2>3
<1>8. CASE UpsertProfile(w)
  BY <1>8, ResultFrame DEF ResultInv, TypeOK, WorkerTypeOK, CarriedOfInput, UpsertProfile
<1>9. CASE KeepReceipt(w)
  BY <1>9, ResultFrame DEF ResultInv, TypeOK, WorkerTypeOK, CarriedOfInput, KeepReceipt, dbVars
<1>10. CASE FailRun(w)
  <2>1. CarriedOfInput'
    BY <1>10 DEF ResultInv, TypeOK, WorkerTypeOK, CarriedOfInput, FailRun
  <2>2. RowOfInput'
    BY <1>10, SaveOfInput, ResultFrame DEF ResultInv, TypeOK, WorkerTypeOK, FailRun, Statuses, Sendable
  <2> QED BY <2>1, <2>2
<1>11. CASE Send(w)
  <2>1. \A status \in Statuses : Attempted(w, status) => CarriedOfInput'
    BY <1>11 DEF ResultInv, TypeOK, WorkerTypeOK, CarriedOfInput, Send, Attempted
  <2>2. CarriedOfInput'
    BY <1>11, <2>1 DEF Send, Statuses
  <2> QED BY <1>11, <2>2, ResultFrame DEF Send, dbVars
<1>12. CASE Invisible(w)
  BY <1>12, ResultFrame DEF ResultInv, TypeOK, WorkerTypeOK, CarriedOfInput, Invisible, dbVars
<1>13. CASE RecordReply(w)
  <2>1. CarriedOfInput'
    BY <1>13 DEF ResultInv, TypeOK, WorkerTypeOK, CarriedOfInput, RecordReply
  <2>2. outcome[w] \in Results /\ outcome[w].hash = job[w].hash /\ job[w] \in Requests
        /\ reply[w] \in Statuses
    BY <1>13 DEF ResultInv, TypeOK, WorkerTypeOK, CarriedOfInput, RecordReply
  <2>3. RowOfInput'
    BY <1>13, <2>2, SaveOfInput, ResultFrame DEF ResultInv, TypeOK, RecordReply
  <2> QED BY <2>1, <2>3
<1>14. CASE SupersedeOlder(w)
  <2>1. CarriedOfInput'
    BY <1>14 DEF ResultInv, TypeOK, WorkerTypeOK, CarriedOfInput, SupersedeOlder
  <2>2. \A r \in Recipients, v \in Versions : runs[r][v] \in Rows
    BY DEF ResultInv, TypeOK, RunTypeOK
  <2>3. RowOfInput'
    <3>1. ASSUME NEW r \in Recipients, NEW v \in Versions, runs'[r][v].status \in Sendable
          PROVE  Kept(r, v)
      <4>1. CASE runs'[r][v] = runs[r][v]
        BY <3>1, <4>1 DEF Kept
      <4>2. CASE runs'[r][v] # runs[r][v]
        <5>1. runs[r][v].status = "RESULT_READY"
              /\ runs'[r][v] = [runs[r][v] EXCEPT !.status = "SUPERSEDED"]
          BY <1>14, <4>2, SupersededRows DEF ResultInv
        <5> QED BY <2>2, <5>1, RestampFields DEF Kept, Sendable
      <4> QED BY <4>1, <4>2
    <3> QED BY <3>1, RestampOfInput DEF ResultInv, TypeOK
  <2> QED BY <2>1, <2>3
<1>15. CASE Release(w)
  BY <1>15, ResultFrame DEF ResultInv, TypeOK, WorkerTypeOK, CarriedOfInput, Release, Forget, dbVars
<1> QED
  BY <1>1, <1>2, <1>3, <1>4, <1>5, <1>6, <1>7, <1>8, <1>9, <1>10, <1>11, <1>12, <1>13, <1>14, <1>15
  DEF WorkerStep

(* ResultInv is inductive. *)
LEMMA ResultStep == ResultInv /\ [Next]_vars => ResultInv'
<1> SUFFICES ASSUME ResultInv, [Next]_vars PROVE ResultInv'
  OBVIOUS
<1>1. TypeOK'
  BY TypeStep DEF ResultInv
<1>2. \A r \in Recipients, v \in Versions : runs[r][v] \in Rows
  BY DEF ResultInv, TypeOK, RunTypeOK
<1>3. RowOfInput' /\ CarriedOfInput'
  <2>1. CASE UNCHANGED vars
    BY <2>1, ResultFrame DEF vars, dbVars, workerVars
  <2>2. CASE BackendStep
    BY <2>2, ResultFrame DEF BackendStep, BackendIssue, BackendRebody, dbVars, workerVars
  <2>3. ASSUME NEW p \in Processes, IntakeStep(p) PROVE RowOfInput' /\ CarriedOfInput'
    BY <2>3, ResultFrame DEF IntakeStep, Receive, Submit, dbVars, workerVars
  <2>4. ASSUME NEW p \in Processes, Crash(p) PROVE RowOfInput' /\ CarriedOfInput'
    BY <2>4, ResultFrame DEF ResultInv, CarriedOfInput, Crash, Forget, Carrying, dbVars
  <2>5. ASSUME NEW p \in Processes, Restart(p) PROVE RowOfInput' /\ CarriedOfInput'
    <3>1. RowOfInput'
      <4>1. ASSUME NEW r \in Recipients, NEW v \in Versions, runs'[r][v].status \in Sendable
            PROVE  Kept(r, v)
        <5>1. runs'[r][v] = runs[r][v]
          <6>1. runs'[r][v] # [runs[r][v] EXCEPT !.status = "FAILED", !.aged = FALSE]
            BY <1>2, <4>1, RestampFields DEF Sendable
          <6> QED BY <2>5, <6>1, RestartedRows DEF ResultInv
        <5> QED BY <4>1, <5>1 DEF Kept
      <4> QED BY <4>1, RestampOfInput DEF ResultInv, TypeOK
    <3> QED BY <2>5, <3>1, ResultFrame DEF Restart, workerVars
  <2>6. ASSUME NEW w \in Workers, WorkerStep(w) PROVE RowOfInput' /\ CarriedOfInput'
    BY <2>6, ResultOfWorkerStep
  <2>7. ASSUME NEW w \in Workers, LoseSession(w) PROVE RowOfInput' /\ CarriedOfInput'
    BY <2>7, ResultFrame DEF LoseSession, dbVars
  <2>8. ASSUME NEW r \in Recipients, NEW v \in Versions, Age(r, v) PROVE RowOfInput' /\ CarriedOfInput'
    <3>1. ASSUME NEW q \in Recipients, NEW u \in Versions, runs'[q][u].status \in Sendable
          PROVE  Kept(q, u)
      <4>1. runs'[q][u] = runs[q][u]
        <5>1. \/ runs'[q][u] = runs[q][u]
              \/ /\ runs[q][u].status = "RUNNING"
                 /\ runs'[q][u] = [runs[q][u] EXCEPT !.aged = TRUE]
          BY <2>8, AgedRows DEF ResultInv
        <5>2. runs[q][u].status = "RUNNING" =>
                runs'[q][u] # [runs[q][u] EXCEPT !.aged = TRUE]
          BY <1>2, <3>1, RestampFields DEF Sendable
        <5> QED BY <5>1, <5>2
      <4> QED BY <3>1, <4>1 DEF Kept
    <3>2. RowOfInput'
      BY <3>1, RestampOfInput DEF ResultInv
    <3> QED BY <2>8, <3>2, ResultFrame DEF Age, workerVars
  <2>9. ASSUME NEW c \in Catalogs \cup {None}, SwitchCatalog(c) PROVE RowOfInput' /\ CarriedOfInput'
    BY <2>9, ResultFrame DEF SwitchCatalog, dbVars, workerVars
  <2> QED
    BY <2>1, <2>2, <2>3, <2>4, <2>5, <2>6, <2>7, <2>8, <2>9 DEF Next
<1> QED BY <1>1, <1>3 DEF ResultInv

(* Initially no row has a result and no worker carries one. *)
LEMMA ResultInit == Init => ResultInv
<1> SUFFICES ASSUME Init PROVE RowOfInput /\ CarriedOfInput
  BY TypeInit DEF ResultInv
<1>1. RowOfInput
  BY RunConstants DEF Init, NoRow, RowOfInput, Sendable, Statuses
<1>2. CarriedOfInput
  BY DEF Init, CarriedOfInput, Carrying
<1> QED BY <1>1, <1>2

(* No version is ever answered, or stored, with the result of another *)
(* body, whatever fails and whoever holds the lock. *)
THEOREM ResultsAnswerTheirInput == Spec => []ResultOfInput
<1>1. ResultInv => ResultOfInput
  BY RunConstants DEF ResultInv, TypeOK, WorkerTypeOK, ResultOfInput, SentOfInput, CarriedOfInput, Carrying
<1> QED
  BY <1>1, ResultInit, ResultStep, PTL DEF Spec

----------------------------------------------------------------------------
(* The ledger and Backend. *)

(* Backend never takes back what it accepted, nor goes back a version. *)
Growing ==
  \A r \in Recipients : accepted[r] \subseteq accepted'[r] /\ beVersion[r] <= beVersion'[r]

(* A row a step leaves as it is, or stamps truthfully. *)
Truthful(r, v) ==
  \/ runs'[r][v] = runs[r][v]
  \/ runs'[r][v].status \notin {"DELIVERED", "SUPERSEDED"}
  \/ runs'[r][v].status = "SUPERSEDED" /\ v < beVersion'[r]
  \/ /\ runs'[r][v].status = "DELIVERED"
     /\ [ver |-> v, result |-> runs'[r][v].result] \in accepted'[r]

(* The ledger is truthful when every row of it is. *)
LEMMA LedgerRows ==
  ASSUME TypeOK, BackendTypeOK', LedgerTruthful, Growing,
         \A r \in Recipients, v \in Versions : Truthful(r, v)
  PROVE  LedgerTruthful'
<1> SUFFICES ASSUME NEW r \in Recipients, NEW v \in Versions
             PROVE  /\ runs'[r][v].status = "DELIVERED" =>
                         [ver |-> v, result |-> runs'[r][v].result] \in accepted'[r]
                    /\ runs'[r][v].status = "SUPERSEDED" => v < beVersion'[r]
  BY DEF LedgerTruthful
<1>1. Truthful(r, v) /\ accepted[r] \subseteq accepted'[r] /\ beVersion[r] <= beVersion'[r]
  BY DEF Growing
<1>2. v \in Nat /\ beVersion[r] \in Nat /\ beVersion'[r] \in Nat
  BY InputConstants DEF Versions, TypeOK, BackendTypeOK
<1> QED BY <1>1, <1>2 DEF Truthful, LedgerTruthful

(* Every step lets what Backend issued and accepted only grow. *)
LEMMA GrowingStep == TypeOK /\ [Next]_vars => Growing
<1> SUFFICES ASSUME TypeOK, [Next]_vars, NEW r \in Recipients
             PROVE  accepted[r] \subseteq accepted'[r] /\ beVersion[r] <= beVersion'[r]
  BY DEF Growing
<1>1. beVersion[r] \in Nat
  BY InputConstants DEF TypeOK, BackendTypeOK
<1>2. CASE UNCHANGED beVars
  BY <1>1, <1>2 DEF beVars
<1>3. CASE BackendStep
  BY <1>1, <1>3, InputConstants DEF BackendStep, BackendIssue, BackendRebody, TypeOK, BackendTypeOK
<1>4. ASSUME NEW w \in Workers, Send(w) PROVE accepted[r] \subseteq accepted'[r] /\ beVersion[r] <= beVersion'[r]
  BY <1>1, <1>4 DEF Send, Accept, TypeOK, BackendTypeOK
<1>5. ASSUME NEW w \in Workers, WorkerStep(w), ~Send(w) PROVE UNCHANGED beVars
  BY <1>5 DEF WorkerStep, Take, LockKey, CheckInput, Decide, StartRun, Analyse, CommitResult, UpsertProfile,
       KeepReceipt, FailRun, Invisible, RecordReply, SupersedeOlder, Release
<1>6. ASSUME NEW p \in Processes, IntakeStep(p) PROVE UNCHANGED beVars
  BY <1>6 DEF IntakeStep, Receive, Submit
<1> QED
  BY <1>2, <1>3, <1>4, <1>5, <1>6
  DEF Next, vars, Crash, Restart, LoseSession, Age, SwitchCatalog

(* What Backend issued stays issued. *)
IssuedThen(q) == q.ver <= beVersion'[q.rid]

(* A request stays issued. *)
LEMMA IssuedGrows ==
  ASSUME TypeOK, BackendTypeOK', Growing, NEW q \in Requests, Issued(q)
  PROVE  IssuedThen(q)
<1>1. q.rid \in Recipients /\ q.ver \in Nat
  BY InputConstants DEF Requests, Versions
<1>2. beVersion[q.rid] \in Nat /\ beVersion'[q.rid] \in Nat
  BY <1>1, InputConstants DEF TypeOK, BackendTypeOK
<1> QED BY <1>1, <1>2 DEF Issued, IssuedThen, Growing

(* What a step leaves alone stays as LedgerInv has it. *)
LEMMA LedgerFrame ==
  ASSUME LedgerInv, TypeOK', Growing
  PROVE  /\ UNCHANGED runs => LedgerTruthful'
         /\ (UNCHANGED <<flowVars, job, beBodies>>
              /\ \A w \in Workers : pc'[w] # "idle" => pc[w] # "idle") => IssuedOnly'
         /\ UNCHANGED <<pc, job, outcome, reply>> => RepliesTruthful'
<1>1. ASSUME UNCHANGED runs PROVE LedgerTruthful'
  BY <1>1, LedgerRows DEF LedgerInv, Truthful, TypeOK
<1>2. ASSUME UNCHANGED <<flowVars, job, beBodies>>,
             \A w \in Workers : pc'[w] # "idle" => pc[w] # "idle"
      PROVE  IssuedOnly'
  <2>1. \A r \in Recipients, v \in Versions : beBodies'[r][v] # {} => v <= beVersion'[r]
    BY <1>2, InputConstants DEF LedgerInv, IssuedOnly, Growing, Versions, TypeOK, BackendTypeOK
  <2>2. ASSUME NEW p \in Processes
        PROVE  /\ \A q \in admitting'[p] : IssuedThen(q)
               /\ \A i \in 1 .. Len(queue'[p]) : IssuedThen(queue'[p][i])
    BY <1>2, IssuedGrows DEF LedgerInv, IssuedOnly, TypeOK, FlowTypeOK, flowVars
  <2>3. \A w \in Workers : pc'[w] # "idle" => IssuedThen(job'[w])
    BY <1>2, IssuedGrows DEF LedgerInv, IssuedOnly, TypeOK, WorkerTypeOK
  <2> QED BY <1>2, <2>1, <2>2, <2>3 DEF IssuedOnly, Issued, IssuedThen, flowVars
<1>3. ASSUME UNCHANGED <<pc, job, outcome, reply>> PROVE RepliesTruthful'
  <2> SUFFICES ASSUME NEW w \in Workers
               PROVE  /\ pc[w] \notin {"record", "supersede", "release"} => reply[w] = "RESULT_READY"
                      /\ pc[w] = "record" /\ reply[w] = "DELIVERED" =>
                           [ver |-> job[w].ver, result |-> outcome[w]] \in accepted'[job[w].rid]
                      /\ pc[w] = "record" /\ reply[w] = "SUPERSEDED" =>
                           job[w].ver < beVersion'[job[w].rid]
    BY <1>3 DEF RepliesTruthful
  <2>1. CASE pc[w] = "record"
    <3>1. job[w].rid \in Recipients /\ job[w].ver \in Nat
      BY <2>1, InputConstants DEF LedgerInv, TypeOK, WorkerTypeOK, Requests, Versions
    <3>2. beVersion[job[w].rid] \in Nat /\ beVersion'[job[w].rid] \in Nat
      BY <3>1, InputConstants DEF LedgerInv, TypeOK, BackendTypeOK
    <3> QED BY <2>1, <3>1, <3>2 DEF LedgerInv, RepliesTruthful, Growing
  <2>2. CASE pc[w] # "record"
    BY <2>2 DEF LedgerInv, RepliesTruthful
  <2> QED BY <2>1, <2>2
<1> QED BY <1>1, <1>2, <1>3

(* A save whose status is the truth keeps the ledger truthful. *)
LEMMA SaveTruthful ==
  ASSUME LedgerInv, TypeOK', Growing, NEW w \in Workers, job[w] \in Requests,
         NEW status \in Statuses, NEW result \in Results \cup {None}, SaveRun(w, status, result),
         status = "DELIVERED" =>
           /\ result \in Results
           /\ [ver |-> job[w].ver, result |-> result] \in accepted'[job[w].rid],
         status = "SUPERSEDED" => job[w].ver < beVersion'[job[w].rid]
  PROVE  LedgerTruthful'
<1> DEFINE new == Upserted(Row(w), status, job[w].hash, result)
<1>1. new.status = status /\ (status = "DELIVERED" => new.result = result)
  BY RunConstants DEF Upserted
<1>2. job[w].rid \in Recipients /\ job[w].ver \in Versions
  BY DEF Requests
<1>3. runs' = [runs EXCEPT ![job[w].rid][job[w].ver] = new]
  BY DEF SaveRun, Row
<1> HIDE DEF new
<1>4. ASSUME NEW r \in Recipients, NEW v \in Versions
      PROVE  Truthful(r, v)
  <2>1. CASE r = job[w].rid /\ v = job[w].ver
    <3>1. runs'[r][v] = new
      BY <1>2, <1>3, <2>1 DEF LedgerInv, TypeOK, RunTypeOK
    <3> QED BY <1>1, <2>1, <3>1 DEF Truthful
  <2>2. CASE r # job[w].rid \/ v # job[w].ver
    BY <1>2, <1>3, <2>2 DEF LedgerInv, TypeOK, RunTypeOK, Truthful
  <2> QED BY <2>1, <2>2
<1> QED BY <1>4, LedgerRows DEF LedgerInv, TypeOK

(* A worker that neither calls Backend nor records an answer. *)
LEMMA QuietLedger ==
  ASSUME LedgerInv, TypeOK', Growing, NEW w \in Workers,
         pc[w] \notin {"idle", "record", "supersede", "release"},
         NEW s \in Stages, Go(w, s), s \notin {"record", "supersede"},
         UNCHANGED <<flowVars, job, reply, beVars>>,
         \A u \in Workers : u # w => outcome'[u] = outcome[u]
  PROVE  IssuedOnly' /\ RepliesTruthful'
<1>1. \A u \in Workers : IF u = w THEN pc'[u] = s ELSE pc'[u] = pc[u]
  BY DEF Go, LedgerInv, TypeOK, WorkerTypeOK
<1>2. IssuedOnly'
  BY <1>1, LedgerFrame DEF beVars
<1>3. ASSUME NEW u \in Workers
      PROVE  /\ pc'[u] \notin {"record", "supersede", "release"} => reply'[u] = "RESULT_READY"
             /\ pc'[u] = "record" /\ reply'[u] = "DELIVERED" =>
                  [ver |-> job'[u].ver, result |-> outcome'[u]] \in accepted'[job'[u].rid]
             /\ pc'[u] = "record" /\ reply'[u] = "SUPERSEDED" => job'[u].ver < beVersion'[job'[u].rid]
  <2>1. CASE u = w
    BY <1>1, <2>1 DEF LedgerInv, RepliesTruthful
  <2>2. CASE u # w
    BY <1>1, <2>2 DEF LedgerInv, RepliesTruthful, beVars
  <2> QED BY <2>1, <2>2
<1> QED BY <1>2, <1>3 DEF RepliesTruthful

(* A step of a worker keeps LedgerInv. *)
LEMMA LedgerOfWorkerStep ==
  ASSUME LedgerInv, TypeOK', Growing, NEW w \in Workers, WorkerStep(w)
  PROVE  LedgerTruthful' /\ IssuedOnly' /\ RepliesTruthful'
<1> USE DEF Go
<1>0. pc[w] # "idle" => job[w] \in Requests
  BY DEF LedgerInv, TypeOK, WorkerTypeOK
<1>1. CASE Take(w)
  <2>1. Home[w] \in Processes /\ queue[Home[w]] \in Seq(Requests) /\ queue[Home[w]] # <<>>
    BY <1>1, RunConstants DEF LedgerInv, TypeOK, FlowTypeOK, Take
  <2>2. \A p \in Processes : queue[p] \in Seq(Requests)
    BY DEF LedgerInv, TypeOK, FlowTypeOK
  <2>3. \A p \in Processes : \A i \in 1 .. Len(queue[p]) : queue[p][i] \in Requests /\ IssuedThen(queue[p][i])
    BY <2>2, IssuedGrows DEF LedgerInv, IssuedOnly, TypeOK
  <2>4. ASSUME NEW p \in Processes, NEW i \in 1 .. Len(queue'[p])
        PROVE  IssuedThen(queue'[p][i])
    <3>1. CASE p = Home[w]
      <4>1. queue'[p] = Tail(queue[p])
        BY <1>1, <2>1, <3>1 DEF Take, LedgerInv, TypeOK, FlowTypeOK
      <4>2. i + 1 \in 1 .. Len(queue[p]) /\ queue'[p][i] = queue[p][i + 1]
        BY <2>1, <2>2, <3>1, <4>1
      <4> QED BY <2>3, <4>2
    <3>2. CASE p # Home[w]
      BY <1>1, <2>3, <3>2 DEF Take, LedgerInv, TypeOK, FlowTypeOK
    <3> QED BY <3>1, <3>2
  <2>5. IssuedThen(Head(queue[Home[w]]))
    BY <2>1, <2>3
  <2>6. ASSUME NEW u \in Workers, pc'[u] # "idle" PROVE IssuedThen(job'[u])
    <3>1. CASE u = w
      BY <1>1, <2>5, <3>1 DEF Take, LedgerInv, TypeOK, WorkerTypeOK
    <3>2. CASE u # w
      <4>1. pc[u] # "idle" /\ job'[u] = job[u]
        BY <1>1, <2>6, <3>2 DEF Take, LedgerInv, TypeOK, WorkerTypeOK
      <4>2. job[u] \in Requests /\ Issued(job[u])
        BY <4>1 DEF LedgerInv, IssuedOnly, TypeOK, WorkerTypeOK
      <4> QED BY <4>1, <4>2, IssuedGrows DEF LedgerInv, TypeOK
    <3> QED BY <3>1, <3>2
  <2>7. ASSUME NEW p \in Processes, NEW q \in admitting'[p] PROVE IssuedThen(q)
    BY <1>1, <2>7, IssuedGrows DEF Take, LedgerInv, IssuedOnly, TypeOK, FlowTypeOK
  <2>8. \A r \in Recipients, v \in Versions : beBodies'[r][v] # {} => v <= beVersion'[r]
    BY <1>1 DEF Take, LedgerInv, IssuedOnly, beVars
  <2>9. IssuedOnly'
    BY <2>4, <2>6, <2>7, <2>8 DEF IssuedOnly, Issued, IssuedThen
  <2>10. RepliesTruthful'
    BY <1>1 DEF Take, LedgerInv, RepliesTruthful, TypeOK, WorkerTypeOK, beVars
  <2> QED BY <1>1, <2>9, <2>10, LedgerFrame DEF Take, dbVars
<1>2. CASE LockKey(w)
  <2>1. \E s \in Stages : Go(w, s) /\ s \notin {"record", "supersede"}
    BY <1>2 DEF LockKey, AfterLock, Stages
  <2>2. IssuedOnly' /\ RepliesTruthful'
    BY <1>2, <2>1, QuietLedger DEF LockKey, LedgerInv, TypeOK, WorkerTypeOK
  <2> QED BY <1>2, <2>2, LedgerFrame DEF LockKey, dbVars
<1>3. CASE CheckInput(w)
  <2>1. \E s \in Stages : Go(w, s) /\ s \notin {"record", "supersede"}
    BY <1>3 DEF CheckInput, Stages
  <2>2. IssuedOnly' /\ RepliesTruthful'
    BY <1>3, <2>1, QuietLedger DEF CheckInput, LedgerInv, TypeOK, WorkerTypeOK
  <2> QED BY <1>3, <2>2, LedgerFrame DEF CheckInput, dbVars
<1>4. CASE Decide(w)
  <2>1. \E s \in Stages : Go(w, s) /\ s \notin {"record", "supersede"}
    BY <1>4 DEF Decide, Stages
  <2>2. IssuedOnly' /\ RepliesTruthful'
    BY <1>4, <2>1, QuietLedger DEF Decide, LedgerInv, TypeOK, WorkerTypeOK
  <2> QED BY <1>4, <2>2, LedgerFrame DEF Decide, dbVars
<1>5. CASE StartRun(w)
  <2>1. \E s \in Stages : Go(w, s) /\ s \notin {"record", "supersede"}
    BY <1>5 DEF StartRun, Stages
  <2>2. IssuedOnly' /\ RepliesTruthful'
    BY <1>5, <2>1, QuietLedger DEF StartRun, LedgerInv, TypeOK, WorkerTypeOK
  <2>3. LedgerTruthful'
    BY <1>5, <1>0, SaveTruthful, LedgerFrame DEF StartRun, LedgerInv, TypeOK, WorkerTypeOK, Statuses
  <2> QED BY <2>2, <2>3
<1>6. CASE Analyse(w)
  <2>1. \E s \in Stages : Go(w, s) /\ s \notin {"record", "supersede"}
    BY <1>6 DEF Analyse, Stages
  <2>2. IssuedOnly' /\ RepliesTruthful'
    BY <1>6, <2>1, QuietLedger DEF Analyse, LedgerInv, TypeOK, WorkerTypeOK
  <2> QED BY <1>6, <2>2, LedgerFrame DEF Analyse, dbVars
<1>7. CASE CommitResult(w)
  <2>1. \E s \in Stages : Go(w, s) /\ s \notin {"record", "supersede"}
    BY <1>7 DEF CommitResult, Stages
  <2>2. IssuedOnly' /\ RepliesTruthful'
    BY <1>7, <2>1, QuietLedger DEF CommitResult, LedgerInv, TypeOK, WorkerTypeOK
  <2>3. LedgerTruthful'
    BY <1>7, <1>0, SaveTruthful, LedgerFrame DEF CommitResult, LedgerInv, TypeOK, WorkerTypeOK, Statuses
  <2> QED BY <2>2, <2>3
<1>8. CASE UpsertProfile(w)
  <2>1. \E s \in Stages : Go(w, s) /\ s \notin {"record", "supersede"}
    BY <1>8 DEF UpsertProfile, Stages
  <2>2. IssuedOnly' /\ RepliesTruthful'
    BY <1>8, <2>1, QuietLedger DEF UpsertProfile, LedgerInv, TypeOK, WorkerTypeOK
  <2> QED BY <1>8, <2>2, LedgerFrame DEF UpsertProfile
<1>9. CASE KeepReceipt(w)
  <2>1. \E s \in Stages : Go(w, s) /\ s \notin {"record", "supersede"}
    BY <1>9 DEF KeepReceipt, Stages
  <2>2. IssuedOnly' /\ RepliesTruthful'
    BY <1>9, <2>1, QuietLedger DEF KeepReceipt, LedgerInv, TypeOK, WorkerTypeOK
  <2> QED BY <1>9, <2>2, LedgerFrame DEF KeepReceipt, dbVars
<1>10. CASE FailRun(w)
  <2>1. \E s \in Stages : Go(w, s) /\ s \notin {"record", "supersede"}
    BY <1>10 DEF FailRun, Stages
  <2>2. IssuedOnly' /\ RepliesTruthful'
    BY <1>10, <2>1, QuietLedger DEF FailRun, LedgerInv, TypeOK, WorkerTypeOK
  <2>3. LedgerTruthful'
    BY <1>10, <1>0, SaveTruthful, LedgerFrame DEF FailRun, LedgerInv, TypeOK, WorkerTypeOK, Statuses
  <2> QED BY <2>2, <2>3
<1>11. CASE Send(w)
  <2>1. \E status \in {"DELIVERED", "SUPERSEDED", "FAILED", "RESULT_READY"} :
          /\ Attempted(w, status)
          /\ status = "DELIVERED" => Accept(w)
          /\ status = "SUPERSEDED" => job[w].ver < beVersion[job[w].rid]
    BY <1>11 DEF Send
  <2>2. PICK status \in {"DELIVERED", "SUPERSEDED", "FAILED", "RESULT_READY"} :
          /\ Attempted(w, status)
          /\ status = "DELIVERED" => Accept(w)
          /\ status = "SUPERSEDED" => job[w].ver < beVersion[job[w].rid]
    BY <2>1
  <2>3. /\ pc[w] = "send" /\ job[w].rid \in Recipients
        /\ UNCHANGED <<flowVars, job, outcome, beVersion, beBodies, runs>>
    BY <1>11, <1>0 DEF Send, Requests, dbVars
  <2>4. /\ reply'[w] = status
        /\ pc'[w] = "record" \/ (pc'[w] = "send" /\ status = "RESULT_READY")
        /\ \A u \in Workers : u # w => reply'[u] = reply[u] /\ pc'[u] = pc[u]
    <3>1. reply' = [reply EXCEPT ![w] = status]
      BY <2>2 DEF Attempted
    <3>2. \E s \in {"send", "record"} :
            pc' = [pc EXCEPT ![w] = s] /\ (s = "send" => status = "RESULT_READY")
      BY <2>2 DEF Attempted
    <3>3. PICK s \in {"send", "record"} :
            pc' = [pc EXCEPT ![w] = s] /\ (s = "send" => status = "RESULT_READY")
      BY <3>2
    <3>4. pc \in [Workers -> Stages] /\ reply \in [Workers -> Statuses]
      BY DEF LedgerInv, TypeOK, WorkerTypeOK
    <3>5. reply'[w] = status /\ pc'[w] = s
      BY <3>1, <3>3, <3>4
    <3>6. \A u \in Workers : u # w => reply'[u] = reply[u] /\ pc'[u] = pc[u]
      BY <3>1, <3>3, <3>4
    <3> QED BY <3>3, <3>5, <3>6
  <2>5. status = "DELIVERED" =>
          [ver |-> job[w].ver, result |-> outcome[w]] \in accepted'[job[w].rid]
    BY <2>2, <2>3 DEF Accept, LedgerInv, TypeOK, BackendTypeOK
  <2>6. ASSUME NEW u \in Workers
        PROVE  /\ pc'[u] \notin {"record", "supersede", "release"} => reply'[u] = "RESULT_READY"
               /\ pc'[u] = "record" /\ reply'[u] = "DELIVERED" =>
                    [ver |-> job[u].ver, result |-> outcome[u]] \in accepted'[job[u].rid]
               /\ pc'[u] = "record" /\ reply'[u] = "SUPERSEDED" => job[u].ver < beVersion[job[u].rid]
    <3>1. CASE u = w
      BY <2>2, <2>4, <2>5, <3>1
    <3>2. CASE u # w
      <4>1. pc[u] = "record" => job[u].rid \in Recipients
        BY DEF LedgerInv, TypeOK, WorkerTypeOK, Requests
      <4> QED BY <2>4, <3>2, <4>1 DEF LedgerInv, RepliesTruthful, Growing
    <3> QED BY <3>1, <3>2
  <2>7. RepliesTruthful'
    BY <2>3, <2>6 DEF RepliesTruthful
  <2>8. \A u \in Workers : pc'[u] # "idle" => pc[u] # "idle"
    BY <2>3, <2>4
  <2> QED BY <2>3, <2>7, <2>8, LedgerFrame
<1>12. CASE Invisible(w)
  <2>1. \A u \in Workers : IF u = w THEN pc[u] = "send" /\ pc'[u] \in {"release", "record"} ELSE pc'[u] = pc[u]
    BY <1>12 DEF Invisible, LedgerInv, TypeOK, WorkerTypeOK
  <2>2. reply[w] = "RESULT_READY"
    BY <2>1 DEF LedgerInv, RepliesTruthful
  <2>3. RepliesTruthful'
    BY <1>12, <2>1, <2>2 DEF Invisible, LedgerInv, RepliesTruthful, beVars
  <2> QED BY <1>12, <2>1, <2>3, LedgerFrame DEF Invisible, dbVars, beVars
<1>13. CASE RecordReply(w)
  <2>1. \A u \in Workers : IF u = w THEN pc[u] = "record" /\ pc'[u] \in {"release", "supersede"} ELSE pc'[u] = pc[u]
    BY <1>13 DEF RecordReply, LedgerInv, TypeOK, WorkerTypeOK
  <2>2. RepliesTruthful'
    BY <1>13, <2>1 DEF RecordReply, LedgerInv, RepliesTruthful, beVars
  <2>3. outcome[w] \in Results /\ reply[w] \in Statuses
    BY <2>1 DEF LedgerInv, TypeOK, WorkerTypeOK, Carrying
  <2>4. /\ reply[w] = "DELIVERED" => [ver |-> job[w].ver, result |-> outcome[w]] \in accepted'[job[w].rid]
        /\ reply[w] = "SUPERSEDED" => job[w].ver < beVersion'[job[w].rid]
    BY <1>13, <2>1 DEF RecordReply, LedgerInv, RepliesTruthful, beVars
  <2>5. LedgerTruthful'
    BY <1>0, <1>13, <2>1, <2>3, <2>4, SaveTruthful, LedgerFrame DEF RecordReply
  <2> QED BY <1>13, <2>1, <2>2, <2>5, LedgerFrame DEF RecordReply, beVars
<1>14. CASE SupersedeOlder(w)
  <2>1. \A u \in Workers : IF u = w THEN pc[u] = "supersede" /\ pc'[u] = "release" ELSE pc'[u] = pc[u]
    BY <1>14 DEF SupersedeOlder, LedgerInv, TypeOK, WorkerTypeOK
  <2>2. RepliesTruthful'
    BY <1>14, <2>1 DEF SupersedeOlder, LedgerInv, RepliesTruthful, beVars
  <2>3. job[w] \in Requests /\ job[w].rid \in Recipients /\ job[w].ver <= beVersion[job[w].rid]
    BY <1>0, <2>1 DEF LedgerInv, IssuedOnly, Issued, Requests
  <2>4. ASSUME NEW r \in Recipients, NEW v \in Versions PROVE Truthful(r, v)
    <3>1. CASE runs'[r][v] = runs[r][v]
      BY <3>1 DEF Truthful
    <3>2. CASE runs'[r][v] # runs[r][v]
      <4>1. r = job[w].rid /\ v < job[w].ver /\ runs'[r][v] = [runs[r][v] EXCEPT !.status = "SUPERSEDED"]
        BY <1>14, <3>2, SupersededRows DEF LedgerInv
      <4>2. runs'[r][v].status = "SUPERSEDED"
        BY <4>1, RestampFields DEF LedgerInv, TypeOK, RunTypeOK
      <4>3. v < beVersion'[r]
        <5>1. v \in Nat /\ job[w].ver \in Nat /\ beVersion[r] \in Nat /\ beVersion'[r] = beVersion[r]
          BY <1>14, <2>3, InputConstants DEF SupersedeOlder, beVars, Requests, Versions, LedgerInv, TypeOK, BackendTypeOK
        <5> QED BY <2>3, <4>1, <5>1
      <4> QED BY <4>2, <4>3 DEF Truthful
    <3> QED BY <3>1, <3>2
  <2>5. LedgerTruthful'
    BY <2>4, LedgerRows DEF LedgerInv, TypeOK
  <2> QED BY <1>14, <2>1, <2>2, <2>5, LedgerFrame DEF SupersedeOlder, beVars
<1>15. CASE Release(w)
  <2>1. /\ \A u \in Workers : u # w => pc'[u] = pc[u] /\ job'[u] = job[u] /\ outcome'[u] = outcome[u] /\ reply'[u] = reply[u]
        /\ pc'[w] = "idle" /\ reply'[w] = "RESULT_READY"
    BY <1>15 DEF Release, Forget
  <2>2. RepliesTruthful'
    BY <1>15, <2>1 DEF Release, LedgerInv, RepliesTruthful, beVars
  <2>3. IssuedOnly'
    BY <1>15, <2>1 DEF Release, LedgerInv, IssuedOnly, Issued, beVars, flowVars
  <2> QED BY <1>15, <2>2, <2>3, LedgerFrame DEF Release, dbVars
<1> QED
  BY <1>1, <1>2, <1>3, <1>4, <1>5, <1>6, <1>7, <1>8, <1>9, <1>10, <1>11, <1>12, <1>13, <1>14, <1>15
  DEF WorkerStep

(* Intake brings in only requests that Backend issued. *)
LEMMA LedgerOfIntake ==
  ASSUME LedgerInv, TypeOK', Growing, NEW p \in Processes, IntakeStep(p)
  PROVE  LedgerTruthful' /\ IssuedOnly' /\ RepliesTruthful'
<1>1. UNCHANGED <<dbVars, workerVars, beVars>>
  BY DEF IntakeStep, Receive, Submit
<1>2. PICK q \in Requests :
        /\ Issued(q)
        /\ \A s \in Processes :
             /\ admitting'[s] \subseteq admitting[s] \cup {q}
             /\ queue'[s] = queue[s] \/ queue'[s] = Append(queue[s], q)
  <2>1. ASSUME NEW q \in Requests, Receive(p, q)
        PROVE  /\ Issued(q)
               /\ \A s \in Processes :
                    /\ admitting'[s] \subseteq admitting[s] \cup {q}
                    /\ queue'[s] = queue[s] \/ queue'[s] = Append(queue[s], q)
    <3>1. Issued(q)
      BY <2>1 DEF Receive, LedgerInv, IssuedOnly, Issued, Requests
    <3> QED BY <2>1, <3>1 DEF Receive, Enqueue, LedgerInv, TypeOK, FlowTypeOK
  <2>2. ASSUME NEW q \in admitting[p], Submit(p, q)
        PROVE  /\ q \in Requests /\ Issued(q)
               /\ \A s \in Processes :
                    /\ admitting'[s] \subseteq admitting[s] \cup {q}
                    /\ queue'[s] = queue[s] \/ queue'[s] = Append(queue[s], q)
    BY <2>2 DEF Submit, Enqueue, LedgerInv, IssuedOnly, TypeOK, FlowTypeOK
  <2> QED BY <2>1, <2>2 DEF IntakeStep
<1>3. ASSUME NEW s \in Processes, NEW x \in admitting'[s] PROVE Issued(x)
  BY <1>2, <1>3 DEF LedgerInv, IssuedOnly
<1>4. ASSUME NEW s \in Processes, NEW i \in 1 .. Len(queue'[s]) PROVE Issued(queue'[s][i])
  <2>1. queue[s] \in Seq(Requests)
    BY DEF LedgerInv, TypeOK, FlowTypeOK
  <2>2. (i \in 1 .. Len(queue[s]) /\ queue'[s][i] = queue[s][i]) \/ queue'[s][i] = q
    <3>1. CASE queue'[s] = queue[s]
      BY <1>4, <3>1
    <3>2. CASE queue'[s] = Append(queue[s], q)
      BY <1>4, <2>1, <3>2
    <3> QED BY <1>2, <3>1, <3>2
  <2> QED BY <1>2, <2>2 DEF LedgerInv, IssuedOnly
<1>5. IssuedOnly'
  BY <1>1, <1>3, <1>4 DEF LedgerInv, IssuedOnly, Issued, workerVars, beVars
<1> QED BY <1>1, <1>5, LedgerFrame DEF dbVars, workerVars

(* LedgerInv is inductive. *)
LEMMA LedgerStep == LedgerInv /\ [Next]_vars => LedgerInv'
<1> SUFFICES ASSUME LedgerInv, [Next]_vars PROVE LedgerInv'
  OBVIOUS
<1>1. TypeOK' /\ Growing
  BY TypeStep, GrowingStep DEF LedgerInv
<1>2. LedgerTruthful' /\ IssuedOnly' /\ RepliesTruthful'
  <2>1. CASE UNCHANGED vars
    BY <1>1, <2>1, LedgerFrame DEF vars, dbVars, workerVars, flowVars, beVars
  <2>2. CASE BackendStep
    <3>1. UNCHANGED <<dbVars, flowVars, workerVars>>
      BY <2>2 DEF BackendStep, BackendIssue, BackendRebody
    <3>2. ASSUME NEW r \in Recipients, NEW v \in Versions, beBodies'[r][v] # {}
          PROVE  v <= beVersion'[r]
      <4>1. PICK q \in Recipients, h \in Hashes : BackendIssue(q, h) \/ BackendRebody(q, h)
        BY <2>2 DEF BackendStep
      <4>2. v \in Nat /\ beVersion[r] \in Nat /\ beVersion'[r] \in Nat
        BY <1>1, InputConstants DEF LedgerInv, TypeOK, BackendTypeOK, Versions
      <4>3. beBodies[r][v] # {} => v <= beVersion'[r]
        BY <1>1, <4>2 DEF LedgerInv, IssuedOnly, Growing
      <4>4. CASE BackendIssue(q, h)
        BY <3>2, <4>2, <4>3, <4>4 DEF BackendIssue, LedgerInv, TypeOK, BackendTypeOK
      <4>5. CASE BackendRebody(q, h)
        BY <3>2, <4>2, <4>3, <4>5 DEF BackendRebody, LedgerInv, TypeOK, BackendTypeOK
      <4> QED BY <4>1, <4>4, <4>5
    <3>3. \A q \in Requests : Issued(q) => IssuedThen(q)
      BY <1>1, IssuedGrows DEF LedgerInv, TypeOK
    <3>4. \A p \in Processes : \A q \in admitting[p] : IssuedThen(q)
      BY <3>3 DEF LedgerInv, IssuedOnly, TypeOK, FlowTypeOK
    <3>5. \A p \in Processes : \A i \in 1 .. Len(queue[p]) : IssuedThen(queue[p][i])
      BY <3>3 DEF LedgerInv, IssuedOnly, TypeOK, FlowTypeOK
    <3>6. \A w \in Workers : pc[w] # "idle" => IssuedThen(job[w])
      BY <3>3 DEF LedgerInv, IssuedOnly, TypeOK, WorkerTypeOK
    <3>7. IssuedOnly'
      BY <3>1, <3>2, <3>4, <3>5, <3>6 DEF IssuedOnly, Issued, IssuedThen, flowVars, workerVars
    <3> QED BY <1>1, <2>2, <3>7, LedgerFrame DEF BackendStep, BackendIssue, BackendRebody, dbVars, workerVars
  <2>3. ASSUME NEW p \in Processes, IntakeStep(p) PROVE LedgerTruthful' /\ IssuedOnly' /\ RepliesTruthful'
    BY <1>1, <2>3, LedgerOfIntake
  <2>4. ASSUME NEW p \in Processes, Crash(p) PROVE LedgerTruthful' /\ IssuedOnly' /\ RepliesTruthful'
    <3>1. RepliesTruthful'
      BY <2>4 DEF Crash, Forget, LedgerInv, RepliesTruthful, beVars
    <3>2. IssuedOnly'
      <4>1. \A s \in Processes :
              /\ admitting'[s] \subseteq admitting[s]
              /\ queue'[s] = queue[s] \/ queue'[s] = <<>>
        BY <2>4 DEF Crash, LedgerInv, TypeOK, FlowTypeOK
      <4>2. \A w \in Workers : pc'[w] # "idle" => pc[w] # "idle" /\ job'[w] = job[w]
        BY <2>4 DEF Crash, Forget
      <4>3. \A s \in Processes : \A i \in 1 .. Len(queue'[s]) : Issued(queue'[s][i])
        BY <4>1 DEF LedgerInv, IssuedOnly
      <4>4. UNCHANGED <<beVersion, beBodies>>
        BY <2>4 DEF Crash, beVars
      <4> QED BY <4>1, <4>2, <4>3, <4>4 DEF LedgerInv, IssuedOnly, Issued
    <3> QED BY <1>1, <2>4, <3>1, <3>2, LedgerFrame DEF Crash, dbVars
  <2>5. ASSUME NEW p \in Processes, Restart(p) PROVE LedgerTruthful' /\ IssuedOnly' /\ RepliesTruthful'
    <3>1. ASSUME NEW r \in Recipients, NEW v \in Versions PROVE Truthful(r, v)
      <4>1. \/ runs'[r][v] = runs[r][v]
            \/ runs'[r][v] = [runs[r][v] EXCEPT !.status = "FAILED", !.aged = FALSE]
        BY <2>5, RestartedRows DEF LedgerInv
      <4>2. runs[r][v] \in Rows
        BY DEF LedgerInv, TypeOK, RunTypeOK
      <4>3. CASE runs'[r][v] = [runs[r][v] EXCEPT !.status = "FAILED", !.aged = FALSE]
        <5>1. runs'[r][v].status = "FAILED"
          BY <4>2, <4>3, RestampFields
        <5> QED BY <5>1 DEF Truthful
      <4> QED BY <4>1, <4>3 DEF Truthful
    <3>2. LedgerTruthful'
      BY <1>1, <3>1, LedgerRows DEF LedgerInv, TypeOK
    <3>3. IssuedOnly' /\ RepliesTruthful'
      BY <2>5 DEF Restart, LedgerInv, IssuedOnly, Issued, RepliesTruthful, workerVars, beVars
    <3> QED BY <3>2, <3>3
  <2>6. ASSUME NEW w \in Workers, WorkerStep(w) PROVE LedgerTruthful' /\ IssuedOnly' /\ RepliesTruthful'
    BY <1>1, <2>6, LedgerOfWorkerStep
  <2>7. ASSUME NEW w \in Workers, LoseSession(w) PROVE LedgerTruthful' /\ IssuedOnly' /\ RepliesTruthful'
    BY <1>1, <2>7, LedgerFrame DEF LoseSession, dbVars, beVars
  <2>8. ASSUME NEW r \in Recipients, NEW v \in Versions, Age(r, v) PROVE LedgerTruthful' /\ IssuedOnly' /\ RepliesTruthful'
    <3>1. ASSUME NEW q \in Recipients, NEW u \in Versions PROVE Truthful(q, u)
      <4>1. \/ runs'[q][u] = runs[q][u]
            \/ runs[q][u].status = "RUNNING" /\ runs'[q][u] = [runs[q][u] EXCEPT !.aged = TRUE]
        BY <2>8, AgedRows DEF LedgerInv
      <4>2. runs[q][u] \in Rows
        BY DEF LedgerInv, TypeOK, RunTypeOK
      <4>3. CASE runs[q][u].status = "RUNNING" /\ runs'[q][u] = [runs[q][u] EXCEPT !.aged = TRUE]
        <5>1. runs'[q][u].status = "RUNNING"
          BY <4>2, <4>3, RestampFields
        <5> QED BY <5>1 DEF Truthful
      <4> QED BY <4>1, <4>3 DEF Truthful
    <3>2. LedgerTruthful'
      BY <1>1, <3>1, LedgerRows DEF LedgerInv, TypeOK
    <3> QED BY <1>1, <2>8, <3>2, LedgerFrame DEF Age, workerVars, beVars
  <2>9. ASSUME NEW c \in Catalogs \cup {None}, SwitchCatalog(c) PROVE LedgerTruthful' /\ IssuedOnly' /\ RepliesTruthful'
    BY <1>1, <2>9, LedgerFrame DEF SwitchCatalog, dbVars, workerVars, beVars
  <2> QED
    BY <2>1, <2>2, <2>3, <2>4, <2>5, <2>6, <2>7, <2>8, <2>9 DEF Next
<1> QED BY <1>1, <1>2 DEF LedgerInv

(* The ledger never claims a delivery Backend did not take, and never *)
(* gives up the version Backend waits for. *)
THEOREM LedgerIsTruthful == Spec => []LedgerTruthful
<1>1. Init => LedgerInv
  <2> SUFFICES ASSUME Init PROVE LedgerTruthful /\ IssuedOnly /\ RepliesTruthful
    BY TypeInit DEF LedgerInv
  <2>1. LedgerTruthful
    BY RunConstants DEF Init, NoRow, LedgerTruthful, Statuses
  <2>2. IssuedOnly
    BY DEF Init, IssuedOnly
  <2>3. RepliesTruthful
    BY DEF Init, RepliesTruthful
  <2> QED BY <2>1, <2>2, <2>3
<1>2. LedgerInv => LedgerTruthful
  BY DEF LedgerInv
<1> QED
  BY <1>1, <1>2, LedgerStep, PTL DEF Spec

-----------------------------------------------------------------------------
(* What ProfileRuns keeps for Chat, and what the run lock keeps of a row. *)

(* The requests somewhere between Backend and the end of dispatch. *)
Handled ==
  {q \in Requests :
     \/ \E p \in Processes :
          q \in admitting[p] \/ \E i \in 1 .. Len(queue[p]) : queue[p][i] = q
     \/ \E w \in Workers : pc[w] # "idle" /\ job[w] = q}

(* In the shared deployment a request is recorded before anything else, so *)
(* what is made of it is made of the recorded body of its version. *)
Recorded(q) == versions[q.rid][q.ver] = q.hash

RecordedOnly == Integrated => \A q \in Handled : Recorded(q)

ProfileRecorded ==
  Integrated => \A r \in Recipients :
    profile[r] # None => profile[r].result.hash = versions[r][profile[r].ver]

LatestKnown == \A r \in Recipients : latest[r] = None => Known(r) = {}

(* The receipt comes after the profile. *)
ProfileFirst ==
  \A w \in Workers : pc[w] = "receipt" =>
    Integrated /\ profile[job[w].rid] # None /\ profile[job[w].rid].ver >= job[w].ver

AnalysisInv ==
  /\ ResultInv
  /\ AnalysisMatchesInput /\ AnalysisHasProfile
  /\ LatestKnown /\ RecordedOnly /\ ProfileRecorded /\ ProfileFirst

----------------------------------------------------------------------------
(* Requests. *)

(* A step that moves no request. *)
LEMMA HandledFrame ==
  ASSUME UNCHANGED flowVars, UNCHANGED job, \A w \in Workers : pc'[w] # "idle" => pc[w] # "idle"
  PROVE  Handled' \subseteq Handled
BY DEF Handled, flowVars

(* A queue that keeps what it has, or takes one more at its end. *)
LEMMA HandledQueues ==
  ASSUME TypeOK, NEW q,
         \A s \in Processes :
           /\ admitting'[s] \subseteq admitting[s] \cup {q}
           /\ queue'[s] = queue[s] \/ queue'[s] = Append(queue[s], q),
         UNCHANGED <<pc, job>>
  PROVE  Handled' \subseteq Handled \cup {q}
<1> SUFFICES ASSUME NEW x \in Handled', x # q PROVE x \in Handled
  OBVIOUS
<1>1. ASSUME NEW s \in Processes, x \in admitting'[s] PROVE x \in Handled
  BY <1>1 DEF Handled
<1>2. ASSUME NEW s \in Processes, NEW i \in 1 .. Len(queue'[s]), queue'[s][i] = x PROVE x \in Handled
  <2>1. queue[s] \in Seq(Requests)
    BY DEF TypeOK, FlowTypeOK
  <2>2. i \in 1 .. Len(queue[s]) /\ queue[s][i] = x
    BY <1>2, <2>1
  <2> QED BY <2>2 DEF Handled
<1>3. ASSUME NEW w \in Workers, pc'[w] # "idle", job'[w] = x PROVE x \in Handled
  BY <1>3 DEF Handled
<1> QED BY <1>1, <1>2, <1>3 DEF Handled

(* A request comes in by Receive, and by nothing else. *)
LEMMA HandledStep ==
  ASSUME TypeOK, [Next]_vars, NEW x \in Handled', x \notin Handled
  PROVE  \E p \in Processes : Receive(p, x)
<1> SUFFICES ASSUME ~ \E p \in Processes : Receive(p, x) PROVE FALSE
  OBVIOUS
<1>1. CASE UNCHANGED vars
  BY <1>1, HandledFrame DEF vars, workerVars
<1>2. CASE BackendStep
  BY <1>2, HandledFrame DEF BackendStep, BackendIssue, BackendRebody, workerVars
<1>3. ASSUME NEW p \in Processes, IntakeStep(p) PROVE FALSE
  <2>1. ASSUME NEW q \in Requests, Receive(p, q) PROVE FALSE
    <3>1. \A s \in Processes :
            /\ admitting'[s] \subseteq admitting[s] \cup {q}
            /\ queue'[s] = queue[s] \/ queue'[s] = Append(queue[s], q)
      BY <2>1 DEF Receive, Enqueue, TypeOK, FlowTypeOK
    <3>2. x # q
      BY <2>1
    <3> QED BY <2>1, <3>1, <3>2, HandledQueues DEF Receive, workerVars
  <2>2. ASSUME NEW q \in admitting[p], Submit(p, q) PROVE FALSE
    <3>1. \A s \in Processes :
            /\ admitting'[s] \subseteq admitting[s] \cup {q}
            /\ queue'[s] = queue[s] \/ queue'[s] = Append(queue[s], q)
      BY <2>2 DEF Submit, Enqueue, TypeOK, FlowTypeOK
    <3>2. q \in Handled
      BY <2>2 DEF Handled, TypeOK, FlowTypeOK
    <3> QED BY <2>2, <3>1, <3>2, HandledQueues DEF Submit, workerVars
  <2> QED BY <1>3, <2>1, <2>2 DEF IntakeStep
<1>4. ASSUME NEW p \in Processes, Crash(p) PROVE FALSE
  <2>1. \A s \in Processes :
          admitting'[s] \subseteq admitting[s] /\ (queue'[s] = queue[s] \/ queue'[s] = <<>>)
    BY <1>4 DEF Crash, TypeOK, FlowTypeOK
  <2>2. \A w \in Workers : pc'[w] # "idle" => pc[w] # "idle" /\ job'[w] = job[w]
    BY <1>4 DEF Crash, Forget
  <2> QED BY <2>1, <2>2 DEF Handled
<1>5. ASSUME NEW p \in Processes, Restart(p) PROVE FALSE
  <2>1. UNCHANGED <<admitting, queue, pc, job>>
    BY <1>5 DEF Restart, workerVars
  <2> QED BY <2>1 DEF Handled
<1>6. ASSUME NEW w \in Workers, WorkerStep(w) PROVE FALSE
  <2>1. CASE Take(w)
    <3>1. Home[w] \in Processes /\ queue[Home[w]] \in Seq(Requests) /\ queue[Home[w]] # <<>>
      BY <2>1, RunConstants DEF TypeOK, FlowTypeOK, Take
    <3>2. Head(queue[Home[w]]) = queue[Home[w]][1] /\ 1 \in 1 .. Len(queue[Home[w]])
          /\ queue[Home[w]][1] \in Requests
      BY <3>1
    <3>3. Head(queue[Home[w]]) \in Handled
      BY <3>1, <3>2 DEF Handled
    <3>4. ASSUME NEW s \in Processes, NEW i \in 1 .. Len(queue'[s]), queue'[s][i] = x PROVE FALSE
      <4>1. queue[s] \in Seq(Requests)
            /\ queue'[s] = IF s = Home[w] THEN Tail(queue[s]) ELSE queue[s]
        BY <2>1 DEF TypeOK, FlowTypeOK, Take
      <4>2. \E j \in 1 .. Len(queue[s]) : queue[s][j] = x
        <5>1. CASE s = Home[w]
          <6>1. i + 1 \in 1 .. Len(queue[s]) /\ queue[s][i + 1] = x
            BY <3>1, <3>4, <4>1, <5>1
          <6> QED BY <6>1
        <5>2. CASE s # Home[w]
          BY <3>4, <4>1, <5>2
        <5> QED BY <5>1, <5>2
      <4> QED BY <4>2 DEF Handled
    <3>5. ASSUME NEW u \in Workers, pc'[u] # "idle", job'[u] = x PROVE FALSE
      <4>1. CASE u = w
        BY <2>1, <3>3, <3>5, <4>1 DEF Take, TypeOK, WorkerTypeOK
      <4>2. CASE u # w
        <5>1. pc[u] # "idle" /\ job[u] = x
          BY <2>1, <3>5, <4>2 DEF Take, Go, TypeOK, WorkerTypeOK
        <5> QED BY <5>1 DEF Handled
      <4> QED BY <4>1, <4>2
    <3>6. admitting' = admitting
      BY <2>1 DEF Take
    <3> QED BY <3>4, <3>5, <3>6 DEF Handled
  <2>2. CASE Release(w)
    BY <2>2 DEF Handled, Release, Forget, flowVars
  <2>3. CASE ~Take(w) /\ ~Release(w)
    <3>1. UNCHANGED <<flowVars, job>> /\ pc[w] # "idle" /\ \A u \in Workers : u # w => pc'[u] = pc[u]
      BY <1>6, <2>3 DEF WorkerStep, LockKey, CheckInput, Decide, StartRun, Analyse, CommitResult,
         UpsertProfile, KeepReceipt, FailRun, Send, Attempted, Invisible, RecordReply, SupersedeOlder,
         Go, TypeOK, WorkerTypeOK
    <3> QED BY <3>1, HandledFrame
  <2> QED BY <2>1, <2>2, <2>3
<1>7. ASSUME NEW w \in Workers, LoseSession(w) PROVE FALSE
  BY <1>7, HandledFrame DEF LoseSession
<1>8. ASSUME NEW r \in Recipients, NEW v \in Versions, Age(r, v) PROVE FALSE
  BY <1>8, HandledFrame DEF Age, workerVars
<1>9. ASSUME NEW c \in Catalogs \cup {None}, SwitchCatalog(c) PROVE FALSE
  BY <1>9, HandledFrame DEF SwitchCatalog, workerVars
<1> QED BY <1>1, <1>2, <1>3, <1>4, <1>5, <1>6, <1>7, <1>8, <1>9 DEF Next

----------------------------------------------------------------------------
(* The input store. *)

(* What is recorded of a version stays; what is stored of a recipient's *)
(* profile is replaced by the same version or a later one. *)
VersionsKept ==
  \A r \in Recipients, v \in Versions : versions[r][v] # None => versions'[r][v] = versions[r][v]

ProfileGrows ==
  \A r \in Recipients :
    profile[r] # None => profile'[r] # None /\ profile'[r].ver >= profile[r].ver

(* What Chat reads of one recipient. *)
MatchesInput(r) ==
  /\ latest[r] # None =>
       /\ versions[r][latest[r].ver] = latest[r].hash
       /\ \A v \in Known(r) : v <= latest[r].ver
  /\ analysis[r] # None =>
       /\ latest[r] # None /\ analysis[r].ver <= latest[r].ver
       /\ analysis[r].result.hash = versions[r][analysis[r].ver]
  /\ latest[r] = None => Known(r) = {}

LEMMA StoreTyped ==
  ASSUME AnalysisInv
  PROVE  /\ versions \in [Recipients -> [Versions -> Hashes \cup {None}]]
         /\ latest \in [Recipients -> Inputs \cup {None}]
         /\ analysis \in [Recipients -> Profiles \cup {None}]
         /\ profile \in [Recipients -> Profiles \cup {None}]
         /\ runs \in [Recipients -> [Versions -> Rows]]
         /\ \A r \in Recipients : MatchesInput(r)
         /\ None \notin Hashes \cup Profiles \cup Inputs /\ Versions \subseteq Nat
BY InputConstants DEF AnalysisInv, ResultInv, TypeOK, InputTypeOK, RunTypeOK, MatchesInput,
   AnalysisMatchesInput, LatestKnown, Versions

(* The outcomes of record(). *)
LEMMA ReceiptOutcomes ==
  ASSUME NEW r, NEW v, NEW h
  PROVE  /\ Receipt(r, v, h) = "conflict" <=> versions[r][v] \notin {h, None}
         /\ Receipt(r, v, h) = "stale" <=>
              versions[r][v] \in {h, None} /\ \E u \in Known(r) : v < u
<1>1. CASE versions[r][v] \notin {h, None}
  BY <1>1 DEF Receipt
<1>2. CASE versions[r][v] \in {h, None} /\ \E u \in Known(r) : v < u
  BY <1>2 DEF Receipt
<1>3. CASE versions[r][v] \in {h, None} /\ ~ \E u \in Known(r) : v < u
  <2>1. Receipt(r, v, h) \in {"duplicate", "stored"}
    BY <1>3 DEF Receipt
  <2> QED BY <1>3, <2>1
<1> QED BY <1>1, <1>2, <1>3

(* record(): a body is recorded once; the latest input is that of the *)
(* highest version; a recovered analysis is of the version just recorded. *)
LEMMA RecordLatest ==
  ASSUME AnalysisInv, NEW r \in Recipients, NEW v \in Versions, NEW h \in Hashes, NEW run,
         RecordInput(r, v, h, profile[r], run)
  PROVE  /\ VersionsKept /\ versions'[r][v] = h
         /\ latest'[r] \in Inputs /\ versions'[r][latest'[r].ver] = latest'[r].hash
         /\ v <= latest'[r].ver /\ \A u \in Known(r)' : u <= latest'[r].ver
         /\ latest[r] # None => latest[r].ver <= latest'[r].ver
         /\ \/ analysis'[r] = analysis[r]
            \/ Recoverable(r, v, h, profile[r], run) /\ analysis'[r] = profile[r]
               /\ latest'[r] = LatestAfter(r, v, h)
         /\ \A q \in Recipients \ {r} :
              latest'[q] = latest[q] /\ analysis'[q] = analysis[q] /\ versions'[q] = versions[q]
<1>1. /\ versions \in [Recipients -> [Versions -> Hashes \cup {None}]]
      /\ latest \in [Recipients -> Inputs \cup {None}]
      /\ analysis \in [Recipients -> Profiles \cup {None}]
      /\ MatchesInput(r)
      /\ None \notin Hashes /\ None \notin Inputs /\ Versions \subseteq Nat
  BY StoreTyped
<1>2. versions[r][v] \in {h, None} /\ versions' = [versions EXCEPT ![r][v] = h]
  BY ReceiptOutcomes DEF RecordInput
<1>3. /\ VersionsKept /\ versions'[r][v] = h
      /\ \A q \in Recipients \ {r} : versions'[q] = versions[q]
      /\ \A u \in Versions \ {v} : versions'[r][u] = versions[r][u]
  BY <1>1, <1>2 DEF VersionsKept
<1>4. Known(r)' = Known(r) \cup {v} /\ Known(r) \subseteq Versions
  BY <1>1, <1>2, <1>3 DEF Known
<1>5. \A q \in Recipients \ {r} : latest'[q] = latest[q] /\ analysis'[q] = analysis[q]
  BY <1>1 DEF RecordInput
<1>6. latest[r] # None => latest[r] \in Inputs /\ latest[r].ver \in Versions
                          /\ latest[r].hash # None
  BY <1>1 DEF Inputs
<1>7. CASE \E u \in Known(r) : v < u
  <2>1. latest' = latest /\ analysis' = analysis
    BY <1>2, <1>7, ReceiptOutcomes DEF RecordInput
  <2>2. latest[r] # None /\ \A u \in Known(r) : u <= latest[r].ver
    BY <1>1, <1>7 DEF MatchesInput
  <2>3. v < latest[r].ver
    BY <1>1, <1>4, <1>6, <1>7, <2>2
  <2>4. versions'[r][latest[r].ver] = latest[r].hash
    BY <1>1, <1>3, <1>6, <2>2, <2>3 DEF MatchesInput
  <2>5. \A u \in Known(r)' : u <= latest[r].ver
    BY <1>1, <1>4, <1>6, <2>2, <2>3
  <2> QED BY <1>1, <1>3, <1>5, <1>6, <2>1, <2>2, <2>3, <2>4, <2>5
<1>8. CASE ~ \E u \in Known(r) : v < u
  <2> DEFINE new == LatestAfter(r, v, h)
  <2>1. /\ latest'[r] = new
        /\ analysis'[r] = IF Recoverable(r, v, h, profile[r], run) THEN profile[r] ELSE analysis[r]
    BY <1>1, <1>2, <1>8, ReceiptOutcomes DEF RecordInput
  <2>2. /\ new \in Inputs /\ v <= new.ver /\ versions'[r][new.ver] = new.hash
        /\ latest[r] # None => latest[r].ver <= new.ver
        /\ \A u \in Known(r) : u <= new.ver
    <3>1. CASE latest[r] # None /\ latest[r].ver >= v
      <4>1. new = latest[r]
        BY <3>1 DEF LatestAfter
      <4>2. versions'[r][latest[r].ver] = latest[r].hash
        BY <1>1, <1>3, <1>6, <3>1 DEF MatchesInput, VersionsKept
      <4> QED BY <1>1, <1>6, <3>1, <4>1, <4>2 DEF MatchesInput
    <3>2. CASE ~(latest[r] # None /\ latest[r].ver >= v)
      <4>1. new = [ver |-> v, hash |-> h] /\ new \in Inputs
        BY <3>2 DEF LatestAfter, Inputs
      <4>2. ASSUME NEW u \in Known(r) PROVE u <= v
        <5>1. u \in Nat /\ v \in Nat /\ ~(v < u)
          BY <1>1, <1>4, <1>8
        <5> QED BY <5>1
      <4>3. latest[r] # None => latest[r].ver <= v
        BY <1>1, <1>6, <3>2
      <4> QED BY <1>1, <1>3, <4>1, <4>2, <4>3
    <3> QED BY <3>1, <3>2
  <2>3. \A u \in Known(r)' : u <= new.ver
    BY <1>4, <2>2
  <2> HIDE DEF new
  <2> QED BY <1>3, <1>5, <2>1, <2>2, <2>3 DEF new
<1> QED BY <1>7, <1>8

(* A recovered analysis is the stored profile of the version just *)
(* recorded, and that profile was made from its recorded body. *)
LEMMA RecordMatches ==
  ASSUME AnalysisInv, Integrated, NEW r \in Recipients, NEW v \in Versions, NEW h \in Hashes,
         NEW run, RecordInput(r, v, h, profile[r], run), UNCHANGED profile
  PROVE  /\ \A q \in Recipients : MatchesInput(q)'
         /\ AnalysisHasProfile' /\ ProfileRecorded'
<1>1. /\ versions \in [Recipients -> [Versions -> Hashes \cup {None}]]
      /\ latest \in [Recipients -> Inputs \cup {None}]
      /\ analysis \in [Recipients -> Profiles \cup {None}]
      /\ profile \in [Recipients -> Profiles \cup {None}]
      /\ \A q \in Recipients : MatchesInput(q)
      /\ None \notin Hashes /\ None \notin Profiles /\ None \notin Inputs /\ Versions \subseteq Nat
  BY StoreTyped
<1>2. /\ VersionsKept /\ versions'[r][v] = h
      /\ latest'[r] \in Inputs /\ versions'[r][latest'[r].ver] = latest'[r].hash
      /\ v <= latest'[r].ver /\ \A u \in Known(r)' : u <= latest'[r].ver
      /\ latest[r] # None => latest[r].ver <= latest'[r].ver
      /\ \/ analysis'[r] = analysis[r]
         \/ Recoverable(r, v, h, profile[r], run) /\ analysis'[r] = profile[r]
            /\ latest'[r] = LatestAfter(r, v, h)
      /\ \A q \in Recipients \ {r} :
           latest'[q] = latest[q] /\ analysis'[q] = analysis[q] /\ versions'[q] = versions[q]
  BY RecordLatest
<1>3. \A q \in Recipients : profile[q] # None =>
        profile[q].ver \in Versions /\ profile[q].result.hash \in Hashes
  BY <1>1 DEF Profiles, Results
<1>4. ProfileRecorded'
  <2> SUFFICES ASSUME NEW q \in Recipients, profile[q] # None
               PROVE  profile[q].result.hash = versions'[q][profile[q].ver]
    BY DEF ProfileRecorded
  <2>1. profile[q].result.hash = versions[q][profile[q].ver]
    BY DEF AnalysisInv, ProfileRecorded
  <2>2. profile[q].ver \in Versions /\ versions[q][profile[q].ver] # None
    BY <1>1, <1>3, <2>1
  <2> QED BY <1>2, <2>1, <2>2 DEF VersionsKept
<1>5. \A q \in Recipients \ {r} : MatchesInput(q)'
  BY <1>1, <1>2 DEF MatchesInput, Known
<1>6. CASE analysis'[r] = analysis[r]
  <2>1. analysis[r] # None =>
          /\ analysis[r].ver \in Versions /\ analysis[r].result.hash \in Hashes
          /\ latest[r] # None /\ latest[r].ver \in Versions /\ latest'[r].ver \in Versions
    BY <1>1, <1>2 DEF Profiles, Results, Inputs, MatchesInput
  <2>2. analysis[r] # None =>
          /\ analysis[r].ver <= latest'[r].ver
          /\ analysis[r].result.hash = versions'[r][analysis[r].ver]
    BY <1>1, <1>2, <2>1 DEF MatchesInput, VersionsKept
  <2>3. MatchesInput(r)'
    BY <1>1, <1>2, <1>6, <2>2 DEF MatchesInput
  <2>4. AnalysisHasProfile'
    BY <1>2, <1>6 DEF AnalysisInv, AnalysisHasProfile
  <2> QED BY <1>4, <1>5, <2>3, <2>4
<1>7. CASE analysis'[r] = profile[r] /\ Recoverable(r, v, h, profile[r], run)
           /\ latest'[r] = LatestAfter(r, v, h)
  <2>1. profile[r] # None /\ profile[r].ver = v /\ latest'[r].ver = v
    BY <1>7 DEF Recoverable
  <2>2. profile[r].result.hash = versions'[r][v]
    BY <1>4, <2>1 DEF ProfileRecorded
  <2>3. MatchesInput(r)'
    BY <1>1, <1>2, <1>7, <2>1, <2>2 DEF MatchesInput
  <2>4. AnalysisHasProfile'
    BY <1>1, <1>2, <1>7, <2>1 DEF AnalysisInv, AnalysisHasProfile
  <2> QED BY <1>4, <1>5, <2>3, <2>4
<1> QED BY <1>2, <1>6, <1>7

(* The receipt of an analysis stands for the profile stored just before *)
(* it, and for a request whose body was recorded. *)
LEMMA KeptMatches ==
  ASSUME AnalysisInv, NEW w \in Workers, pc[w] = "receipt",
         RecordAnalysis(job[w].rid, job[w].ver, outcome[w]), UNCHANGED profile
  PROVE  AnalysisMatchesInput' /\ AnalysisHasProfile' /\ LatestKnown'
<1> PICK r, v : r = job[w].rid /\ v = job[w].ver
  OBVIOUS
<1>1. job[w] \in Requests /\ outcome[w] \in Results /\ outcome[w].hash = job[w].hash
  BY DEF AnalysisInv, ResultInv, TypeOK, WorkerTypeOK, CarriedOfInput, Carrying
<1>2. r \in Recipients /\ v \in Versions
  BY <1>1 DEF Requests
<1>3. /\ analysis \in [Recipients -> Profiles \cup {None}]
      /\ \A q \in Recipients : MatchesInput(q)
      /\ None \notin Profiles
  BY StoreTyped
<1>4. versions[r][v] = outcome[w].hash
  <2>1. Integrated /\ job[w] \in Handled
    BY <1>1 DEF AnalysisInv, ProfileFirst, Handled
  <2> QED BY <1>1, <2>1 DEF AnalysisInv, RecordedOnly, Recorded
<1>5. profile[r] # None /\ profile[r].ver >= v
  BY DEF AnalysisInv, ProfileFirst
<1>6. UNCHANGED <<versions, latest>>
      /\ analysis' = [analysis EXCEPT ![r] =
           IF Retains(r, v, outcome[w].tag) THEN [ver |-> v, result |-> outcome[w]] ELSE analysis[r]]
  BY DEF RecordAnalysis
<1>7. \A q \in Recipients \ {r} : analysis'[q] = analysis[q]
  BY <1>3, <1>6
<1>8. /\ MatchesInput(r)'
      /\ analysis'[r] # None => profile[r] # None /\ profile[r].ver >= analysis'[r].ver
  <2>1. CASE Retains(r, v, outcome[w].tag)
    <3>1. analysis'[r] = [ver |-> v, result |-> outcome[w]]
      BY <1>2, <1>3, <1>6, <2>1
    <3>2. latest[r] # None /\ latest[r].ver >= v
      BY <2>1 DEF Retains
    <3>3. latest[r].ver \in Nat /\ v \in Nat
      BY <1>2, <3>2, StoreTyped DEF Inputs
    <3> QED BY <1>2, <1>3, <1>4, <1>5, <1>6, <3>1, <3>2, <3>3 DEF MatchesInput, Known
  <2>2. CASE ~Retains(r, v, outcome[w].tag)
    <3>1. analysis'[r] = analysis[r]
      BY <1>2, <1>3, <1>6, <2>2
    <3> QED BY <1>2, <1>3, <1>6, <3>1 DEF MatchesInput, Known, AnalysisInv, AnalysisHasProfile
  <2> QED BY <2>1, <2>2
<1>9. \A q \in Recipients \ {r} : MatchesInput(q)'
  BY <1>3, <1>6, <1>7 DEF MatchesInput, Known
<1> QED BY <1>7, <1>8, <1>9 DEF AnalysisInv, MatchesInput, AnalysisMatchesInput, AnalysisHasProfile,
        LatestKnown

(* The profile a worker stores is never older than its job, nor than the *)
(* one it replaces, and it is made from the recorded body. *)
LEMMA UpsertRecords ==
  ASSUME AnalysisInv, NEW w \in Workers, UpsertProfile(w)
  PROVE  /\ ProfileGrows /\ ProfileRecorded'
         /\ pc'[w] = "receipt" =>
              Integrated /\ profile'[job[w].rid] # None /\ profile'[job[w].rid].ver >= job[w].ver
<1> DEFINE r == job[w].rid
           new == IF profile[r] # None /\ profile[r].ver > job[w].ver THEN profile[r]
                  ELSE [ver |-> job[w].ver, result |-> outcome[w]]
<1>1. job[w] \in Requests /\ outcome[w] \in Results /\ outcome[w].hash = job[w].hash
  BY DEF AnalysisInv, ResultInv, TypeOK, WorkerTypeOK, CarriedOfInput, Carrying, UpsertProfile
<1>2. r \in Recipients /\ job[w].ver \in Nat
  BY <1>1, StoreTyped DEF Requests
<1>3. /\ profile \in [Recipients -> Profiles \cup {None}] /\ None \notin Profiles
      /\ \A q \in Profiles : q.ver \in Nat
  BY StoreTyped DEF Profiles
<1>4. Integrated => versions[r][job[w].ver] = outcome[w].hash
  <2>1. job[w] \in Handled
    BY <1>1 DEF Handled, UpsertProfile
  <2> QED BY <1>1, <2>1 DEF AnalysisInv, RecordedOnly, Recorded
<1>5. UNCHANGED versions
  BY DEF UpsertProfile, inputVars
<1>6. CASE UNCHANGED profile /\ pc'[w] = "fail"
  BY <1>3, <1>5, <1>6 DEF ProfileGrows, AnalysisInv, ProfileRecorded
<1>7. CASE profile' = [profile EXCEPT ![r] = new] /\ pc'[w] = IF Integrated THEN "receipt" ELSE "send"
  <2>1. profile'[r] = new /\ \A q \in Recipients \ {r} : profile'[q] = profile[q]
    BY <1>2, <1>3, <1>7
  <2>2. new # None /\ new.ver >= job[w].ver /\ (profile[r] # None => new.ver >= profile[r].ver)
    <3>1. [ver |-> job[w].ver, result |-> outcome[w]] \in Profiles
      BY <1>1 DEF Profiles, Requests
    <3>2. profile[r] # None => profile[r].ver \in Nat
      BY <1>2, <1>3
    <3> QED BY <1>2, <1>3, <3>1, <3>2
  <2>3. Integrated => new.result.hash = versions[r][new.ver]
    BY <1>2, <1>4 DEF AnalysisInv, ProfileRecorded
  <2> HIDE DEF new
  <2>4. ProfileGrows
    BY <1>3, <2>1, <2>2 DEF ProfileGrows
  <2>5. ProfileRecorded'
    BY <1>5, <2>1, <2>3 DEF AnalysisInv, ProfileRecorded
  <2> QED BY <1>7, <2>1, <2>2, <2>4, <2>5
<1>8. profile \in [Recipients -> Profiles \cup {None}] /\ pc \in [Workers -> Stages]
  BY <1>3 DEF AnalysisInv, ResultInv, TypeOK, WorkerTypeOK
<1> QED BY <1>6, <1>7, <1>8 DEF UpsertProfile, Go

(* What a step does to the stores. *)
LEMMA StoreStep ==
  ASSUME TypeOK, [Next]_vars
  PROVE  \/ UNCHANGED <<inputVars, profile>>
         \/ /\ Integrated /\ UNCHANGED profile
            /\ \E q \in Requests :
                 RecordInput(q.rid, q.ver, q.hash, profile[q.rid], runs[q.rid][q.ver])
         \/ \E w \in Workers : UpsertProfile(w)
         \/ \E w \in Workers :
              /\ pc[w] = "receipt" /\ UNCHANGED profile
              /\ RecordAnalysis(job[w].rid, job[w].ver, outcome[w])
<1>1. CASE UNCHANGED vars
  BY <1>1 DEF vars, dbVars
<1>2. CASE BackendStep
  BY <1>2 DEF BackendStep, BackendIssue, BackendRebody, dbVars
<1>3. ASSUME NEW p \in Processes, NEW q \in Requests, Receive(p, q)
      PROVE  UNCHANGED profile /\ (UNCHANGED inputVars
               \/ (Integrated /\ RecordInput(q.rid, q.ver, q.hash, profile[q.rid], runs[q.rid][q.ver])))
  BY <1>3 DEF Receive, dbVars
<1>4. ASSUME NEW p \in Processes, NEW q \in admitting[p], Submit(p, q)
      PROVE  UNCHANGED <<inputVars, profile>>
  BY <1>4 DEF Submit, dbVars
<1>5. ASSUME NEW p \in Processes, Crash(p) \/ Restart(p) PROVE UNCHANGED <<inputVars, profile>>
  BY <1>5 DEF Crash, Restart, dbVars
<1>6. ASSUME NEW w \in Workers, LoseSession(w) PROVE UNCHANGED <<inputVars, profile>>
  BY <1>6 DEF LoseSession, dbVars
<1>7. ASSUME NEW w \in Workers, WorkerStep(w), ~UpsertProfile(w), ~KeepReceipt(w)
      PROVE  UNCHANGED <<inputVars, profile>>
  BY <1>7 DEF WorkerStep, Take, LockKey, CheckInput, Decide, StartRun, Analyse, CommitResult, FailRun,
     Send, Invisible, RecordReply, SupersedeOlder, Release, dbVars
<1>8. ASSUME NEW w \in Workers, KeepReceipt(w)
      PROVE  UNCHANGED profile /\ (UNCHANGED inputVars
               \/ (pc[w] = "receipt" /\ RecordAnalysis(job[w].rid, job[w].ver, outcome[w])))
  BY <1>8 DEF KeepReceipt, dbVars
<1>9. ASSUME NEW r \in Recipients, NEW v \in Versions, Age(r, v) PROVE UNCHANGED <<inputVars, profile>>
  BY <1>9 DEF Age
<1>10. ASSUME NEW c \in Catalogs \cup {None}, SwitchCatalog(c) PROVE UNCHANGED <<inputVars, profile>>
  BY <1>10 DEF SwitchCatalog, dbVars
<1> QED BY <1>1, <1>2, <1>3, <1>4, <1>5, <1>6, <1>7, <1>8, <1>9, <1>10 DEF Next, IntakeStep

(* A worker is at the receipt of its job because it was, or because it has *)
(* just stored the profile. *)
LEMMA ReceiptStage ==
  ASSUME TypeOK, [Next]_vars, NEW w \in Workers, pc'[w] = "receipt"
  PROVE  job'[w] = job[w] /\ (pc[w] = "receipt" \/ UpsertProfile(w))
<1>1. CASE UNCHANGED workerVars
  BY <1>1 DEF workerVars
<1>2. ASSUME NEW u \in Workers, WorkerStep(u) PROVE job'[w] = job[w] /\ (pc[w] = "receipt" \/ UpsertProfile(w))
  <2>1. CASE Take(u)
    BY <2>1 DEF Take, Go, TypeOK, WorkerTypeOK
  <2>2. CASE Release(u)
    BY <2>2 DEF Release, Forget
  <2>3. CASE ~Take(u) /\ ~Release(u)
    <3>1. UNCHANGED job
      BY <1>2, <2>3 DEF WorkerStep, LockKey, CheckInput, Decide, StartRun, Analyse, CommitResult,
         UpsertProfile, KeepReceipt, FailRun, Send, Invisible, RecordReply, SupersedeOlder
    <3>2. u # w => pc'[w] = pc[w]
      BY <1>2, <2>3 DEF WorkerStep, LockKey, CheckInput, Decide, StartRun, Analyse, CommitResult,
         UpsertProfile, KeepReceipt, FailRun, Send, Attempted, Invisible, RecordReply, SupersedeOlder,
         Go, TypeOK, WorkerTypeOK
    <3>3. u = w /\ ~UpsertProfile(u) => pc'[w] # "receipt"
      BY <1>2, <2>3 DEF WorkerStep, LockKey, AfterLock, CheckInput, Decide, StartRun, Analyse,
         CommitResult, KeepReceipt, FailRun, Send, Attempted, Invisible, RecordReply, SupersedeOlder,
         Go, TypeOK, WorkerTypeOK
    <3> QED BY <3>1, <3>2, <3>3
  <2> QED BY <2>1, <2>2, <2>3
<1>3. ASSUME NEW p \in Processes, Crash(p) PROVE job'[w] = job[w] /\ pc[w] = "receipt"
  BY <1>3 DEF Crash, Forget
<1>4. ASSUME NEW u \in Workers, LoseSession(u) PROVE job'[w] = job[w] /\ pc[w] = "receipt"
  BY <1>4 DEF LoseSession
<1>5. BackendStep \/ (\E p \in Processes : IntakeStep(p) \/ Restart(p))
        \/ (\E r \in Recipients, v \in Versions : Age(r, v))
        \/ (\E c \in Catalogs \cup {None} : SwitchCatalog(c)) => UNCHANGED workerVars
  BY DEF BackendStep, BackendIssue, BackendRebody, IntakeStep, Receive, Submit, Restart, Age, SwitchCatalog
<1> QED BY <1>1, <1>2, <1>3, <1>4, <1>5 DEF Next, vars

(* While nothing is recorded, a profile that grows keeps what Chat reads. *)
LEMMA StoreFrame ==
  ASSUME AnalysisInv, TypeOK', UNCHANGED inputVars, ProfileGrows
  PROVE  /\ VersionsKept
         /\ AnalysisMatchesInput' /\ AnalysisHasProfile' /\ LatestKnown'
<1>1. VersionsKept /\ AnalysisMatchesInput' /\ LatestKnown'
  BY DEF AnalysisInv, AnalysisMatchesInput, LatestKnown, VersionsKept, Known, inputVars
<1>2. ASSUME NEW r \in Recipients, analysis[r] # None
      PROVE  profile'[r] # None /\ profile'[r].ver >= analysis[r].ver
  <2>1. /\ profile[r] # None /\ profile'[r] # None
        /\ profile[r].ver >= analysis[r].ver /\ profile'[r].ver >= profile[r].ver
    BY <1>2 DEF AnalysisInv, AnalysisHasProfile, ProfileGrows
  <2>2. analysis[r].ver \in Nat /\ profile[r].ver \in Nat /\ profile'[r].ver \in Nat
    BY <1>2, <2>1, StoreTyped DEF TypeOK, RunTypeOK, Profiles
  <2> QED BY <2>1, <2>2
<1>3. AnalysisHasProfile'
  BY <1>2 DEF AnalysisHasProfile, inputVars
<1> QED BY <1>1, <1>3

(* What a step does to the stores keeps them together. *)
LEMMA StoresKept ==
  ASSUME AnalysisInv, [Next]_vars, TypeOK'
  PROVE  /\ VersionsKept /\ ProfileGrows /\ ProfileRecorded'
         /\ AnalysisMatchesInput' /\ AnalysisHasProfile' /\ LatestKnown'
<1>1. TypeOK
  BY DEF AnalysisInv, ResultInv
<1>2. UNCHANGED profile => ProfileGrows
  BY StoreTyped DEF ProfileGrows, Profiles
<1>3. CASE UNCHANGED <<inputVars, profile>>
  BY <1>2, <1>3, StoreFrame DEF AnalysisInv, ProfileRecorded, inputVars
<1>4. ASSUME Integrated, UNCHANGED profile, NEW q \in Requests,
             RecordInput(q.rid, q.ver, q.hash, profile[q.rid], runs[q.rid][q.ver])
      PROVE  /\ VersionsKept /\ ProfileRecorded'
             /\ AnalysisMatchesInput' /\ AnalysisHasProfile' /\ LatestKnown'
  <2>1. q.rid \in Recipients /\ q.ver \in Versions /\ q.hash \in Hashes
    BY <1>4 DEF Requests
  <2>2. VersionsKept
    BY <1>4, <2>1, RecordLatest
  <2>3. (\A p \in Recipients : MatchesInput(p)') /\ AnalysisHasProfile' /\ ProfileRecorded'
    BY <1>4, <2>1, RecordMatches
  <2> QED BY <2>2, <2>3 DEF MatchesInput, AnalysisMatchesInput, LatestKnown
<1>5. ASSUME NEW w \in Workers, UpsertProfile(w)
      PROVE  UNCHANGED inputVars /\ ProfileGrows /\ ProfileRecorded'
  BY <1>5, UpsertRecords DEF UpsertProfile
<1>6. ASSUME NEW w \in Workers, pc[w] = "receipt", UNCHANGED profile,
             RecordAnalysis(job[w].rid, job[w].ver, outcome[w])
      PROVE  /\ VersionsKept /\ ProfileRecorded'
             /\ AnalysisMatchesInput' /\ AnalysisHasProfile' /\ LatestKnown'
  <2>1. AnalysisMatchesInput' /\ AnalysisHasProfile' /\ LatestKnown'
    BY <1>6, KeptMatches
  <2>2. VersionsKept /\ ProfileRecorded'
    BY <1>6 DEF RecordAnalysis, VersionsKept, AnalysisInv, ProfileRecorded
  <2> QED BY <2>1, <2>2
<1> QED BY <1>1, <1>2, <1>3, <1>4, <1>5, <1>6, StoreStep, StoreFrame

(* A request that comes in has just been recorded, and what is recorded *)
(* stays. *)
LEMMA RecordedStep ==
  ASSUME AnalysisInv, [Next]_vars, TypeOK', VersionsKept
  PROVE  RecordedOnly'
<1> SUFFICES ASSUME Integrated, NEW q \in Handled' PROVE Recorded(q)'
  BY DEF RecordedOnly
<1>1. TypeOK
  BY DEF AnalysisInv, ResultInv
<1>2. CASE q \in Handled
  <2>1. q \in Requests
    BY DEF Handled
  <2>2. versions[q.rid][q.ver] = q.hash /\ q.hash # None
    BY <1>2, <2>1, StoreTyped DEF AnalysisInv, RecordedOnly, Recorded, Requests
  <2> QED BY <2>1, <2>2 DEF VersionsKept, Recorded, Requests
<1>3. CASE q \notin Handled
  <2>1. PICK p \in Processes : Receive(p, q)
    BY <1>1, <1>3, HandledStep
  <2>2. q \in Requests
    BY DEF Handled
  <2>3. RecordInput(q.rid, q.ver, q.hash, profile[q.rid], runs[q.rid][q.ver])
    BY <2>1 DEF Receive
  <2>4. versions'[q.rid][q.ver] = q.hash
    BY <2>2, <2>3, RecordLatest DEF Requests
  <2> QED BY <2>4 DEF Recorded
<1> QED BY <1>2, <1>3

(* The profile a receipt stands for is there when the receipt is kept. *)
LEMMA ProfileFirstStep ==
  ASSUME AnalysisInv, [Next]_vars, TypeOK', ProfileGrows
  PROVE  ProfileFirst'
<1> SUFFICES ASSUME NEW w \in Workers, pc'[w] = "receipt"
             PROVE  Integrated /\ profile'[job'[w].rid] # None /\ profile'[job'[w].rid].ver >= job'[w].ver
  BY DEF ProfileFirst
<1>1. TypeOK
  BY DEF AnalysisInv, ResultInv
<1>2. job'[w] = job[w] /\ (pc[w] = "receipt" \/ UpsertProfile(w))
  BY <1>1, ReceiptStage
<1>3. CASE UpsertProfile(w)
  BY <1>2, <1>3, UpsertRecords
<1>4. CASE pc[w] = "receipt"
  <2> PICK r : r = job[w].rid
    OBVIOUS
  <2>1. job[w] \in Requests
    BY <1>1, <1>4 DEF TypeOK, WorkerTypeOK
  <2>2. r \in Recipients /\ job[w].ver \in Nat
    BY <2>1, StoreTyped DEF Requests
  <2>3. Integrated /\ profile[r] # None /\ profile[r].ver >= job[w].ver
    BY <1>4 DEF AnalysisInv, ProfileFirst
  <2>4. profile'[r] # None /\ profile'[r].ver >= profile[r].ver
    BY <2>2, <2>3 DEF ProfileGrows
  <2>5. profile[r].ver \in Nat /\ profile'[r].ver \in Nat
    BY <2>2, <2>3, <2>4, StoreTyped DEF TypeOK, RunTypeOK, Profiles
  <2> QED BY <1>2, <2>2, <2>3, <2>4, <2>5
<1> QED BY <1>2, <1>3, <1>4

(* Nothing is handled, recorded or stored at first. *)
LEMMA AnalysisInit == Init => AnalysisInv
<1> SUFFICES ASSUME Init PROVE AnalysisInv
  OBVIOUS
<1>1. ResultInv
  BY ResultInit
<1>2. \A r \in Recipients : latest[r] = None /\ analysis[r] = None /\ profile[r] = None /\ Known(r) = {}
  BY DEF Init, InputInit, Known
<1>3. Handled = {}
  BY DEF Init, Handled
<1>4. \A w \in Workers : pc[w] # "receipt"
  BY DEF Init
<1> QED BY <1>1, <1>2, <1>3, <1>4 DEF AnalysisInv, AnalysisMatchesInput, AnalysisHasProfile, LatestKnown,
        RecordedOnly, ProfileRecorded, ProfileFirst

(* A step keeps the stores together. *)
LEMMA AnalysisStep == AnalysisInv /\ [Next]_vars => AnalysisInv'
<1> SUFFICES ASSUME AnalysisInv, [Next]_vars PROVE AnalysisInv'
  OBVIOUS
<1>1. ResultInv'
  BY ResultStep DEF AnalysisInv
<1>2. TypeOK'
  BY <1>1 DEF ResultInv
<1>3. /\ VersionsKept /\ ProfileGrows /\ ProfileRecorded'
      /\ AnalysisMatchesInput' /\ AnalysisHasProfile' /\ LatestKnown'
  BY <1>2, StoresKept
<1>4. RecordedOnly' /\ ProfileFirst'
  BY <1>2, <1>3, RecordedStep, ProfileFirstStep
<1> QED BY <1>1, <1>3, <1>4 DEF AnalysisInv

(* What Chat reads beside the latest input of a recipient was made from *)
(* the recorded body of its own version, whatever is resubmitted, *)
(* reordered, lost or recovered. *)
THEOREM AnalysisIsOfTheInput == Spec => []AnalysisMatchesInput
<1>1. AnalysisInv => AnalysisMatchesInput
  BY DEF AnalysisInv
<1> QED BY <1>1, AnalysisInit, AnalysisStep, PTL DEF Spec

(* No receipt of an analysis without the profile it stands for. *)
THEOREM ReceiptsStandForProfiles == Spec => []AnalysisHasProfile
<1>1. AnalysisInv => AnalysisHasProfile
  BY DEF AnalysisInv
<1> QED BY <1>1, AnalysisInit, AnalysisStep, PTL DEF Spec

----------------------------------------------------------------------------
(* The run lock. *)

(* A row that keeps what a worker under the lock knows of it. *)
Alike(old, new) ==
  /\ new.status \in Sendable <=> old.status \in Sendable
  /\ new.hash = old.hash /\ new.result = old.result

Knows(w) ==
  session[w] = "locked" =>
    /\ pc[w] \in {"analyse", "commit"} => Row(w).status \notin Sendable
    /\ pc[w] \in Carrying \ {"commit"} =>
         /\ Row(w).status \in Sendable
         /\ Row(w).hash = job[w].hash
         /\ Row(w).result = outcome[w]

(* A worker that writes a row has the lock of it. *)
LEMMA WriterHolds ==
  ASSUME LockInv, NEW w \in Workers, StatementOk(w), pc[w] \notin {"idle", "lock", "release"}
  PROVE  session[w] = "locked"
BY DEF LockInv, LockedOrLost, StatementOk

(* Nobody else writes over the row of a worker that has its lock: what *)
(* another worker does to it is at most to supersede it. *)
LEMMA OthersKeepRow ==
  ASSUME LockInv, NEW w \in Workers, NEW u \in Workers, u # w, WorkerStep(u),
         session[w] = "locked"
  PROVE  Alike(Row(w), runs'[job[w].rid][job[w].ver])
<1> PICK r, v : r = job[w].rid /\ v = job[w].ver
  OBVIOUS
<1>1. TypeOK
  BY DEF LockInv
<1>2. r \in Recipients /\ v \in Versions
  <2>1. pc[w] # "idle"
    BY DEF LockInv, LockedOrLost
  <2> QED BY <1>1, <2>1 DEF TypeOK, WorkerTypeOK, Requests
<1>3. runs \in [Recipients -> [Versions -> Rows]]
  BY <1>1 DEF TypeOK, RunTypeOK
<1>4. CASE UNCHANGED runs
  BY <1>4 DEF Alike, Row
<1>5. ASSUME NEW status, NEW result, SaveRun(u, status, result), StatementOk(u),
             pc[u] \notin {"idle", "lock", "release"}
      PROVE  runs'[r][v] = runs[r][v]
  <2>1. job[u].rid # r \/ job[u].ver # v
    BY <1>5, WriterHolds DEF LockInv, OneHolder
  <2> QED BY <1>2, <1>3, <1>5, <2>1 DEF SaveRun
<1>6. CASE SupersedeOlder(u)
  <2>1. \/ runs'[r][v] = runs[r][v]
        \/ /\ runs[r][v].status = "RESULT_READY"
           /\ runs'[r][v] = [runs[r][v] EXCEPT !.status = "SUPERSEDED"]
    BY <1>1, <1>2, <1>6, SupersededRows
  <2>2. ASSUME NEW old \in Rows, old.status = "RESULT_READY"
        PROVE  Alike(old, [old EXCEPT !.status = "SUPERSEDED"])
    BY <2>2 DEF Alike, Rows, Sendable
  <2>3. runs[r][v] \in Rows
    BY <1>2, <1>3
  <2>4. Alike(runs[r][v], runs'[r][v])
    BY <2>1, <2>2, <2>3 DEF Alike
  <2> QED BY <2>4 DEF Row
<1>7. runs'[r][v] = runs[r][v] => Alike(Row(w), runs'[job[w].rid][job[w].ver])
  BY DEF Alike, Row
<1>8. CASE StartRun(u)
  BY <1>4, <1>5, <1>7, <1>8 DEF StartRun
<1>9. CASE CommitResult(u)
  BY <1>4, <1>5, <1>7, <1>9 DEF CommitResult
<1>10. CASE FailRun(u)
  BY <1>4, <1>5, <1>7, <1>10 DEF FailRun
<1>11. CASE RecordReply(u)
  BY <1>4, <1>5, <1>7, <1>11 DEF RecordReply
<1> QED BY <1>4, <1>6, <1>8, <1>9, <1>10, <1>11 DEF WorkerStep, Take, LockKey, CheckInput, Decide,
        Analyse, UpsertProfile, KeepReceipt, Send, Invisible, Release, dbVars

(* The worker itself: what it does to its row under the lock it knows. *)
LEMMA HolderStep ==
  ASSUME LockInv, NEW w \in Workers, WorkerStep(w)
  PROVE  Knows(w)'
<1> PICK r, v : r = job[w].rid /\ v = job[w].ver
  OBVIOUS
<1>1. TypeOK
  BY DEF LockInv
<1>2. runs \in [Recipients -> [Versions -> Rows]] /\ pc \in [Workers -> Stages]
      /\ session[w] \in {"none", "locked", "unlocked", "lost"}
      /\ session \in [Workers -> {"none", "locked", "unlocked", "lost"}]
      /\ outcome \in [Workers -> Results \cup {None}] /\ reply[w] \in Statuses
  BY <1>1 DEF TypeOK, RunTypeOK, WorkerTypeOK
<1>3. pc[w] # "idle" => job[w] \in Requests /\ r \in Recipients /\ v \in Versions /\ job[w].hash \in Hashes
  BY <1>1 DEF TypeOK, WorkerTypeOK, Requests
<1>4. Knows(w)
  BY DEF LockInv, HolderKnowsRow, Knows
<1>5. pc[w] \in Carrying => outcome[w] \in Results /\ outcome[w] # None
  BY <1>1, RunConstants DEF TypeOK, WorkerTypeOK
<1>6. CASE Take(w)
  BY <1>2, <1>6 DEF Take, Go, Knows, Carrying
<1>7. CASE LockKey(w) \/ CheckInput(w)
  BY <1>2, <1>7 DEF LockKey, CheckInput, AfterLock, Go, Knows, Carrying
<1>8. CASE Decide(w)
  <2>1. Row(w) \in Rows /\ UNCHANGED <<runs, job, session>>
    BY <1>2, <1>3, <1>8 DEF Decide, dbVars, Row
  <2>2. pc'[w] \in {"start", "send", "release"}
    BY <1>2, <1>8 DEF Decide, Go
  <2>3. ASSUME pc'[w] = "send"
        PROVE  /\ Row(w).status \in Sendable /\ Row(w).hash = job[w].hash
               /\ outcome'[w] = Row(w).result
    BY <1>2, <1>8, <2>1, <2>3 DEF Decide, Verdict, Go, Rows, Statuses, Sendable
  <2> QED BY <2>1, <2>2, <2>3 DEF Knows, Row, Carrying
<1>9. ASSUME NEW status \in Statuses, NEW result \in Results \cup {None}, SaveRun(w, status, result),
             pc[w] # "idle"
      PROVE  /\ runs'[r][v].status = status /\ runs'[r][v].hash = job[w].hash
             /\ result # None => runs'[r][v].result = result
  BY <1>2, <1>3, <1>9 DEF SaveRun, Upserted
<1>10. CASE StartRun(w)
  <2>1. CASE SaveRun(w, "RUNNING", None) /\ pc' = [pc EXCEPT ![w] = "analyse"] /\ UNCHANGED <<job, session>>
    <3>1. runs'[r][v].status = "RUNNING"
      BY <1>9, <1>10, <2>1 DEF StartRun, Statuses
    <3> QED BY <1>2, <2>1, <3>1 DEF Knows, Row, Carrying, Sendable
  <2>2. CASE pc' = [pc EXCEPT ![w] = "release"]
    BY <1>2, <2>2 DEF Knows, Carrying
  <2> QED BY <1>10, <2>1, <2>2 DEF StartRun, Go
<1>11. CASE Analyse(w)
  BY <1>2, <1>4, <1>11 DEF Analyse, Go, Knows, Row, Carrying, dbVars
<1>12. CASE CommitResult(w)
  <2>1. CASE SaveRun(w, "RESULT_READY", outcome[w]) /\ pc' = [pc EXCEPT ![w] = "upsert"]
             /\ UNCHANGED <<job, session, outcome>>
    <3>1. runs'[r][v].status = "RESULT_READY" /\ runs'[r][v].hash = job[w].hash
          /\ runs'[r][v].result = outcome[w]
      BY <1>5, <1>9, <1>12, <2>1 DEF CommitResult, Statuses, Carrying
    <3> QED BY <1>2, <2>1, <3>1 DEF Knows, Row, Carrying, Sendable
  <2>2. CASE pc' = [pc EXCEPT ![w] = "release"]
    BY <1>2, <2>2 DEF Knows, Carrying
  <2> QED BY <1>12, <2>1, <2>2 DEF CommitResult, Go
<1>13. CASE UpsertProfile(w)
  BY <1>2, <1>4, <1>13 DEF UpsertProfile, Go, Knows, Row, Carrying
<1>14. CASE KeepReceipt(w)
  BY <1>2, <1>4, <1>14 DEF KeepReceipt, Go, Knows, Row, Carrying, dbVars
<1>15. CASE FailRun(w)
  BY <1>2, <1>15 DEF FailRun, Go, Knows, Carrying
<1>16. CASE Send(w)
  BY <1>2, <1>4, <1>16 DEF Send, Attempted, Go, Knows, Row, Carrying, dbVars
<1>17. CASE Invisible(w)
  BY <1>2, <1>4, <1>17 DEF Invisible, Go, Knows, Row, Carrying, dbVars
<1>18. CASE RecordReply(w)
  BY <1>2, <1>18 DEF RecordReply, Go, Knows, Carrying
<1>19. CASE SupersedeOlder(w)
  BY <1>2, <1>19 DEF SupersedeOlder, Go, Knows, Carrying
<1>20. CASE Release(w)
  BY <1>20 DEF Release, Forget, Knows
<1> QED BY <1>6, <1>7, <1>8, <1>10, <1>11, <1>12, <1>13, <1>14, <1>15, <1>16, <1>17, <1>18, <1>19,
        <1>20 DEF WorkerStep

(* The steps of the surroundings restamp rows, and no row that carries a *)
(* result. *)
LEMMA SurroundingsRows ==
  ASSUME TypeOK, [Next]_vars, ~ \E u \in Workers : WorkerStep(u),
         NEW r \in Recipients, NEW v \in Versions
  PROVE  Alike(runs[r][v], runs'[r][v])
<1>1. runs[r][v] \in Rows
  BY DEF TypeOK, RunTypeOK
<1>2. /\ \A old \in Rows : Alike(old, old)
      /\ \A old \in Rows : old.status = "RUNNING" =>
           /\ Alike(old, [old EXCEPT !.status = "FAILED", !.aged = FALSE])
           /\ Alike(old, [old EXCEPT !.aged = TRUE])
  BY DEF Alike, Rows, Sendable
<1>3. ASSUME NEW p \in Processes, Restart(p) PROVE Alike(runs[r][v], runs'[r][v])
  <2>1. \/ runs'[r][v] = runs[r][v]
        \/ /\ runs[r][v].status = "RUNNING"
           /\ runs'[r][v] = [runs[r][v] EXCEPT !.status = "FAILED", !.aged = FALSE]
    BY <1>3, RestartedRows
  <2> QED BY <1>1, <1>2, <2>1
<1>4. ASSUME NEW q \in Recipients, NEW u \in Versions, Age(q, u) PROVE Alike(runs[r][v], runs'[r][v])
  <2>1. \/ runs'[r][v] = runs[r][v]
        \/ /\ runs[r][v].status = "RUNNING"
           /\ runs'[r][v] = [runs[r][v] EXCEPT !.aged = TRUE]
    BY <1>4, AgedRows
  <2> QED BY <1>1, <1>2, <2>1
<1>5. BackendStep \/ (\E p \in Processes : IntakeStep(p) \/ Crash(p)) \/ (\E w \in Workers : LoseSession(w))
        \/ (\E c \in Catalogs \cup {None} : SwitchCatalog(c)) \/ UNCHANGED vars
      => UNCHANGED runs
  BY DEF BackendStep, BackendIssue, BackendRebody, IntakeStep, Receive, Submit, Crash, LoseSession,
     SwitchCatalog, vars, dbVars
<1>6. UNCHANGED runs => Alike(runs[r][v], runs'[r][v])
  BY DEF Alike
<1> QED BY <1>3, <1>4, <1>5, <1>6 DEF Next

(* They leave what a holder knows, or take its session. *)
LEMMA SurroundingsKnow ==
  ASSUME TypeOK, [Next]_vars, ~ \E u \in Workers : WorkerStep(u), NEW w \in Workers,
         session'[w] = "locked"
  PROVE  session[w] = "locked" /\ pc'[w] = pc[w] /\ job'[w] = job[w] /\ outcome'[w] = outcome[w]
<1>1. ASSUME NEW u \in Workers, LoseSession(u) PROVE UNCHANGED <<pc, job, outcome>> /\ session[w] = "locked"
  BY <1>1 DEF LoseSession, TypeOK, WorkerTypeOK
<1>2. ASSUME NEW p \in Processes, Crash(p)
      PROVE  session[w] = "locked" /\ pc'[w] = pc[w] /\ job'[w] = job[w] /\ outcome'[w] = outcome[w]
  BY <1>2 DEF Crash, Forget
<1>3. BackendStep \/ (\E p \in Processes : IntakeStep(p) \/ Restart(p))
        \/ (\E r \in Recipients, v \in Versions : Age(r, v))
        \/ (\E c \in Catalogs \cup {None} : SwitchCatalog(c)) \/ UNCHANGED vars
      => UNCHANGED <<pc, job, session, outcome>>
  BY DEF BackendStep, BackendIssue, BackendRebody, IntakeStep, Receive, Submit, Restart, Age,
     SwitchCatalog, workerVars, vars
<1> QED BY <1>1, <1>2, <1>3 DEF Next

(* The lock: taken by one worker at a time, kept or lost until the end. *)
LEMMA LockSessions ==
  ASSUME LockInv, [Next]_vars, Locks'
  PROVE  OneHolder' /\ LockedOrLost'
<1>1. TypeOK /\ OneHolder /\ LockedOrLost
  BY DEF LockInv
<1>2. CASE UNCHANGED <<pc, job, session>>
  BY <1>1, <1>2 DEF OneHolder, LockedOrLost
<1>3. ASSUME NEW u \in Workers, WorkerStep(u) PROVE OneHolder' /\ LockedOrLost'
  <2>1. CASE Take(u)
    BY <1>1, <2>1 DEF Take, Go, TypeOK, WorkerTypeOK, OneHolder, LockedOrLost
  <2>2. CASE LockKey(u)
    <3>1. /\ pc[u] = "lock" /\ session[u] = "none" /\ session'[u] # "unlocked" /\ UNCHANGED job
          /\ \A w \in Workers : w # u => pc'[w] = pc[w] /\ session'[w] = session[w]
      BY <1>1, <2>2 DEF LockKey, Go, TypeOK, WorkerTypeOK, LockedOrLost, Locks
    <3>2. \/ /\ session'[u] = "locked" /\ pc'[u] \in {"check", "decide"}
             /\ \A w \in Workers : ~Holds(w, job[u].rid, job[u].ver)
          \/ session'[u] = "none" /\ pc'[u] = "release"
      BY <1>1, <2>2, <3>1 DEF LockKey, AfterLock, Go, TypeOK, WorkerTypeOK
    <3>3. OneHolder'
      BY <1>1, <3>1, <3>2 DEF OneHolder, Holds
    <3>4. LockedOrLost'
      BY <1>1, <3>1, <3>2 DEF LockedOrLost
    <3> QED BY <3>3, <3>4
  <2>3. CASE Release(u)
    BY <1>1, <2>3 DEF Release, Forget, OneHolder, LockedOrLost
  <2>4. CASE ~Take(u) /\ ~LockKey(u) /\ ~Release(u)
    <3>1. /\ UNCHANGED <<job, session>> /\ pc[u] \notin {"idle", "lock"} /\ pc'[u] \notin {"idle", "lock"}
          /\ pc[u] # "release"
          /\ \A w \in Workers : w # u => pc'[w] = pc[w]
      BY <1>1, <1>3, <2>4 DEF WorkerStep, CheckInput, Decide, StartRun, Analyse, CommitResult,
         UpsertProfile, KeepReceipt, FailRun, Send, Attempted, Invisible, RecordReply, SupersedeOlder,
         Go, TypeOK, WorkerTypeOK
    <3> QED BY <1>1, <3>1 DEF OneHolder, LockedOrLost
  <2> QED BY <2>1, <2>2, <2>3, <2>4
<1>4. ASSUME NEW u \in Workers, LoseSession(u) PROVE OneHolder' /\ LockedOrLost'
  BY <1>1, <1>4 DEF LoseSession, TypeOK, WorkerTypeOK, OneHolder, LockedOrLost
<1>5. ASSUME NEW p \in Processes, Crash(p) PROVE OneHolder' /\ LockedOrLost'
  BY <1>1, <1>5 DEF Crash, Forget, OneHolder, LockedOrLost
<1>6. BackendStep \/ (\E p \in Processes : IntakeStep(p) \/ Restart(p))
        \/ (\E r \in Recipients, v \in Versions : Age(r, v))
        \/ (\E c \in Catalogs \cup {None} : SwitchCatalog(c)) \/ UNCHANGED vars
      => UNCHANGED <<pc, job, session>>
  BY DEF BackendStep, BackendIssue, BackendRebody, IntakeStep, Receive, Submit, Restart, Age,
     SwitchCatalog, workerVars, vars
<1> QED BY <1>2, <1>3, <1>4, <1>5, <1>6 DEF Next

(* What a holder knows stays true. *)
LEMMA HolderKeeps ==
  ASSUME LockInv, [Next]_vars
  PROVE  HolderKnowsRow'
<1> SUFFICES ASSUME NEW w \in Workers PROVE Knows(w)'
  BY DEF HolderKnowsRow, Knows
<1> PICK r, v : r = job[w].rid /\ v = job[w].ver
  OBVIOUS
<1>1. Knows(w) /\ LockedOrLost /\ TypeOK
  BY DEF LockInv, HolderKnowsRow, Knows
<1>2. CASE WorkerStep(w)
  BY <1>2, HolderStep
<1>3. ASSUME session[w] = "locked", pc'[w] = pc[w], job'[w] = job[w], outcome'[w] = outcome[w],
             Alike(runs[r][v], runs'[r][v])
      PROVE  Knows(w)'
  BY <1>1, <1>3 DEF Knows, Row, Alike
<1>4. ASSUME NEW u \in Workers, u # w, WorkerStep(u) PROVE Knows(w)'
  <2> SUFFICES ASSUME session'[w] = "locked" PROVE Knows(w)'
    BY DEF Knows
  <2>1. session[w] = "locked" /\ pc'[w] = pc[w] /\ job'[w] = job[w] /\ outcome'[w] = outcome[w]
    BY <1>1, <1>4 DEF WorkerStep, Take, LockKey, CheckInput, Decide, StartRun, Analyse, CommitResult,
       UpsertProfile, KeepReceipt, FailRun, Send, Attempted, Invisible, RecordReply, SupersedeOlder,
       Release, Forget, Go, TypeOK, WorkerTypeOK
  <2>2. Alike(runs[r][v], runs'[r][v])
    BY <1>4, <2>1, OthersKeepRow DEF Row
  <2> QED BY <1>3, <2>1, <2>2
<1>5. CASE ~ \E u \in Workers : WorkerStep(u)
  <2> SUFFICES ASSUME session'[w] = "locked" PROVE Knows(w)'
    BY DEF Knows
  <2>1. session[w] = "locked" /\ pc'[w] = pc[w] /\ job'[w] = job[w] /\ outcome'[w] = outcome[w]
    BY <1>1, <1>5, SurroundingsKnow
  <2>2. r \in Recipients /\ v \in Versions
    <3>1. pc[w] # "idle"
      BY <1>1, <2>1 DEF LockedOrLost
    <3> QED BY <1>1, <3>1 DEF TypeOK, WorkerTypeOK, Requests
  <2>3. Alike(runs[r][v], runs'[r][v])
    BY <1>1, <1>5, <2>2, SurroundingsRows
  <2> QED BY <1>3, <2>1, <2>3
<1> QED BY <1>2, <1>4, <1>5

(* With a lock that works, LockInv is inductive. *)
LEMMA LockInit == Init => LockInv /\ Locks
<1> SUFFICES ASSUME Init PROVE LockInv /\ Locks
  OBVIOUS
<1>1. OneHolder /\ LockedOrLost /\ HolderKnowsRow /\ Locks
  BY DEF Init, OneHolder, LockedOrLost, HolderKnowsRow, Locks
<1> QED BY <1>1, TypeInit DEF LockInv

(* A step that gives no worker a run without a lock keeps LockInv. *)
LEMMA LockStep == LockInv /\ [Next]_vars /\ Locks' => LockInv'
<1> SUFFICES ASSUME LockInv, [Next]_vars, Locks' PROVE LockInv'
  OBVIOUS
<1>1. TypeOK'
  BY TypeStep DEF LockInv
<1> QED BY <1>1, LockSessions, HolderKeeps DEF LockInv

(* Only a lock that cannot be asked for gives a run without a lock. *)
LEMMA LocksKept == ~LockCanFail /\ TypeOK /\ Locks /\ [Next]_vars => Locks'
<1> SUFFICES ASSUME ~LockCanFail, TypeOK, Locks, [Next]_vars, NEW w \in Workers
             PROVE  session'[w] # "unlocked"
  BY DEF Locks
<1>1. ASSUME NEW u \in Workers, WorkerStep(u) PROVE session'[w] # "unlocked"
  BY <1>1 DEF Locks, WorkerStep, Take, LockKey, CheckInput, Decide, StartRun, Analyse, CommitResult,
     UpsertProfile, KeepReceipt, FailRun, Send, Invisible, RecordReply, SupersedeOlder, Release, Forget,
     TypeOK, WorkerTypeOK
<1>2. ASSUME NEW u \in Workers, LoseSession(u) PROVE session'[w] # "unlocked"
  BY <1>2 DEF Locks, LoseSession, TypeOK, WorkerTypeOK
<1>3. ASSUME NEW p \in Processes, Crash(p) PROVE session'[w] # "unlocked"
  BY <1>3 DEF Locks, Crash, Forget
<1>4. BackendStep \/ (\E p \in Processes : IntakeStep(p) \/ Restart(p))
        \/ (\E r \in Recipients, v \in Versions : Age(r, v))
        \/ (\E c \in Catalogs \cup {None} : SwitchCatalog(c)) \/ UNCHANGED vars
      => UNCHANGED session
  BY DEF BackendStep, BackendIssue, BackendRebody, IntakeStep, Receive, Submit, Restart, Age,
     SwitchCatalog, workerVars, vars
<1> QED BY <1>1, <1>2, <1>3, <1>4 DEF Next, Locks

(* Under the lock a row that has a result is only given the same again. *)
LEMMA ResultsKept == LockInv /\ [Next]_vars => KeepsResults
<1> SUFFICES ASSUME LockInv, [Next]_vars, NEW r \in Recipients, NEW v \in Versions,
                    runs[r][v].status \in Sendable, runs'[r][v].status \in Sendable,
                    runs'[r][v].hash = runs[r][v].hash
             PROVE  runs'[r][v].result = runs[r][v].result
  BY DEF KeepsResults
<1>1. TypeOK /\ runs \in [Recipients -> [Versions -> Rows]] /\ runs[r][v] \in Rows
  BY DEF LockInv, TypeOK, RunTypeOK
<1>2. CASE ~ \E u \in Workers : WorkerStep(u)
  BY <1>1, <1>2, SurroundingsRows DEF Alike
<1>3. ASSUME NEW u \in Workers, NEW status \in Statuses, NEW result \in Results \cup {None},
             SaveRun(u, status, result), pc[u] # "idle"
      PROVE  \/ runs'[r][v] = runs[r][v]
             \/ /\ runs[r][v] = Row(u) /\ runs'[r][v].status = status
                /\ result # None => runs'[r][v].result = result
  <2>1. job[u] \in Requests
    BY <1>1, <1>3 DEF TypeOK, WorkerTypeOK
  <2> QED BY <1>1, <1>3, <2>1 DEF SaveRun, Upserted, Row, Requests
<1>4. ASSUME NEW u \in Workers, WorkerStep(u) PROVE runs'[r][v].result = runs[r][v].result
  <2>1. CASE UNCHANGED runs
    BY <2>1
  <2>2. ASSUME pc[u] \in Carrying PROVE outcome[u] \in Results /\ outcome[u] # None
    BY <1>1, <2>2, RunConstants DEF TypeOK, WorkerTypeOK
  <2>3. CASE StartRun(u) \/ FailRun(u)
    BY <1>3, <2>1, <2>3 DEF StartRun, FailRun, Statuses, Sendable
  <2>4. CASE CommitResult(u)
    <3>1. CASE StatementOk(u) /\ SaveRun(u, "RESULT_READY", outcome[u])
      <4>1. session[u] = "locked"
        BY <2>4, <3>1, WriterHolds DEF CommitResult
      <4>2. Row(u).status \notin Sendable
        BY <2>4, <4>1 DEF CommitResult, LockInv, HolderKnowsRow
      <4> QED BY <1>3, <2>2, <2>4, <3>1, <4>2 DEF CommitResult, Statuses, Carrying
    <3> QED BY <2>1, <2>4, <3>1 DEF CommitResult
  <2>5. CASE RecordReply(u)
    <3>1. CASE StatementOk(u) /\ SaveRun(u, reply[u], outcome[u])
      <4>1. session[u] = "locked"
        BY <2>5, <3>1, WriterHolds DEF RecordReply
      <4>2. Row(u).result = outcome[u]
        BY <2>5, <4>1 DEF RecordReply, LockInv, HolderKnowsRow, Carrying
      <4>3. reply[u] \in Statuses
        BY <1>1 DEF TypeOK, WorkerTypeOK
      <4> QED BY <1>3, <2>2, <2>5, <3>1, <4>2, <4>3 DEF RecordReply, Carrying
    <3> QED BY <2>1, <2>5, <3>1 DEF RecordReply
  <2>6. CASE SupersedeOlder(u)
    <3>1. \/ runs'[r][v] = runs[r][v]
          \/ runs'[r][v] = [runs[r][v] EXCEPT !.status = "SUPERSEDED"]
      BY <1>1, <2>6, SupersededRows
    <3>2. \A old \in Rows : [old EXCEPT !.status = "SUPERSEDED"].result = old.result
      BY DEF Rows
    <3> QED BY <1>1, <3>1, <3>2
  <2> QED BY <1>4, <2>1, <2>3, <2>4, <2>5, <2>6 DEF WorkerStep, Take, LockKey, CheckInput, Decide,
          Analyse, UpsertProfile, KeepReceipt, Send, Invisible, Release, dbVars
<1> QED BY <1>2, <1>4

(* What a worker sends under its lock is what its row holds. *)
LEMMA HolderSendsRow == LockInv => SentIsOnDisk
  BY DEF LockInv, HolderKnowsRow, SentIsOnDisk, Carrying

(* With a lock that can always be asked for, what a worker sends under its *)
(* lock is what the row holds: a later request resends the same callback. *)
THEOREM SendsWhatItStored ==
  ASSUME ~LockCanFail
  PROVE  Spec => []SentIsOnDisk
<1>1. LockInv /\ Locks /\ [Next]_vars => LockInv' /\ Locks'
  BY LockStep, LocksKept DEF LockInv
<1> QED BY <1>1, LockInit, HolderSendsRow, PTL DEF Spec

(* And a row that keeps its body keeps its result, whoever writes it next. *)
THEOREM ResultsStay ==
  ASSUME ~LockCanFail
  PROVE  Spec => ResultStable
<1>1. LockInv /\ Locks /\ [Next]_vars => LockInv' /\ Locks'
  BY LockStep, LocksKept DEF LockInv
<1>2. LockInv /\ [Next]_vars => [KeepsResults]_runs
  BY ResultsKept
<1> QED BY <1>1, <1>2, LockInit, PTL DEF Spec, ResultStable

(* The same of the bounded scenarios: a lock that may fail changes nothing *)
(* as long as no run goes on without one. *)
LockedInv == scenario = "versions" => LockInv /\ Locks

LEMMA ScenarioStep == LockedInv /\ [ScenarioNext]_<<vars, scenario>> => LockedInv'
<1> SUFFICES ASSUME LockedInv, [ScenarioNext]_<<vars, scenario>>, scenario' = "versions"
             PROVE  LockInv' /\ Locks'
  BY DEF LockedInv
<1>1. scenario = "versions" /\ LockInv /\ Locks /\ [Next]_vars
  BY DEF LockedInv, ScenarioNext
<1>2. Locks'
  BY <1>1 DEF ScenarioNext, Locks, vars, workerVars
<1> QED BY <1>1, <1>2, LockStep

(* What a worker sends under its lock is what the row holds, in every run *)
(* in which each worker has a lock. *)
THEOREM LockedSendsStored == Scenarios => []LockedSentIsOnDisk
<1>1. ScenarioInit => LockedInv
  BY LockInit DEF ScenarioInit, LockedInv
<1>2. LockedInv => LockedSentIsOnDisk
  BY HolderSendsRow DEF LockedInv, LockedSentIsOnDisk
<1> QED BY <1>1, <1>2, ScenarioStep, PTL DEF Scenarios

(* In those runs a row that keeps its body keeps its result. *)
THEOREM LockedResultsStay == Scenarios => LockedResultStable
<1>1. ScenarioInit => LockedInv
  BY LockInit DEF ScenarioInit, LockedInv
<1>2. LockedInv /\ [ScenarioNext]_<<vars, scenario>> =>
        [scenario = "versions" => KeepsResults]_<<vars, scenario>>
  BY ResultsKept DEF LockedInv, ScenarioNext
<1> QED BY <1>1, <1>2, ScenarioStep, PTL DEF Scenarios, LockedResultStable

=============================================================================
