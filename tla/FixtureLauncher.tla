-------------------------- MODULE FixtureLauncher --------------------------
(***************************************************************************)
(* The free local fixture (console/launch_fixture.py): a launcher makes or *)
(* resumes one marked state directory, starts a database cluster and five  *)
(* services in it, watches them, and stops them only when no job is under  *)
(* way.  Several launches of one directory are modelled, each of which may *)
(* fail at any step or be killed; its services then go on without it.      *)
(* The cluster runs until a launcher stops it.                             *)
(***************************************************************************)
EXTENDS Naturals, Sequences

CONSTANTS
    Launches,   \* runs of the launcher on one state directory
    MaxWork     \* bound: jobs under way in one service

LauncherAssumption == MaxWork \in Nat

VARIABLES
    phase,      \* where every launch is
    resumes,    \* launches started with --resume
    directory,  \* what is in the state directory
    cluster,    \* the cluster runs
    alive,      \* the launches whose process of a service runs
    started,    \* launches that started the cluster (pg_started)
    children,   \* the services a launch has started and still lists
    ready,      \* launches whose console came up (console_ready)
    asked,      \* launches that were asked to stop (done)
    work,       \* jobs under way: how many are at each place
    missed      \* history: jobs a launch could not see when it last looked

launcherVars ==
    <<phase, resumes, directory, cluster, alive, started, children, ready, asked, work, missed>>

Services == <<"callback", "search", "profiling", "chat", "console">>
Service == {Services[i] : i \in DOMAIN Services}
Workers == {"chat", "profiling"}

(* Where a job of Chat and one of the Profiler may be, and where it can be *)
(* counted: a turn when it is stored, a run while it is in the queue and *)
(* while its worker counts it, and not in between (supervisor.py _worker). *)
JobPlaces == [chat |-> {"starting", "stored"},
              profiling |-> {"posted", "queued", "hand", "running"}]
JobPlace == JobPlaces.chat \cup JobPlaces.profiling
UnderWay(s) ==
    IF s = "chat" THEN work["starting"] + work["stored"]
    ELSE work["posted"] + work["queued"] + work["hand"] + work["running"]

(* What a launch does next, in the order of main(). *)
Setup == {"initialise", "cluster", "prepare", "check", "mark", "start", "console"}
Draining == {"bounded", "boundedHealth", "drain", "drainHealth"}
Stopping == {"closeUI", "stop", "stopCluster"} \cup Draining
Over == {"gone"}

LauncherInit ==
    /\ phase = [l \in Launches |-> "idle"]
    /\ resumes = {}
    /\ directory = {}
    /\ cluster = FALSE
    /\ alive = [s \in Service |-> {}]
    /\ started = {}
    /\ children = [l \in Launches |-> <<>>]
    /\ ready = {}
    /\ asked = {}
    /\ work = [p \in JobPlace |-> 0]
    /\ missed = [s \in Workers |-> 0]

Go(l, p) == phase' = [phase EXCEPT ![l] = p]
fixture == <<directory, cluster, alive, work, missed>>
launch == <<resumes, started, children, ready, asked>>

Up(l, s) == l \in alive[s]
OwnAlive(l) == \A i \in DOMAIN children[l] : Up(l, children[l][i])
Answers(s) == alive[s] # {}

-----------------------------------------------------------------------------
LeaseFree == \A l \in Launches : phase[l] \in {"idle"} \cup Over

(* The arguments, tools, environments and model files are checked first: a *)
(* launch that fails there does not begin.  A new directory must not *)
(* exist; a resumed one must be marked and hold a cluster. *)
Launch(l, resume) ==
    /\ phase[l] = "idle"
    /\ LeaseFree
    /\ IF resume THEN {"marker", "cluster"} \subseteq directory ELSE directory = {}
    /\ resumes' = IF resume THEN resumes \cup {l} ELSE resumes
    /\ directory' = directory \cup {"made"}
    /\ Go(l, IF resume THEN "cluster" ELSE "initialise")
    /\ UNCHANGED <<cluster, alive, started, children, ready, asked, work, missed>>

(* Everything after the lease runs under one try: a failure goes to its *)
(* finally block. *)
Fails(l) ==
    /\ phase[l] \in Setup
    /\ Go(l, "closeUI")
    /\ UNCHANGED <<launch, fixture>>

Initialise(l) ==
    /\ phase[l] = "initialise"
    /\ directory' = directory \cup {"cluster"}
    /\ Go(l, "cluster")
    /\ UNCHANGED <<launch, cluster, alive, work, missed>>

(* pg_ctl start fails when a cluster already runs in the directory. *)
StartCluster(l) ==
    /\ phase[l] = "cluster"
    /\ ~cluster
    /\ cluster' = TRUE
    /\ started' = started \cup {l}
    /\ Go(l, IF l \in resumes THEN "check" ELSE "prepare")
    /\ UNCHANGED <<resumes, children, ready, asked, directory, alive, work, missed>>

Prepare(l) ==
    /\ phase[l] = "prepare"
    /\ directory' = directory \cup {"prepared"}
    /\ Go(l, "check")
    /\ UNCHANGED <<launch, cluster, alive, work, missed>>

(* check_database: an older or half-made state is not rewritten. *)
DatabaseFits == "prepared" \in directory

(* The check, and for a new directory the staged catalog. *)
CheckDatabase(l) ==
    /\ phase[l] = "check"
    /\ DatabaseFits
    /\ directory' = directory \cup {"staged"}
    /\ Go(l, "mark")
    /\ UNCHANGED <<launch, cluster, alive, work, missed>>

Mark(l) ==
    /\ phase[l] = "mark"
    /\ directory' = directory \cup {"marker"}
    /\ Go(l, "start")
    /\ UNCHANGED <<launch, cluster, alive, work, missed>>

-----------------------------------------------------------------------------
(* start: the next service of the list. *)
Spawn(l, s) ==
    /\ alive' = [alive EXCEPT ![s] = @ \cup {l}]
    /\ children' = [children EXCEPT ![l] = Append(@, s)]

(* wait_ready: the probed services answer, and no child has stopped. *)
MayGoOn(l, s) ==
    CASE s \in {"callback", "search", "chat"} -> TRUE
      [] s = "profiling" -> OwnAlive(l) /\ Answers("search")
      [] s = "console" -> OwnAlive(l) /\ Answers("chat") /\ Answers("profiling")

StartNext(l) ==
    /\ phase[l] = "start"
    /\ LET s == Services[Len(children[l]) + 1]
       IN  /\ MayGoOn(l, s)
           /\ Spawn(l, s)
           /\ Go(l, IF s = "console" THEN "console" ELSE "start")
    /\ UNCHANGED <<resumes, started, directory, cluster, ready, asked, work, missed>>

(* The handshake with the console: from here on the launch is in use. *)
ConsoleReady(l) ==
    /\ phase[l] = "console"
    /\ Answers("console")
    /\ ready' = ready \cup {l}
    /\ Go(l, "serving")
    /\ UNCHANGED <<resumes, started, children, asked, fixture>>

(* SIGINT or SIGTERM: nothing but a flag. *)
Ask(l) ==
    /\ phase[l] \notin {"idle"} \cup Over
    /\ asked' = asked \cup {l}
    /\ UNCHANGED <<phase, resumes, started, children, ready, fixture>>

LastChild(l) == children[l][Len(children[l])]

(* A process goes, and with it what only it knows of: the Profiler's queue *)
(* and its runs, the requests that are not yet stored.  A stored turn *)
(* stays, for the next process of Chat to end. *)
Remembered(s) ==
    IF s = "chat" THEN {"starting"} ELSE IF s = "profiling" THEN JobPlaces.profiling ELSE {}
Down(l, s) ==
    /\ alive' = [alive EXCEPT ![s] = @ \ {l}]
    /\ work' = [p \in JobPlace |-> IF p \in Remembered(s) THEN 0 ELSE work[p]]
    /\ UNCHANGED missed
Keep == UNCHANGED <<alive, work, missed>>

(* The main loop: a stopped child ends it; a request to stop takes the *)
(* console down first, which may take too long. *)
Watch(l) ==
    /\ phase[l] = "serving"
    /\ IF ~OwnAlive(l)
         THEN Go(l, "closeUI") /\ Keep
         ELSE /\ l \in asked
              /\ \/ Down(l, LastChild(l)) /\ Go(l, "bounded")
                 \/ Keep /\ Go(l, "closeUI")
    /\ UNCHANGED <<launch, directory, cluster>>

(* wait_for_idle, before the console goes (bounded) and after (drain): *)
(* the turns of Chat that are stored in progress are counted ... *)
CountTurns(l) ==
    /\ phase[l] \in {"bounded", "drain"}
    /\ cluster /\ work["stored"] = 0
    /\ missed' = [missed EXCEPT !["chat"] = work["starting"]]
    /\ Go(l, IF phase[l] = "drain" THEN "drainHealth" ELSE "boundedHealth")
    /\ UNCHANGED <<launch, directory, cluster, alive, work>>

(* ... and then the Profiler is asked what it has queued and running; with *)
(* anything under way both are looked at again. *)
AskHealth(l) ==
    /\ phase[l] \in {"boundedHealth", "drainHealth"}
    /\ Answers("profiling")
    /\ IF work["queued"] = 0 /\ work["running"] = 0
         THEN /\ missed' = [missed EXCEPT !["profiling"] = work["posted"] + work["hand"]]
              /\ Go(l, IF phase[l] = "drainHealth" THEN "stop" ELSE "closeUI")
         ELSE /\ Go(l, IF phase[l] = "drainHealth" THEN "drain" ELSE "bounded")
              /\ UNCHANGED missed
    /\ UNCHANGED <<launch, directory, cluster, alive, work>>

(* Not idle in time, or not known: the console comes back and the request *)
(* is forgotten. *)
Refused(l) ==
    /\ phase[l] \in {"bounded", "boundedHealth"}
    /\ alive' = [alive EXCEPT !["console"] = @ \cup {l}]
    /\ asked' = asked \ {l}
    /\ Go(l, "serving")
    /\ UNCHANGED <<resumes, started, children, ready, directory, cluster, work, missed>>

-----------------------------------------------------------------------------
(* finally: the console first, if this launch was ever in use. *)
CloseUI(l) ==
    /\ phase[l] = "closeUI"
    /\ IF l \in ready
         THEN \/ Down(l, "console") /\ Go(l, "drain")
              \/ Keep /\ Up(l, "console") /\ Go(l, "gone")
         ELSE Keep /\ Go(l, "stop")
    /\ UNCHANGED <<launch, directory, cluster>>

(* Work that is not known to be finished keeps everything running. *)
Preserved(l) ==
    /\ phase[l] \in {"drain", "drainHealth"}
    /\ Go(l, "gone")
    /\ UNCHANGED <<launch, fixture>>

(* stop_children, last first; a child that does not stop ends it. *)
Stop(l) ==
    /\ phase[l] = "stop"
    /\ IF children[l] = <<>>
         THEN Go(l, "stopCluster") /\ Keep /\ UNCHANGED children
         ELSE \/ /\ Down(l, LastChild(l))
                 /\ children' = [children EXCEPT ![l] = SubSeq(@, 1, Len(@) - 1)]
                 /\ UNCHANGED phase
              \/ Up(l, LastChild(l)) /\ Go(l, "gone") /\ Keep /\ UNCHANGED children
    /\ UNCHANGED <<resumes, started, ready, asked, directory, cluster>>

(* The cluster is stopped by the launch that started it, if it can. *)
StopCluster(l) ==
    /\ phase[l] = "stopCluster"
    /\ cluster' \in IF l \in started THEN {FALSE, cluster} ELSE {cluster}
    /\ Go(l, "gone")
    /\ UNCHANGED <<launch, directory, alive, work, missed>>

(* The launcher is killed: its services have sessions of their own. *)
Killed(l) ==
    /\ phase[l] \notin {"idle"} \cup Over
    /\ Go(l, "gone")
    /\ UNCHANGED <<launch, fixture>>

-----------------------------------------------------------------------------
(* A process stops by itself. *)
Stops(l, s) ==
    /\ Up(l, s)
    /\ Down(l, s)
    /\ UNCHANGED <<phase, launch, directory, cluster>>

others == <<phase, launch, directory, cluster, alive, missed>>

(* The console sends a job. *)
Submit(s) ==
    /\ cluster /\ Answers("console") /\ Answers(s)
    /\ UnderWay(s) < MaxWork
    /\ work' = [work EXCEPT ![IF s = "chat" THEN "starting" ELSE "posted"] = @ + 1]
    /\ UNCHANGED others

(* The service goes on with a job: Chat stores the turn, the Profiler puts *)
(* the run in its queue, a worker takes it off and then counts it. *)
MovesTo == [starting |-> "stored", posted |-> "queued", queued |-> "hand", hand |-> "running"]
Proceed(s, p) ==
    /\ cluster /\ Answers(s)
    /\ p \in JobPlaces[s] \cap DOMAIN MovesTo
    /\ work[p] > 0
    /\ work' = [work EXCEPT ![p] = @ - 1, ![MovesTo[p]] = @ + 1]
    /\ UNCHANGED others

(* A job ends, or the request for it is turned away. *)
Finish(s, p) ==
    /\ cluster /\ Answers(s)
    /\ p \in JobPlaces[s] \ {"queued", "hand"}
    /\ work[p] > 0
    /\ work' = [work EXCEPT ![p] = @ - 1]
    /\ UNCHANGED others

LauncherStep(l) ==
    \/ \E resume \in BOOLEAN : Launch(l, resume)
    \/ Fails(l) \/ Initialise(l) \/ StartCluster(l) \/ Prepare(l) \/ CheckDatabase(l)
    \/ Mark(l) \/ StartNext(l) \/ ConsoleReady(l) \/ Ask(l) \/ Watch(l)
    \/ CountTurns(l) \/ AskHealth(l) \/ Refused(l) \/ CloseUI(l) \/ Preserved(l) \/ Stop(l)
    \/ StopCluster(l) \/ Killed(l)

LauncherNext ==
    \/ \E l \in Launches : LauncherStep(l) \/ \E s \in Service : Stops(l, s)
    \/ \E s \in Workers : Submit(s) \/ \E p \in JobPlace : Proceed(s, p) \/ Finish(s, p)

LauncherSpec == LauncherInit /\ [][LauncherNext]_launcherVars

-----------------------------------------------------------------------------
LauncherTypeOK ==
    /\ \A l \in Launches : phase[l] \in
          Setup \cup Stopping \cup Over \cup {"idle", "serving"}
    /\ resumes \subseteq Launches /\ started \subseteq Launches
    /\ ready \subseteq Launches /\ asked \subseteq Launches
    /\ directory \subseteq {"made", "cluster", "prepared", "staged", "marker"}
    /\ cluster \in BOOLEAN
    /\ alive \in [Service -> SUBSET Launches]
    /\ \A l \in Launches : children[l] = SubSeq(Services, 1, Len(children[l]))
    /\ work \in [JobPlace -> 0..MaxWork] /\ missed \in [Workers -> 0..MaxWork]

(* From the moment the console was ready a launcher stops a service, or *)
(* the cluster, only when no job is under way but ones that could not be *)
(* counted when it looked: a turn whose start was not stored, a run that *)
(* was not in the queue yet or in a worker's hand ("refusing forced *)
(* shutdown").  None of them is a job that came after it looked. *)
CutsNoWork ==
    \A l \in ready : phase[l] \in {"stop", "stopCluster"} =>
        \/ alive' = alive /\ cluster' = cluster
        \/ \A s \in Workers : UnderWay(s) <= missed[s]
NoWorkCut == [][CutsNoWork]_launcherVars

(* All services that run, of a launch that was killed or refused to stop *)
(* too, belong to one launch, and the cluster outlives them. *)
OneLaunch ==
    \A s, t \in Service : \A l \in alive[s], m \in alive[t] : l = m /\ cluster
=============================================================================
