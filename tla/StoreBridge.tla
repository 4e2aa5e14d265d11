----------------------------- MODULE StoreBridge -----------------------------
(* Chat's store behind an outbound socket: the worker beside PostgreSQL *)
(* (chat/app/bridge_worker.py) connects to Chat (chat/app/bridge.py), Chat *)
(* sends it the store operations and pairs the replies with the calls that *)
(* wait.  The connection breaks at any moment and each end learns of it in *)
(* its own time; a call times out, is cancelled, waits for the send lock *)
(* over a reconnect; the worker's threads finish what was cancelled. *)
EXTENDS Naturals, FiniteSets

CONSTANTS
  StoreCalls,    \* calls of the store, each made once
  MaxPending,    \* calls that may wait for a reply (100)
  MaxThreads,    \* operations the worker runs at once (6)
  MaxLinks       \* connections that are explored

BridgeConstants == MaxPending \in Nat /\ MaxLinks \in Nat

VARIABLES
  bridge,        \* BridgeStore: socket (0: none), epoch, pending calls, holder of the lock
  call,          \* each call: where it is, its future, what its caller was told
  link,          \* each connection: how each end sees it, what is under way on it
  worker,        \* the connection the worker serves, and its tasks
  done           \* how often each operation was executed

bridgeVars == <<bridge, call, link, worker, done>>

Links == 1..MaxLinks

Unlinked == [chat |-> "none", worker |-> "none", whole |-> TRUE, asked |-> {}, replies |-> {}]

Init ==
  /\ bridge = [socket |-> 0, epoch |-> 0, pending |-> {}, holder |-> {}]
  /\ call = [c \in StoreCalls |-> [at |-> "idle", link |-> 0, future |-> "none", told |-> "nothing"]]
  /\ link = [l \in Links |-> Unlinked]
  /\ worker = [link |-> 0, task |-> [c \in StoreCalls |-> "none"]]
  /\ done = [c \in StoreCalls |-> 0]

InFlight(c) == call[c].at \in {"queued", "sending", "waiting"}

-----------------------------------------------------------------------------
(* Connections.  A worker without one opens the next; Chat takes it when it *)
(* has none, and closes it when it still holds another. *)
Connect ==
  \E l \in Links :
    /\ worker.link = 0
    /\ link[l].worker = "none"
    /\ \A k \in 1..(l - 1) : link[k].worker # "none"
    /\ worker' = [worker EXCEPT !.link = l]
    /\ link' = [link EXCEPT ![l].worker = "open"]
    /\ UNCHANGED <<bridge, call, done>>

Attach(l) ==
  /\ link[l].worker # "none"
  /\ link[l].chat = "none"
  /\ IF bridge.socket # 0
     THEN /\ link' = [link EXCEPT ![l].chat = "closed"]
          /\ UNCHANGED bridge
     ELSE /\ link' = [link EXCEPT ![l].chat = "open"]
          /\ bridge' = [bridge EXCEPT !.socket = l, !.epoch = @ + 1]
  /\ UNCHANGED <<call, worker, done>>

Break(l) ==
  /\ link[l].worker = "open"
  /\ link[l].whole
  /\ link' = [link EXCEPT ![l].whole = FALSE]
  /\ UNCHANGED <<bridge, call, worker, done>>

Dead(l) == ~link[l].whole \/ link[l].worker = "closed"

(* Chat learns that its connection ended: every waiting call fails. *)
Failed(calls) ==
  [c \in StoreCalls |-> IF c \in calls /\ call[c].future = "none"
                        THEN [call[c] EXCEPT !.future = "broken"] ELSE call[c]]

Disconnected(l) ==
  /\ bridge.socket = l
  /\ Dead(l)
  /\ link' = [link EXCEPT ![l].chat = "closed"]
  /\ bridge' = [bridge EXCEPT !.socket = 0, !.pending = {}]
  /\ call' = Failed(bridge.pending)
  /\ UNCHANGED <<worker, done>>

-----------------------------------------------------------------------------
(* A call. *)
Told(c, what) == [call EXCEPT ![c] = [at |-> "done", link |-> 0, future |-> "none", told |-> what]]

Call(c) ==
  /\ call[c].at = "idle"
  /\ IF bridge.socket = 0 \/ Cardinality(bridge.pending) >= MaxPending
     THEN /\ call' = Told(c, "unavailable")
          /\ UNCHANGED bridge
     ELSE /\ call' = [call EXCEPT ![c].at = "queued"]
          /\ bridge' = [bridge EXCEPT !.pending = @ \cup {c}]
  /\ UNCHANGED <<link, worker, done>>

(* Mutant: only an answered call gives its place up. *)
LeftHolding(c) == [bridge EXCEPT !.holder = @ \ {c}]

(* The call leaves, however it ends: its future goes with it. *)
Left(c) == [bridge EXCEPT !.pending = @ \ {c}, !.holder = @ \ {c}]

TakeLock(c) ==
  /\ call[c].at = "queued"
  /\ bridge.holder = {}
  /\ IF bridge.socket = 0
     THEN /\ call' = Told(c, "unavailable")
          /\ bridge' = Left(c)
     ELSE /\ call' = [call EXCEPT ![c].at = "sending", ![c].link = bridge.socket]
          /\ bridge' = [bridge EXCEPT !.holder = {c}]
  /\ UNCHANGED <<link, worker, done>>

Send(c) ==
  /\ call[c].at = "sending"
  /\ link[call[c].link].chat = "open"
  /\ link' = [link EXCEPT ![call[c].link].asked = @ \cup {c}]
  /\ call' = [call EXCEPT ![c].at = "waiting"]
  /\ bridge' = [bridge EXCEPT !.holder = {}]
  /\ UNCHANGED <<worker, done>>

SendFails(c) ==
  /\ call[c].at = "sending"
  /\ Dead(call[c].link) \/ link[call[c].link].chat = "closed"
  /\ call' = Told(c, "unavailable")
  /\ bridge' = Left(c)
  /\ UNCHANGED <<link, worker, done>>

Return(c) ==
  /\ call[c].at = "waiting"
  /\ call[c].future # "none"
  /\ call' = Told(c, IF call[c].future \in {"broken", "failed"} THEN "unavailable" ELSE call[c].future)
  /\ bridge' = Left(c)
  /\ UNCHANGED <<link, worker, done>>

(* Twenty seconds without a reply, or a caller that gives up anywhere. *)
GiveUp(c) ==
  /\ InFlight(c)
  /\ call' = Told(c, "unavailable")
  /\ bridge' = Left(c)
  /\ UNCHANGED <<link, worker, done>>

Reply(l) ==
  /\ bridge.socket = l
  /\ \E m \in link[l].replies :
       /\ link' = [link EXCEPT ![l].replies = @ \ {m}]
       /\ bridge' = [bridge EXCEPT !.pending = @ \ {m.id}]
       /\ call' = IF m.id \in bridge.pending /\ call[m.id].future = "none"
                  THEN [call EXCEPT ![m.id].future = m.result] ELSE call
  /\ UNCHANGED <<worker, done>>

-----------------------------------------------------------------------------
(* The worker. *)
Tasks(at) == {c \in StoreCalls : worker.task[c] = at}

Take(l) ==
  /\ worker.link = l
  /\ link[l].whole
  /\ \E c \in link[l].asked :
       /\ link' = [link EXCEPT ![l].asked = @ \ {c}]
       /\ worker' = [worker EXCEPT !.task[c] = "queued"]
  /\ UNCHANGED <<bridge, call, done>>

Begin(c) ==
  /\ worker.task[c] = "queued"
  /\ Cardinality(Tasks("running")) < MaxThreads
  /\ worker' = [worker EXCEPT !.task[c] = "running"]
  /\ UNCHANGED <<bridge, call, link, done>>

(* The store carries the operation out, or refuses it (APIError), or fails, *)
(* before its transaction or after. *)
Execute(c) ==
  /\ worker.task[c] = "running"
  /\ \E result \in {"result", "refused", "failed"} :
       /\ worker' = [worker EXCEPT !.task[c] = result]
       /\ \E carried \in BOOLEAN :
            /\ result = "result" => carried
            /\ result = "refused" => ~carried
            /\ done' = [done EXCEPT ![c] = IF carried THEN @ + 1 ELSE @]
  /\ UNCHANGED <<bridge, call, link>>

SendReply(c) ==
  /\ worker.task[c] \in {"result", "refused", "failed"}
  /\ worker.link # 0
  /\ link[worker.link].chat # "closed"
  /\ link' = [link EXCEPT ![worker.link].replies = @ \cup {[id |-> c, result |-> worker.task[c]]}]
  /\ worker' = [worker EXCEPT !.task[c] = "none"]
  /\ UNCHANGED <<bridge, call, done>>

(* The worker learns that the connection ended: its tasks are cancelled, but *)
(* a thread that runs an operation is not. *)
Cancelled(c) == IF worker.task[c] \in {"running", "orphan"} THEN "orphan" ELSE "none"

Leave ==
  /\ worker.link # 0
  /\ ~link[worker.link].whole \/ link[worker.link].chat = "closed"
  /\ worker' = [link |-> 0, task |-> [c \in StoreCalls |-> Cancelled(c)]]
  /\ link' = [link EXCEPT ![worker.link].worker = "closed", ![worker.link].asked = {}]
  /\ UNCHANGED <<bridge, call, done>>

Orphan(c) ==
  /\ worker.task[c] = "orphan"
  /\ worker' = [worker EXCEPT !.task[c] = "none"]
  /\ \E carried \in BOOLEAN : done' = [done EXCEPT ![c] = IF carried THEN @ + 1 ELSE @]
  /\ UNCHANGED <<bridge, call, link>>

Next ==
  \/ Connect \/ Leave
  \/ \E l \in Links : Attach(l) \/ Break(l) \/ Disconnected(l) \/ Reply(l) \/ Take(l)
  \/ \E c \in StoreCalls :
       \/ Call(c) \/ TakeLock(c) \/ Send(c) \/ SendFails(c) \/ Return(c) \/ GiveUp(c)
       \/ Begin(c) \/ Execute(c) \/ SendReply(c) \/ Orphan(c)

BridgeSpec == Init /\ [][Next]_bridgeVars

-----------------------------------------------------------------------------
Outcomes == {"result", "refused", "failed"}

BridgeTypeOK ==
  /\ bridge \in [socket : 0..MaxLinks, epoch : 0..MaxLinks, pending : SUBSET StoreCalls,
                 holder : SUBSET StoreCalls]
  /\ call \in [StoreCalls -> [at : {"idle", "queued", "sending", "waiting", "done"},
                              link : 0..MaxLinks, future : Outcomes \cup {"none", "broken"},
                              told : Outcomes \cup {"nothing", "unavailable"}]]
  /\ worker.link \in 0..MaxLinks
  /\ worker.task \in [StoreCalls -> Outcomes \cup {"none", "queued", "running", "orphan"}]
  /\ done \in [StoreCalls -> 0..2]

(* The store carries a call out at most once, over breaks and reconnects; a *)
(* caller with a result had it carried out, and a caller the store refused *)
(* did not, and never will. *)
OutcomesAreTrue ==
  \A c \in StoreCalls :
    /\ done[c] =< 1
    /\ call[c].told = "result" => done[c] = 1
    /\ call[c].told = "refused" => done[c] = 0 /\ worker.task[c] = "none"

(* A call keeps a place among the pending ones exactly as long as a reply *)
(* can still end it: no place is lost to a call that left, and none waits *)
(* for a reply that would not be paired with it. *)
PlacesAreExact ==
  /\ \A c \in bridge.pending : InFlight(c) /\ call[c].future = "none"
  /\ \A c \in StoreCalls : InFlight(c) /\ call[c].future = "none" => c \in bridge.pending
  /\ Cardinality(bridge.pending) =< MaxPending

CallsEndOnce == OutcomesAreTrue /\ PlacesAreExact
=============================================================================
