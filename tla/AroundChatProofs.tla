-------------------------- MODULE AroundChatProofs --------------------------
(***************************************************************************)
(* Proofs about what stands around Chat, for every size: the bridge to its *)
(* store (StoreBridge), its page in the browser (ChatPage), the connection *)
(* to its model (ModelConnections), the Console that asks it (ConsoleChat) *)
(* and shows its products (ProductCards), the fixture that serves it a     *)
(* recipient (FixtureProfile) and its launcher (FixtureLauncher).          *)
(***************************************************************************)
EXTENDS StoreBridge, ChatPage, ModelConnections, ConsoleChat, ProductCards, FixtureProfile,
        FixtureLauncher, FiniteSetTheorems, SequenceTheorems, TLAPS

-----------------------------------------------------------------------------
(* The bridge: a call is carried out at most once and its caller is told *)
(* the truth, and the pending places are exact. *)

Early == {"idle", "queued", "sending"}
Tasked == {"queued", "running", "orphan"}
Message == [id : StoreCalls, result : Outcomes]

Bridges == [socket : 0..MaxLinks, epoch : Nat, pending : SUBSET StoreCalls,
            holder : SUBSET StoreCalls]
CallStates == [at : Early \cup {"waiting", "done"}, link : 0..MaxLinks,
               future : Outcomes \cup {"none", "broken"},
               told : Outcomes \cup {"nothing", "unavailable"}]
LinkStates == [chat : {"none", "open", "closed"}, worker : {"none", "open", "closed"},
               whole : BOOLEAN, asked : SUBSET StoreCalls, replies : SUBSET Message]
TaskStates == Outcomes \cup Tasked \cup {"none"}

CallsTyped ==
  /\ call \in [StoreCalls -> CallStates]
  /\ \A c \in StoreCalls : call[c].at = "sending" => call[c].link \in Links
LinksTyped == link \in [Links -> LinkStates]
WorkerTyped == worker \in [link : 0..MaxLinks, task : [StoreCalls -> TaskStates]]
DoneTyped == done \in [StoreCalls -> Nat]

Typed == bridge \in Bridges /\ CallsTyped /\ LinksTyped /\ WorkerTyped /\ DoneTyped

(* An operation is in one place: asked for on one connection, with the *)
(* worker, or in one reply. *)
AskedOn(c, l) == c \in link[l].asked
RepliedOn(c, r, l) == [id |-> c, result |-> r] \in link[l].replies

Asked(c) == \E l \in Links : AskedOn(c, l)
Replied(c, r) == \E l \in Links : RepliedOn(c, r, l)
Under(c) == Asked(c) \/ worker.task[c] # "none" \/ \E r \in Outcomes : Replied(c, r)

OnePlace(c) ==
  /\ \A l, k \in Links : AskedOn(c, l) /\ AskedOn(c, k) => l = k
  /\ Asked(c) => worker.task[c] = "none"
  /\ Asked(c) \/ worker.task[c] # "none" => \A r \in Outcomes : ~Replied(c, r)
  /\ \A l, k \in Links, r, s \in Outcomes : RepliedOn(c, r, l) /\ RepliedOn(c, s, k) => l = k /\ r = s

(* It is under way only between the send of its call and the answer, and *)
(* whoever holds an answer holds a true one. *)
Truth(c) ==
  /\ call[c].at = "idle" => call[c].future = "none"
  /\ Under(c) => call[c].at \in {"waiting", "done"}
  /\ Under(c) \/ call[c].at \in Early => call[c].future \notin Outcomes /\ call[c].told \notin Outcomes
  /\ \/ call[c].at \in Early \/ Asked(c) \/ worker.task[c] \in Tasked \cup {"refused"}
     \/ Replied(c, "refused") \/ call[c].future = "refused" \/ call[c].told = "refused"
     => done[c] = 0
  /\ \/ worker.task[c] = "result" \/ Replied(c, "result")
     \/ call[c].future = "result" \/ call[c].told = "result"
     => done[c] = 1
  /\ done[c] <= 1

BridgeInv ==
  /\ Typed /\ IsFiniteSet(bridge.pending) /\ PlacesAreExact
  /\ \A c \in StoreCalls : OnePlace(c) /\ Truth(c)

----------------------------------------------------------------------------
(* What does not bring a call forward: messages and tasks are lost, a call *)
(* goes on before it is sent, or ends without an answer. *)
Loses(c) ==
  /\ \A l \in Links : AskedOn(c, l)' => AskedOn(c, l)
  /\ \A l \in Links, r \in Outcomes : RepliedOn(c, r, l)' => RepliedOn(c, r, l)
  /\ \/ worker.task[c]' \in {worker.task[c], "none"}
     \/ worker.task[c] = "running" /\ worker.task[c]' = "orphan"
  /\ done[c]' = done[c]
  /\ \/ call[c].future' = call[c].future
     \/ call[c].at' # "idle" /\ call[c].future' \notin Outcomes
  /\ call[c].told' = call[c].told \/ call[c].told' \notin Outcomes
  /\ \/ call[c].at' = call[c].at \/ call[c].at' = "done"
     \/ call[c].at \in Early /\ call[c].at' \in Early \ {"idle"}

LEMMA LosesKeeps ==
  ASSUME Typed, NEW c \in StoreCalls, OnePlace(c), Truth(c), Loses(c)
  PROVE  OnePlace(c)' /\ Truth(c)'
<1>1. /\ Asked(c)' => Asked(c)
      /\ \A r \in Outcomes : Replied(c, r)' => Replied(c, r)
      /\ worker.task[c]' # "none" => worker.task[c] # "none"
  BY DEF Loses, Asked, Replied
<1>2. Under(c)' => Under(c)
  BY <1>1 DEF Under
<1>3. OnePlace(c)'
  BY <1>1 DEF OnePlace, Loses
<1>4. worker.task[c]' \in Tasked \cup {"refused"} => worker.task[c] \in Tasked \cup {"refused"}
  BY DEF Loses, Tasked
<1>5. Truth(c)'
  BY <1>1, <1>2, <1>4 DEF Truth, Loses, Early, Outcomes
<1> QED BY <1>3, <1>5

----------------------------------------------------------------------------
(* Types. *)

LEMMA PutBridge ==
  ASSUME Typed
  PROVE  /\ \A P, H \in SUBSET StoreCalls :
              [bridge EXCEPT !.pending = P, !.holder = H] \in Bridges
         /\ \A P \in SUBSET StoreCalls : [bridge EXCEPT !.pending = P] \in Bridges
         /\ \A H \in SUBSET StoreCalls : [bridge EXCEPT !.holder = H] \in Bridges
         /\ \A c : Left(c) \in Bridges
         /\ bridge.pending \in SUBSET StoreCalls
BY DEF Typed, Bridges, Left

LEMMA PutCall ==
  ASSUME Typed, NEW c \in StoreCalls, NEW v \in CallStates, call' = [call EXCEPT ![c] = v],
         v.at = "sending" => v.link \in Links
  PROVE  CallsTyped'
BY DEF Typed, CallsTyped

LEMMA PutLink ==
  ASSUME Typed, NEW l \in Links, NEW v \in LinkStates, link' = [link EXCEPT ![l] = v]
  PROVE  LinksTyped'
BY DEF Typed, LinksTyped

LEMMA PutTask ==
  ASSUME Typed, NEW c \in StoreCalls, NEW v \in TaskStates, worker' = [worker EXCEPT !.task[c] = v]
  PROVE  WorkerTyped'
BY DEF Typed, WorkerTyped

LEMMA ToldTyped ==
  ASSUME BridgeConstants, Typed, NEW c \in StoreCalls, NEW what \in Outcomes \cup {"unavailable"},
         call' = Told(c, what)
  PROVE  CallsTyped'
<1> DEFINE v == [at |-> "done", link |-> 0, future |-> "none", told |-> what]
<1>1. 0 \in 0..MaxLinks
  BY DEF BridgeConstants
<1>2. v \in CallStates /\ v.at # "sending"
  BY <1>1 DEF CallStates, Early
<1>3. call' = [call EXCEPT ![c] = v]
  BY DEF Told
<1> HIDE DEF v
<1> QED BY <1>2, <1>3, PutCall

LEMMA CallStepTyped ==
  ASSUME BridgeConstants, Typed, NEW c \in StoreCalls,
         Call(c) \/ TakeLock(c) \/ Send(c) \/ SendFails(c) \/ Return(c) \/ GiveUp(c)
  PROVE  Typed'
<1>1. call[c] \in CallStates /\ Left(c) \in Bridges
  BY PutBridge DEF Typed, CallsTyped
<1>2. ASSUME NEW what \in Outcomes \cup {"unavailable"}, call' = Told(c, what), bridge' = Left(c),
             UNCHANGED <<link, worker, done>>
      PROVE  Typed'
  BY <1>1, <1>2, ToldTyped DEF Typed, LinksTyped, WorkerTyped, DoneTyped
<1>3. CASE Call(c)
  <2>1. UNCHANGED <<link, worker, done>>
    BY <1>3 DEF Call
  <2>2. CASE call' = Told(c, "unavailable") /\ UNCHANGED bridge
    BY <2>1, <2>2, ToldTyped DEF Typed, LinksTyped, WorkerTyped, DoneTyped
  <2>3. CASE /\ call' = [call EXCEPT ![c].at = "queued"]
             /\ bridge' = [bridge EXCEPT !.pending = @ \cup {c}]
    <3>1. [call[c] EXCEPT !.at = "queued"] \in CallStates
      BY <1>1 DEF CallStates, Early
    <3>2. [call[c] EXCEPT !.at = "queued"].at = "queued"
      BY <1>1 DEF CallStates
    <3>3. CallsTyped'
      BY <2>3, <3>1, <3>2, PutCall
    <3>4. bridge' \in Bridges
      BY <2>3, PutBridge
    <3> QED BY <2>1, <3>3, <3>4 DEF Typed, LinksTyped, WorkerTyped, DoneTyped
  <2> QED BY <1>3, <2>2, <2>3 DEF Call
<1>4. CASE TakeLock(c)
  <2>1. CASE bridge.socket = 0
    BY <1>2, <1>4, <2>1 DEF TakeLock
  <2>2. CASE bridge.socket # 0
    <3> DEFINE v == [call[c] EXCEPT !.at = "sending", !.link = bridge.socket]
    <3>1. bridge.socket \in Links /\ bridge.socket \in 0..MaxLinks
      BY <2>2 DEF Typed, Bridges, Links
    <3>2. /\ call' = [call EXCEPT ![c] = v]
          /\ bridge' = [bridge EXCEPT !.holder = {c}] /\ UNCHANGED <<link, worker, done>>
      BY <1>4, <2>2 DEF TakeLock
    <3>3. v \in CallStates /\ v.link \in Links
      BY <1>1, <3>1 DEF CallStates, Early
    <3> HIDE DEF v
    <3>4. CallsTyped'
      BY <3>2, <3>3, PutCall
    <3>5. bridge' \in Bridges
      BY <3>2, PutBridge
    <3> QED BY <3>2, <3>4, <3>5 DEF Typed, LinksTyped, WorkerTyped, DoneTyped
  <2> QED BY <2>1, <2>2
<1>5. CASE Send(c)
  <2> DEFINE l == call[c].link
             v == [link[l] EXCEPT !.asked = @ \cup {c}]
             u == [call[c] EXCEPT !.at = "waiting"]
  <2>1. l \in Links /\ link[l] \in LinkStates
    BY <1>5 DEF Send, Typed, CallsTyped, LinksTyped
  <2>2. /\ link' = [link EXCEPT ![l] = v] /\ call' = [call EXCEPT ![c] = u]
        /\ bridge' = [bridge EXCEPT !.holder = {}] /\ UNCHANGED <<worker, done>>
    BY <1>5 DEF Send
  <2>3. v \in LinkStates
    BY <2>1 DEF LinkStates
  <2>4. u \in CallStates /\ u.at = "waiting"
    BY <1>1 DEF CallStates
  <2> HIDE DEF v, u, l
  <2>5. LinksTyped'
    BY <2>1, <2>2, <2>3, PutLink
  <2>6. CallsTyped'
    BY <2>2, <2>4, PutCall
  <2>7. bridge' \in Bridges
    BY <2>2, PutBridge
  <2> QED BY <2>2, <2>5, <2>6, <2>7 DEF Typed, WorkerTyped, DoneTyped
<1>6. CASE SendFails(c) \/ GiveUp(c)
  BY <1>2, <1>6 DEF SendFails, GiveUp
<1>7. CASE Return(c)
  <2>1. call[c].future \in Outcomes \cup {"broken"}
    BY <1>1, <1>7 DEF Return, CallStates
  <2>2. (IF call[c].future \in {"broken", "failed"} THEN "unavailable" ELSE call[c].future)
          \in Outcomes \cup {"unavailable"}
    BY <2>1
  <2> QED BY <1>2, <1>7, <2>2 DEF Return
<1> QED BY <1>3, <1>4, <1>5, <1>6, <1>7

LEMMA LinkStepTyped ==
  ASSUME BridgeConstants, Typed,
         Connect \/ Leave \/ \E l \in Links : Attach(l) \/ Break(l) \/ Disconnected(l) \/ Reply(l) \/ Take(l)
  PROVE  Typed'
<1>1. CASE Connect
  <2>1. PICK l \in Links : /\ worker' = [worker EXCEPT !.link = l]
                           /\ link' = [link EXCEPT ![l].worker = "open"]
                           /\ UNCHANGED <<bridge, call, done>>
    BY <1>1 DEF Connect
  <2>2. [link[l] EXCEPT !.worker = "open"] \in LinkStates
    BY DEF Typed, LinksTyped, LinkStates
  <2>3. LinksTyped'
    BY <2>1, <2>2, PutLink
  <2>4. WorkerTyped'
    BY <2>1 DEF Typed, WorkerTyped, Links
  <2> QED BY <2>1, <2>3, <2>4 DEF Typed, CallsTyped, DoneTyped
<1>2. CASE Leave
  <2> DEFINE l == worker.link
             v == [link[l] EXCEPT !.worker = "closed", !.asked = {}]
  <2>1. l \in Links /\ link[l] \in LinkStates /\ 0 \in 0..MaxLinks
    BY <1>2 DEF Leave, Typed, LinksTyped, WorkerTyped, Links, BridgeConstants
  <2>2. /\ link' = [link EXCEPT ![l] = v] /\ UNCHANGED <<bridge, call, done>>
        /\ worker' = [link |-> 0, task |-> [c \in StoreCalls |-> Cancelled(c)]]
    BY <1>2 DEF Leave
  <2>3. v \in LinkStates
    BY <2>1 DEF LinkStates
  <2>4. \A c \in StoreCalls : Cancelled(c) \in TaskStates
    BY DEF Cancelled, TaskStates, Tasked
  <2>5. WorkerTyped'
    BY <2>1, <2>2, <2>4 DEF WorkerTyped
  <2> HIDE DEF v, l
  <2>6. LinksTyped'
    BY <2>1, <2>2, <2>3, PutLink
  <2> QED BY <2>2, <2>5, <2>6 DEF Typed, CallsTyped, DoneTyped
<1>3. ASSUME NEW l \in Links, Attach(l) PROVE Typed'
  <2> DEFINE u == [link[l] EXCEPT !.chat = "open"]
             v == [link[l] EXCEPT !.chat = "closed"]
  <2>1. u \in LinkStates /\ v \in LinkStates
    BY DEF Typed, LinksTyped, LinkStates
  <2>2. link' = [link EXCEPT ![l] = u] \/ link' = [link EXCEPT ![l] = v]
    BY <1>3 DEF Attach
  <2>3. bridge' \in Bridges
    <3>1. bridge' = bridge \/ bridge' = [bridge EXCEPT !.socket = l, !.epoch = @ + 1]
      BY <1>3 DEF Attach
    <3>2. l \in 0..MaxLinks
      BY DEF Links, BridgeConstants
    <3>3. bridge \in Bridges /\ bridge.epoch + 1 \in Nat
      BY DEF Typed, Bridges
    <3>4. [bridge EXCEPT !.socket = l, !.epoch = @ + 1] \in Bridges
      BY <3>2, <3>3 DEF Bridges
    <3> QED BY <3>1, <3>3, <3>4
  <2> HIDE DEF u, v
  <2>4. LinksTyped'
    BY <2>1, <2>2, PutLink
  <2> QED BY <1>3, <2>3, <2>4 DEF Attach, Typed, CallsTyped, WorkerTyped, DoneTyped
<1>4. ASSUME NEW l \in Links, Break(l) PROVE Typed'
  <2>1. [link[l] EXCEPT !.whole = FALSE] \in LinkStates
    BY DEF Typed, LinksTyped, LinkStates
  <2>2. LinksTyped'
    BY <1>4, <2>1, PutLink DEF Break
  <2> QED BY <1>4, <2>2 DEF Break, Typed, CallsTyped, WorkerTyped, DoneTyped
<1>5. ASSUME NEW l \in Links, Disconnected(l) PROVE Typed'
  <2>1. [link[l] EXCEPT !.chat = "closed"] \in LinkStates
    BY DEF Typed, LinksTyped, LinkStates
  <2>2. LinksTyped'
    BY <1>5, <2>1, PutLink DEF Disconnected
  <2>3. bridge' \in Bridges
    <3>1. bridge' = [bridge EXCEPT !.socket = 0, !.pending = {}] /\ bridge \in Bridges
      BY <1>5 DEF Disconnected, Typed
    <3>2. 0 \in 0..MaxLinks
      BY DEF BridgeConstants
    <3> QED BY <3>1, <3>2 DEF Bridges
  <2>4. call' = [c \in StoreCalls |->
                   IF c \in bridge.pending /\ call[c].future = "none"
                     THEN [call[c] EXCEPT !.future = "broken"] ELSE call[c]]
    BY <1>5 DEF Disconnected, Failed
  <2>5. ASSUME NEW c \in StoreCalls
        PROVE  call'[c] \in CallStates /\ call'[c].at = call[c].at /\ call'[c].link = call[c].link
    BY <2>4 DEF Typed, CallsTyped, CallStates
  <2>6. CallsTyped'
    BY <2>4, <2>5 DEF Typed, CallsTyped
  <2> QED BY <1>5, <2>2, <2>3, <2>6 DEF Disconnected, Typed, WorkerTyped, DoneTyped
<1>6. ASSUME NEW l \in Links, Reply(l) PROVE Typed'
  <2>1. PICK m \in link[l].replies :
          /\ link' = [link EXCEPT ![l].replies = @ \ {m}]
          /\ bridge' = [bridge EXCEPT !.pending = @ \ {m.id}]
          /\ call' = IF m.id \in bridge.pending /\ call[m.id].future = "none"
                       THEN [call EXCEPT ![m.id].future = m.result] ELSE call
    BY <1>6 DEF Reply
  <2>2. link[l] \in LinkStates
    BY DEF Typed, LinksTyped
  <2>3. m.id \in StoreCalls /\ m.result \in Outcomes
    BY <2>1, <2>2 DEF LinkStates, Message
  <2>4. [link[l] EXCEPT !.replies = @ \ {m}] \in LinkStates
    BY <2>2 DEF LinkStates
  <2>5. LinksTyped'
    BY <2>1, <2>4, PutLink
  <2>6. bridge' \in Bridges
    BY <2>1, PutBridge
  <2>7. CallsTyped'
    <3> DEFINE v == [call[m.id] EXCEPT !.future = m.result]
    <3>1. v \in CallStates /\ (v.at = "sending" => v.link \in Links)
      BY <2>3 DEF Typed, CallsTyped, CallStates
    <3>2. call' = call \/ call' = [call EXCEPT ![m.id] = v]
      BY <2>1
    <3> HIDE DEF v
    <3> QED BY <2>3, <3>1, <3>2, PutCall DEF Typed, CallsTyped
  <2> QED BY <1>6, <2>5, <2>6, <2>7 DEF Reply, Typed, WorkerTyped, DoneTyped
<1>7. ASSUME NEW l \in Links, Take(l) PROVE Typed'
  <2>1. PICK c \in link[l].asked :
          /\ link' = [link EXCEPT ![l].asked = @ \ {c}]
          /\ worker' = [worker EXCEPT !.task[c] = "queued"]
    BY <1>7 DEF Take
  <2>2. link[l] \in LinkStates
    BY DEF Typed, LinksTyped
  <2>3. c \in StoreCalls /\ [link[l] EXCEPT !.asked = @ \ {c}] \in LinkStates
    BY <2>1, <2>2 DEF LinkStates
  <2>4. LinksTyped'
    BY <2>1, <2>3, PutLink
  <2>5. WorkerTyped'
    BY <2>1, <2>3, PutTask DEF TaskStates, Tasked
  <2> QED BY <1>7, <2>4, <2>5 DEF Take, Typed, CallsTyped, DoneTyped
<1> QED BY <1>1, <1>2, <1>3, <1>4, <1>5, <1>6, <1>7

LEMMA TaskStepTyped ==
  ASSUME Typed, NEW c \in StoreCalls, Begin(c) \/ Execute(c) \/ SendReply(c) \/ Orphan(c)
  PROVE  Typed'
<1>1. worker.task[c] \in TaskStates /\ done[c] \in Nat
  BY DEF Typed, WorkerTyped, DoneTyped
<1>2. CASE Begin(c)
  <2>1. WorkerTyped'
    BY <1>2, PutTask DEF Begin, TaskStates, Tasked
  <2> QED BY <1>2, <2>1 DEF Begin, Typed, CallsTyped, LinksTyped, DoneTyped
<1>3. CASE Execute(c)
  <2>1. PICK result \in {"result", "refused", "failed"}, carried \in BOOLEAN :
          /\ worker' = [worker EXCEPT !.task[c] = result]
          /\ done' = [done EXCEPT ![c] = IF carried THEN @ + 1 ELSE @]
    BY <1>3 DEF Execute
  <2>2. WorkerTyped'
    BY <2>1, PutTask DEF TaskStates, Outcomes
  <2>3. DoneTyped'
    BY <1>1, <2>1 DEF Typed, DoneTyped
  <2> QED BY <1>3, <2>2, <2>3 DEF Execute, Typed, CallsTyped, LinksTyped
<1>4. CASE SendReply(c)
  <2> DEFINE l == worker.link
             v == [link[l] EXCEPT !.replies = @ \cup {[id |-> c, result |-> worker.task[c]]}]
  <2>1. l \in Links /\ link[l] \in LinkStates
    BY <1>4 DEF SendReply, Typed, LinksTyped, WorkerTyped, Links
  <2>2. [id |-> c, result |-> worker.task[c]] \in Message
    BY <1>4 DEF SendReply, Message, Outcomes
  <2>3. v \in LinkStates
    BY <2>1, <2>2 DEF LinkStates
  <2>4. /\ link' = [link EXCEPT ![l] = v] /\ worker' = [worker EXCEPT !.task[c] = "none"]
        /\ UNCHANGED <<bridge, call, done>>
    BY <1>4 DEF SendReply
  <2> HIDE DEF v, l
  <2>5. LinksTyped'
    BY <2>1, <2>3, <2>4, PutLink
  <2>6. WorkerTyped'
    BY <2>4, PutTask DEF TaskStates
  <2> QED BY <2>4, <2>5, <2>6 DEF Typed, CallsTyped, DoneTyped
<1>5. CASE Orphan(c)
  <2>1. WorkerTyped'
    BY <1>5, PutTask DEF Orphan, TaskStates
  <2>2. DoneTyped'
    BY <1>1, <1>5 DEF Orphan, Typed, DoneTyped
  <2> QED BY <1>5, <2>1, <2>2 DEF Orphan, Typed, CallsTyped, LinksTyped
<1> QED BY <1>2, <1>3, <1>4, <1>5

LEMMA StepTyped ==
  ASSUME BridgeConstants, Typed, [Next]_bridgeVars
  PROVE  Typed'
<1>1. CASE UNCHANGED bridgeVars
  BY <1>1 DEF bridgeVars, Typed, CallsTyped, LinksTyped, WorkerTyped, DoneTyped
<1> QED BY <1>1, CallStepTyped, LinkStepTyped, TaskStepTyped DEF Next

----------------------------------------------------------------------------
(* Places among the pending calls. *)

PlaceInv == IsFiniteSet(bridge.pending) /\ PlacesAreExact

(* How a call stands does not change, or it ends and gives its place up. *)
LEMMA SamePlaces ==
  ASSUME PlaceInv, bridge'.pending = bridge.pending,
         \A c \in StoreCalls : /\ call'[c].at = call[c].at \/ (InFlight(c) /\ InFlight(c)')
                               /\ call'[c].future = call[c].future,
         bridge.pending \in SUBSET StoreCalls
  PROVE  PlaceInv'
<1>1. \A c \in StoreCalls : InFlight(c)' <=> InFlight(c)
  BY DEF InFlight
<1> QED BY <1>1 DEF PlaceInv, PlacesAreExact

LEMMA FewerPending ==
  ASSUME NEW P, IsFiniteSet(P), Cardinality(P) <= MaxPending, NEW Q \in SUBSET P, BridgeConstants
  PROVE  IsFiniteSet(Q) /\ Cardinality(Q) <= MaxPending
<1>1. IsFiniteSet(Q) /\ Cardinality(Q) <= Cardinality(P)
  BY FS_Subset
<1>2. Cardinality(Q) \in Nat /\ Cardinality(P) \in Nat
  BY <1>1, FS_CardinalityType
<1> QED BY <1>1, <1>2 DEF BridgeConstants

LEMMA LeavesPlace ==
  ASSUME BridgeConstants, Typed, PlaceInv, NEW c \in StoreCalls, NEW what,
         call' = Told(c, what), bridge' = Left(c)
  PROVE  PlaceInv'
<1>1. bridge'.pending = bridge.pending \ {c} /\ bridge.pending \in SUBSET StoreCalls
  BY PutBridge DEF Typed, Bridges, Left
<1>2. /\ call'[c].at = "done"
      /\ \A d \in StoreCalls : d # c => call'[d] = call[d]
  BY DEF Told, Typed, CallsTyped
<1>3. ~InFlight(c)' /\ \A d \in StoreCalls : d # c => (InFlight(d)' <=> InFlight(d))
  BY <1>2 DEF InFlight
<1>4. IsFiniteSet(bridge'.pending) /\ Cardinality(bridge'.pending) <= MaxPending
  BY <1>1, FewerPending DEF PlaceInv, PlacesAreExact
<1> QED BY <1>1, <1>2, <1>3, <1>4 DEF PlaceInv, PlacesAreExact

LEMMA CallPlaces ==
  ASSUME BridgeConstants, Typed, PlaceInv, NEW c \in StoreCalls,
         Call(c) \/ TakeLock(c) \/ Send(c) \/ SendFails(c) \/ Return(c) \/ GiveUp(c),
         call[c].at = "idle" => call[c].future = "none"
  PROVE  PlaceInv'
<1>1. call[c] \in CallStates /\ bridge.pending \in SUBSET StoreCalls
  BY PutBridge DEF Typed, CallsTyped
<1>2. CASE Call(c)
  <2>1. CASE call' = Told(c, "unavailable") /\ UNCHANGED bridge
    <3>1. call'[c].at = "done" /\ \A d \in StoreCalls : d # c => call'[d] = call[d]
      BY <2>1 DEF Told, Typed, CallsTyped
    <3>2. ~InFlight(c) /\ ~InFlight(c)' /\ \A d \in StoreCalls : d # c => (InFlight(d)' <=> InFlight(d))
      BY <1>2, <3>1 DEF InFlight, Call
    <3> QED BY <1>1, <2>1, <3>1, <3>2 DEF PlaceInv, PlacesAreExact
  <2>2. CASE /\ ~(Cardinality(bridge.pending) >= MaxPending)
             /\ call' = [call EXCEPT ![c].at = "queued"]
             /\ bridge' = [bridge EXCEPT !.pending = @ \cup {c}]
    <3>1. /\ call'[c].at = "queued" /\ call'[c].future = "none"
          /\ \A d \in StoreCalls : d # c => call'[d] = call[d]
      BY <1>1, <1>2, <2>2 DEF Typed, CallsTyped, CallStates, Call
    <3>2. InFlight(c)' /\ \A d \in StoreCalls : d # c => (InFlight(d)' <=> InFlight(d))
      BY <3>1 DEF InFlight
    <3>3. bridge'.pending = bridge.pending \cup {c}
      BY <2>2 DEF Typed, Bridges
    <3>4. /\ IsFiniteSet(bridge.pending \cup {c})
          /\ Cardinality(bridge.pending \cup {c}) <= Cardinality(bridge.pending) + 1
          /\ Cardinality(bridge.pending) \in Nat
      <4>1. IsFiniteSet(bridge.pending) /\ Cardinality(bridge.pending) \in Nat
        BY FS_CardinalityType DEF PlaceInv
      <4>2. IsFiniteSet(bridge.pending \cup {c}) /\ Cardinality(bridge.pending \cup {c}) =
              IF c \in bridge.pending THEN Cardinality(bridge.pending) ELSE Cardinality(bridge.pending) + 1
        BY <4>1, FS_AddElement
      <4> QED BY <4>1, <4>2
    <3>5. Cardinality(bridge'.pending) <= MaxPending
      <4>1. Cardinality(bridge.pending \cup {c}) \in Nat
        BY <3>4, FS_CardinalityType
      <4> QED BY <2>2, <3>3, <3>4, <4>1 DEF BridgeConstants
    <3> QED BY <1>1, <3>1, <3>2, <3>3, <3>4, <3>5 DEF PlaceInv, PlacesAreExact
  <2> QED BY <1>2, <2>1, <2>2 DEF Call
<1>3. ASSUME NEW at \in {"sending", "waiting"}, InFlight(c), bridge'.pending = bridge.pending,
             call'[c].at = at, call'[c].future = call[c].future,
             \A d \in StoreCalls : d # c => call'[d] = call[d]
      PROVE  PlaceInv'
  <2>1. InFlight(c)'
    BY <1>3 DEF InFlight
  <2> QED BY <1>1, <1>3, <2>1, SamePlaces
<1>4. CASE TakeLock(c)
  <2>1. CASE bridge.socket = 0
    BY <1>4, <2>1, LeavesPlace DEF TakeLock
  <2>2. CASE bridge.socket # 0
    <3>1. /\ call' = [call EXCEPT ![c].at = "sending", ![c].link = bridge.socket]
          /\ bridge' = [bridge EXCEPT !.holder = {c}]
      BY <1>4, <2>2 DEF TakeLock
    <3>2. bridge'.pending = bridge.pending
      BY <3>1 DEF Typed, Bridges
    <3>3. /\ call'[c].at = "sending" /\ call'[c].future = call[c].future
          /\ \A d \in StoreCalls : d # c => call'[d] = call[d]
      BY <1>1, <3>1 DEF Typed, CallsTyped, CallStates
    <3>4. InFlight(c)
      BY <1>4 DEF TakeLock, InFlight
    <3> QED BY <1>3, <3>2, <3>3, <3>4
  <2> QED BY <2>1, <2>2
<1>5. CASE Send(c)
  <2>1. bridge'.pending = bridge.pending
    BY <1>5 DEF Send, Typed, Bridges
  <2>2. /\ call'[c].at = "waiting" /\ call'[c].future = call[c].future
        /\ \A d \in StoreCalls : d # c => call'[d] = call[d]
    BY <1>1, <1>5 DEF Send, Typed, CallsTyped, CallStates
  <2>3. InFlight(c)
    BY <1>5 DEF Send, InFlight
  <2> QED BY <1>3, <2>1, <2>2, <2>3
<1>6. CASE SendFails(c) \/ Return(c) \/ GiveUp(c)
  BY <1>6, LeavesPlace DEF SendFails, Return, GiveUp
<1> QED BY <1>2, <1>4, <1>5, <1>6

LEMMA StepPlaces ==
  ASSUME BridgeConstants, Typed, PlaceInv, [Next]_bridgeVars,
         \A c \in StoreCalls : call[c].at = "idle" => call[c].future = "none"
  PROVE  PlaceInv'
<1>1. bridge.pending \in SUBSET StoreCalls
  BY PutBridge
<1>2. ASSUME UNCHANGED call, bridge'.pending = bridge.pending PROVE PlaceInv'
  BY <1>1, <1>2, SamePlaces
<1>3. CASE UNCHANGED bridgeVars \/ Connect \/ Leave
  BY <1>2, <1>3 DEF bridgeVars, Connect, Leave
<1>4. ASSUME NEW l \in Links, Attach(l) \/ Break(l) \/ Take(l) PROVE PlaceInv'
  <2>1. UNCHANGED call /\ bridge'.pending = bridge.pending
    BY <1>4 DEF Attach, Break, Take, Typed, Bridges
  <2> QED BY <1>2, <2>1
<1>5. ASSUME NEW l \in Links, Disconnected(l) PROVE PlaceInv'
  <2>1. bridge'.pending = {}
    BY <1>5 DEF Disconnected, Typed, Bridges
  <2>2. call' = [c \in StoreCalls |->
                   IF c \in bridge.pending /\ call[c].future = "none"
                     THEN [call[c] EXCEPT !.future = "broken"] ELSE call[c]]
    BY <1>5 DEF Disconnected, Failed
  <2>3. \A c \in StoreCalls : call'[c].at = call[c].at
                              /\ (call'[c].future = "none" => call[c].future = "none" /\ c \notin bridge.pending)
    BY <2>2 DEF Typed, CallsTyped, CallStates
  <2>4. \A c \in StoreCalls : InFlight(c)' => InFlight(c)
    BY <2>3 DEF InFlight
  <2>5. IsFiniteSet({}) /\ Cardinality({}) <= MaxPending
    BY FS_EmptySet DEF BridgeConstants
  <2> QED BY <2>1, <2>3, <2>4, <2>5 DEF PlaceInv, PlacesAreExact
<1>6. ASSUME NEW l \in Links, Reply(l) PROVE PlaceInv'
  <2>1. PICK m \in link[l].replies :
          /\ bridge' = [bridge EXCEPT !.pending = @ \ {m.id}]
          /\ call' = IF m.id \in bridge.pending /\ call[m.id].future = "none"
                       THEN [call EXCEPT ![m.id].future = m.result] ELSE call
    BY <1>6 DEF Reply
  <2>2. m.id \in StoreCalls /\ m.result \in Outcomes
    BY <2>1 DEF Typed, LinksTyped, LinkStates, Message
  <2>3. bridge'.pending = bridge.pending \ {m.id}
    BY <2>1 DEF Typed, Bridges
  <2>4. IsFiniteSet(bridge'.pending) /\ Cardinality(bridge'.pending) <= MaxPending
    BY <2>3, FewerPending DEF PlaceInv, PlacesAreExact
  <2>5. \A c \in StoreCalls : /\ call'[c].at = call[c].at
                              /\ c # m.id => call'[c] = call[c]
    BY <2>1 DEF Typed, CallsTyped, CallStates
  <2>6. m.id \in bridge.pending => call'[m.id].future # "none"
    BY <2>1, <2>2 DEF PlaceInv, PlacesAreExact, Typed, CallsTyped, CallStates, Outcomes
  <2>7. m.id \notin bridge.pending => call' = call
    BY <2>1
  <2>8. \A c \in StoreCalls : InFlight(c)' <=> InFlight(c)
    BY <2>5 DEF InFlight
  <2> QED BY <1>1, <2>3, <2>4, <2>5, <2>6, <2>7, <2>8 DEF PlaceInv, PlacesAreExact
<1>7. ASSUME NEW c \in StoreCalls, Begin(c) \/ Execute(c) \/ SendReply(c) \/ Orphan(c) PROVE PlaceInv'
  BY <1>2, <1>7 DEF Begin, Execute, SendReply, Orphan
<1> QED BY <1>3, <1>4, <1>5, <1>6, <1>7, CallPlaces DEF Next

----------------------------------------------------------------------------
(* One place and the truth. *)

LEMMA QuietLoses ==
  ASSUME Typed, PlacesAreExact, NEW c \in StoreCalls,
         \/ UNCHANGED bridgeVars \/ Connect \/ Leave
         \/ \E l \in Links : Attach(l) \/ Break(l) \/ Disconnected(l)
  PROVE  Loses(c)
<1>1. call \in [StoreCalls -> CallStates] /\ link \in [Links -> LinkStates]
  BY DEF Typed, CallsTyped, LinksTyped
<1>2. worker \in [link : 0..MaxLinks, task : [StoreCalls -> TaskStates]]
  BY DEF Typed, WorkerTyped
<1>3. ASSUME UNCHANGED <<call, done>>, worker'.task[c] = worker.task[c],
             \A k \in Links : link'[k].asked = link[k].asked /\ link'[k].replies = link[k].replies
      PROVE  Loses(c)
  BY <1>3 DEF Loses, AskedOn, RepliedOn
<1>4. CASE UNCHANGED bridgeVars
  BY <1>3, <1>4 DEF bridgeVars
<1>5. CASE Connect
  <2>1. PICK l \in Links : /\ worker' = [worker EXCEPT !.link = l]
                           /\ link' = [link EXCEPT ![l].worker = "open"]
                           /\ UNCHANGED <<call, done>>
    BY <1>5 DEF Connect
  <2>2. worker'.task[c] = worker.task[c]
    BY <1>2, <2>1
  <2>3. \A k \in Links : link'[k].asked = link[k].asked /\ link'[k].replies = link[k].replies
    BY <1>1, <2>1 DEF LinkStates
  <2> QED BY <1>3, <2>1, <2>2, <2>3
<1>6. CASE Leave
  <2>1. /\ worker' = [link |-> 0, task |-> [d \in StoreCalls |-> Cancelled(d)]]
        /\ link' = [link EXCEPT ![worker.link].worker = "closed", ![worker.link].asked = {}]
        /\ UNCHANGED <<call, done>>
    BY <1>6 DEF Leave
  <2>2. \A k \in Links : link'[k].asked \subseteq link[k].asked /\ link'[k].replies = link[k].replies
    BY <1>1, <2>1 DEF LinkStates
  <2>3. worker'.task[c] = Cancelled(c)
    BY <2>1
  <2>4. \/ worker'.task[c] \in {worker.task[c], "none"}
        \/ worker.task[c] = "running" /\ worker'.task[c] = "orphan"
    BY <2>3 DEF Cancelled
  <2> QED BY <2>1, <2>2, <2>4 DEF Loses, AskedOn, RepliedOn
<1>7. ASSUME NEW l \in Links, Attach(l) \/ Break(l) PROVE Loses(c)
  <2>1. UNCHANGED <<call, worker, done>>
    BY <1>7 DEF Attach, Break
  <2>2. \/ link' = [link EXCEPT ![l].chat = "closed"]
        \/ link' = [link EXCEPT ![l].chat = "open"]
        \/ link' = [link EXCEPT ![l].whole = FALSE]
    BY <1>7 DEF Attach, Break
  <2>3. \A k \in Links : link'[k].asked = link[k].asked /\ link'[k].replies = link[k].replies
    BY <1>1, <2>2 DEF LinkStates
  <2> QED BY <1>3, <2>1, <2>3
<1>8. ASSUME NEW l \in Links, Disconnected(l) PROVE Loses(c)
  <2>1. /\ call' = Failed(bridge.pending) /\ link' = [link EXCEPT ![l].chat = "closed"]
        /\ UNCHANGED <<worker, done>>
    BY <1>8 DEF Disconnected
  <2>2. \A k \in Links : link'[k].asked = link[k].asked /\ link'[k].replies = link[k].replies
    BY <1>1, <2>1 DEF LinkStates
  <2>3. call'[c] = IF c \in bridge.pending /\ call[c].future = "none"
                     THEN [call[c] EXCEPT !.future = "broken"] ELSE call[c]
    BY <2>1 DEF Failed
  <2>4. /\ call'[c].at = call[c].at /\ call'[c].told = call[c].told
        /\ \/ call'[c].future = call[c].future
           \/ c \in bridge.pending /\ call'[c].future = "broken"
    BY <1>1, <2>3 DEF CallStates
  <2>5. PlacesAreExact /\ c \in bridge.pending => call[c].at # "idle"
    BY DEF PlacesAreExact, InFlight
  <2> QED BY <2>1, <2>2, <2>4, <2>5 DEF Loses, AskedOn, RepliedOn, Outcomes
<1> QED BY <1>4, <1>5, <1>6, <1>7, <1>8

(* A call that leaves without an answer, or goes on before it is sent. *)
LEMMA CallLoses ==
  ASSUME Typed, NEW c \in StoreCalls, NEW d \in StoreCalls,
         \/ Call(c) \/ TakeLock(c) \/ SendFails(c) \/ GiveUp(c)
         \/ Return(c) /\ call[c].future \notin {"result", "refused"}
  PROVE  Loses(d)
<1>1. call \in [StoreCalls -> CallStates]
  BY DEF Typed, CallsTyped
<1>2. UNCHANGED <<link, worker, done>>
  BY DEF Call, TakeLock, SendFails, GiveUp, Return
<1>3. ASSUME call'[d] = call[d] PROVE Loses(d)
  BY <1>2, <1>3 DEF Loses, AskedOn, RepliedOn
<1>4. ASSUME call' = Told(c, "unavailable") PROVE Loses(d)
  <2>1. d # c => call'[d] = call[d]
    BY <1>1, <1>4 DEF Told
  <2>2. call'[c] = [at |-> "done", link |-> 0, future |-> "none", told |-> "unavailable"]
    BY <1>1, <1>4 DEF Told
  <2>3. d = c => Loses(d)
    BY <1>2, <2>2 DEF Loses, AskedOn, RepliedOn, Outcomes
  <2> QED BY <1>3, <2>1, <2>3
<1>5. ASSUME NEW at \in {"queued", "sending"}, call[c].at \in Early, call'[c].at = at,
             call'[c].future = call[c].future, call'[c].told = call[c].told, d # c => call'[d] = call[d]
      PROVE  Loses(d)
  <2>1. d = c => Loses(d)
    BY <1>2, <1>5 DEF Loses, AskedOn, RepliedOn, Early
  <2> QED BY <1>3, <1>5, <2>1
<1>6. CASE Call(c)
  <2>1. call' = Told(c, "unavailable") \/ call' = [call EXCEPT ![c].at = "queued"]
    BY <1>6 DEF Call
  <2>2. call[c].at \in Early
    BY <1>6 DEF Call, Early
  <2>3. call' = [call EXCEPT ![c].at = "queued"] =>
          /\ call'[c].at = "queued" /\ call'[c].future = call[c].future
          /\ call'[c].told = call[c].told /\ (d # c => call'[d] = call[d])
    BY <1>1 DEF CallStates
  <2> QED BY <1>4, <1>5, <2>1, <2>2, <2>3
<1>7. CASE TakeLock(c)
  <2>1. call' = Told(c, "unavailable") \/ call' = [call EXCEPT ![c].at = "sending", ![c].link = bridge.socket]
    BY <1>7 DEF TakeLock
  <2>2. call[c].at \in Early
    BY <1>7 DEF TakeLock, Early
  <2>3. call' = [call EXCEPT ![c].at = "sending", ![c].link = bridge.socket] =>
          /\ call'[c].at = "sending" /\ call'[c].future = call[c].future
          /\ call'[c].told = call[c].told /\ (d # c => call'[d] = call[d])
    BY <1>1 DEF CallStates
  <2> QED BY <1>4, <1>5, <2>1, <2>2, <2>3
<1>8. CASE SendFails(c) \/ GiveUp(c)
  BY <1>4, <1>8 DEF SendFails, GiveUp
<1>9. CASE Return(c) /\ call[c].future \notin {"result", "refused"}
  <2>1. call[c].future \in {"broken", "failed"}
    BY <1>1, <1>9 DEF Return, CallStates, Outcomes
  <2> QED BY <1>4, <1>9, <2>1 DEF Return
<1> QED BY <1>6, <1>7, <1>8, <1>9

LEMMA SendTruth ==
  ASSUME Typed, NEW c \in StoreCalls, NEW d \in StoreCalls, Send(c), OnePlace(d), Truth(d)
  PROVE  OnePlace(d)' /\ Truth(d)'
<1> DEFINE l == call[c].link
<1>1. call \in [StoreCalls -> CallStates] /\ link \in [Links -> LinkStates] /\ l \in Links
  BY DEF Typed, CallsTyped, LinksTyped, Send
<1>2. /\ call[c].at = "sending" /\ link' = [link EXCEPT ![l].asked = @ \cup {c}]
      /\ call' = [call EXCEPT ![c].at = "waiting"] /\ UNCHANGED <<worker, done>>
  BY DEF Send
<1>3. /\ call'[c].at = "waiting" /\ call'[c].future = call[c].future /\ call'[c].told = call[c].told
      /\ d # c => call'[d] = call[d]
  BY <1>1, <1>2 DEF CallStates
<1>4. \A k \in Links : /\ link'[k].replies = link[k].replies
                       /\ link'[k].asked = IF k = l THEN link[k].asked \cup {c} ELSE link[k].asked
  BY <1>1, <1>2 DEF LinkStates
<1> HIDE DEF l
<1>5. CASE d # c
  <2>1. Loses(d)
    BY <1>2, <1>3, <1>4, <1>5 DEF Loses, AskedOn, RepliedOn
  <2> QED BY <2>1, LosesKeeps
<1>6. CASE d = c
  <2>1. ~Under(d) /\ call[d].at \in Early
    BY <1>2, <1>6 DEF Truth, Early
  <2>2. /\ \A k \in Links : AskedOn(d, k)' <=> k = l
        /\ \A k \in Links, r \in Outcomes : ~RepliedOn(d, r, k)'
        /\ worker'.task[d] = "none"
    <3>1. worker.task[d] = "none" /\ ~Asked(d) /\ \A r \in Outcomes : ~Replied(d, r)
      BY <2>1 DEF Under
    <3>2. \A k \in Links : ~AskedOn(d, k) /\ \A r \in Outcomes : ~RepliedOn(d, r, k)
      BY <3>1 DEF Asked, Replied
    <3>3. \A k \in Links : AskedOn(d, k)' <=> k = l
      BY <1>4, <1>6, <3>2 DEF AskedOn
    <3>4. \A k \in Links, r \in Outcomes : ~RepliedOn(d, r, k)'
      BY <1>4, <3>2 DEF RepliedOn
    <3> QED BY <1>2, <3>1, <3>3, <3>4
  <2>3. \A r \in Outcomes : ~Replied(d, r)'
    BY <2>2 DEF Replied
  <2>4. OnePlace(d)'
    BY <2>2, <2>3 DEF OnePlace
  <2>5. call[d].future \notin Outcomes /\ call[d].told \notin Outcomes /\ done[d] = 0
    BY <2>1 DEF Truth
  <2>6. Truth(d)'
    BY <1>2, <1>3, <1>6, <2>2, <2>3, <2>5 DEF Truth, Early, Outcomes
  <2> QED BY <2>4, <2>6
<1> QED BY <1>5, <1>6

LEMMA ReturnTruth ==
  ASSUME Typed, NEW c \in StoreCalls, NEW d \in StoreCalls, Return(c), OnePlace(d), Truth(d)
  PROVE  OnePlace(d)' /\ Truth(d)'
<1>1. CASE call[c].future \notin {"result", "refused"}
  BY <1>1, CallLoses, LosesKeeps
<1>2. CASE call[c].future \in {"result", "refused"}
  <2>1. call \in [StoreCalls -> CallStates] /\ UNCHANGED <<link, worker, done>>
    BY DEF Typed, CallsTyped, Return
  <2>2. call' = Told(c, call[c].future)
    BY <1>2 DEF Return
  <2>3. /\ call'[c] = [at |-> "done", link |-> 0, future |-> "none", told |-> call[c].future]
        /\ d # c => call'[d] = call[d]
    BY <2>1, <2>2 DEF Told
  <2>4. CASE d # c
    <3>1. Loses(d)
      BY <2>1, <2>3, <2>4 DEF Loses, AskedOn, RepliedOn
    <3> QED BY <3>1, LosesKeeps
  <2>5. CASE d = c
    <3>1. /\ \A k \in Links : AskedOn(d, k)' <=> AskedOn(d, k)
          /\ \A k \in Links, r \in Outcomes : RepliedOn(d, r, k)' <=> RepliedOn(d, r, k)
          /\ worker'.task[d] = worker.task[d] /\ done' = done
      BY <2>1 DEF AskedOn, RepliedOn
    <3>2. (Asked(d)' <=> Asked(d)) /\ \A r \in Outcomes : Replied(d, r)' <=> Replied(d, r)
      BY <3>1 DEF Asked, Replied
    <3>3. OnePlace(d)'
      BY <3>1, <3>2 DEF OnePlace
    <3>4. ~Under(d)
      BY <1>2, <2>5 DEF Truth, Outcomes
    <3>5. ~Under(d)' /\ worker'.task[d] = "none" /\ ~Asked(d)' /\ \A r \in Outcomes : ~Replied(d, r)'
      BY <3>1, <3>2, <3>4 DEF Under
    <3>6. Truth(d)'
      BY <1>2, <2>3, <2>5, <3>1, <3>5 DEF Truth, Early, Outcomes, Tasked
    <3> QED BY <3>3, <3>6
  <2> QED BY <2>4, <2>5
<1> QED BY <1>1, <1>2

(* Messages move an operation from one place to the next. *)
LEMMA ReplyTruth ==
  ASSUME Typed, PlacesAreExact, NEW l \in Links, NEW d \in StoreCalls, Reply(l), OnePlace(d), Truth(d)
  PROVE  OnePlace(d)' /\ Truth(d)'
<1>1. PICK m \in link[l].replies :
        /\ link' = [link EXCEPT ![l].replies = @ \ {m}]
        /\ call' = IF m.id \in bridge.pending /\ call[m.id].future = "none"
                     THEN [call EXCEPT ![m.id].future = m.result] ELSE call
        /\ UNCHANGED <<worker, done>>
  BY DEF Reply
<1>2. call \in [StoreCalls -> CallStates] /\ link \in [Links -> LinkStates]
  BY DEF Typed, CallsTyped, LinksTyped
<1>3. m \in Message /\ m.id \in StoreCalls /\ m.result \in Outcomes /\ m = [id |-> m.id, result |-> m.result]
  BY <1>1, <1>2 DEF LinkStates, Message
<1>4. \A k \in Links : /\ link'[k].asked = link[k].asked
                       /\ link'[k].replies = IF k = l THEN link[k].replies \ {m} ELSE link[k].replies
  BY <1>1, <1>2 DEF LinkStates
<1>5. /\ \A k \in Links : AskedOn(d, k)' <=> AskedOn(d, k)
      /\ \A k \in Links, r \in Outcomes : RepliedOn(d, r, k)' => RepliedOn(d, r, k)
  BY <1>4 DEF AskedOn, RepliedOn
<1>6. CASE call'[d] = call[d]
  <2>1. Loses(d)
    BY <1>1, <1>5, <1>6 DEF Loses
  <2> QED BY <2>1, LosesKeeps
<1>7. CASE call'[d] # call[d]
  <2>1. /\ d = m.id /\ d \in bridge.pending
        /\ call'[d] = [call[d] EXCEPT !.future = m.result]
    BY <1>1, <1>2, <1>3, <1>7
  <2>2. RepliedOn(d, m.result, l)
    BY <1>1, <1>3, <2>1 DEF RepliedOn
  <2>3. Replied(d, m.result) /\ Under(d)
    BY <1>3, <2>2 DEF Replied, Under
  <2>4. worker.task[d] = "none" /\ ~Asked(d)
    BY <1>3, <2>3 DEF OnePlace
  <2>5. ~RepliedOn(d, m.result, l)'
    BY <1>3, <1>4, <2>1 DEF RepliedOn
  <2>6. \A k \in Links, r \in Outcomes : ~RepliedOn(d, r, k)'
    BY <1>3, <1>5, <2>2, <2>5 DEF OnePlace
  <2>7. /\ \A k \in Links : ~AskedOn(d, k)'
        /\ worker'.task[d] = "none"
    BY <1>1, <1>5, <2>4 DEF Asked
  <2>8. ~Asked(d)' /\ (\A r \in Outcomes : ~Replied(d, r)') /\ ~Under(d)'
    BY <2>6, <2>7 DEF Asked, Replied, Under
  <2>9. OnePlace(d)'
    BY <2>6, <2>7, <2>8 DEF OnePlace
  <2>10. /\ call'[d].at = call[d].at /\ call'[d].future = m.result /\ call'[d].told = call[d].told
         /\ call[d].at = "waiting"
    <3>1. InFlight(d) /\ call[d].at \in {"waiting", "done"}
      BY <2>1, <2>3 DEF PlacesAreExact, Truth
    <3> QED BY <1>2, <2>1, <3>1 DEF InFlight, CallStates
  <2>11. call[d].told \notin Outcomes /\ done'[d] = done[d]
         /\ (m.result = "refused" => done[d] = 0) /\ (m.result = "result" => done[d] = 1) /\ done[d] <= 1
    BY <1>1, <2>3 DEF Truth
  <2>12. Truth(d)'
    BY <2>7, <2>8, <2>10, <2>11 DEF Truth, Early, Tasked, Outcomes
  <2> QED BY <2>9, <2>12
<1> QED BY <1>6, <1>7

LEMMA TakeTruth ==
  ASSUME Typed, NEW l \in Links, NEW d \in StoreCalls, Take(l), OnePlace(d), Truth(d)
  PROVE  OnePlace(d)' /\ Truth(d)'
<1>1. PICK c \in link[l].asked :
        /\ link' = [link EXCEPT ![l].asked = @ \ {c}]
        /\ worker' = [worker EXCEPT !.task[c] = "queued"]
        /\ UNCHANGED <<call, done>>
  BY DEF Take
<1>2. link \in [Links -> LinkStates] /\ worker \in [link : 0..MaxLinks, task : [StoreCalls -> TaskStates]]
  BY DEF Typed, LinksTyped, WorkerTyped
<1>3. \A k \in Links : /\ link'[k].replies = link[k].replies
                       /\ link'[k].asked = IF k = l THEN link[k].asked \ {c} ELSE link[k].asked
  <2>1. link' = [link EXCEPT ![l].asked = @ \ {c}] /\ link \in [Links -> LinkStates]
    BY <1>1, <1>2
  <2> QED BY <2>1 DEF LinkStates
<1>4. /\ \A k \in Links : AskedOn(d, k)' => AskedOn(d, k)
      /\ \A k \in Links, r \in Outcomes : RepliedOn(d, r, k)' <=> RepliedOn(d, r, k)
  BY <1>3 DEF AskedOn, RepliedOn
<1>5. worker'.task[d] = IF d = c THEN "queued" ELSE worker.task[d]
  BY <1>1, <1>2
<1>6. CASE d # c
  <2>1. Loses(d)
    BY <1>1, <1>4, <1>5, <1>6 DEF Loses
  <2> QED BY <2>1, LosesKeeps
<1>7. CASE d = c
  <2>1. AskedOn(d, l) /\ Asked(d) /\ Under(d)
    BY <1>1, <1>7 DEF AskedOn, Asked, Under
  <2>2. \A k \in Links : ~AskedOn(d, k)'
    <3>1. ~AskedOn(d, l)'
      BY <1>3, <1>7 DEF AskedOn
    <3> QED BY <1>4, <2>1, <3>1 DEF OnePlace
  <2>3. \A k \in Links, r \in Outcomes : ~RepliedOn(d, r, k)'
    BY <1>4, <2>1 DEF OnePlace, Replied
  <2>4. ~Asked(d)' /\ \A r \in Outcomes : ~Replied(d, r)'
    BY <2>2, <2>3 DEF Asked, Replied
  <2>5. OnePlace(d)'
    BY <2>2, <2>3, <2>4 DEF OnePlace
  <2>6. Truth(d)'
    BY <1>1, <1>5, <1>7, <2>1, <2>4 DEF Truth, Early, Tasked, Outcomes
  <2> QED BY <2>5, <2>6
<1> QED BY <1>6, <1>7

LEMMA TaskTruth ==
  ASSUME Typed, NEW c \in StoreCalls, NEW d \in StoreCalls, Begin(c) \/ Execute(c) \/ Orphan(c),
         OnePlace(d), Truth(d)
  PROVE  OnePlace(d)' /\ Truth(d)'
<1>1. /\ worker \in [link : 0..MaxLinks, task : [StoreCalls -> TaskStates]]
      /\ done \in [StoreCalls -> Nat] /\ UNCHANGED <<call, link>>
  BY DEF Typed, WorkerTyped, DoneTyped, Begin, Execute, Orphan
<1>2. PICK t \in Outcomes \cup {"running", "none"} :
        /\ worker' = [worker EXCEPT !.task[c] = t]
        /\ \/ Begin(c) /\ t = "running"
           \/ Execute(c) /\ t \in Outcomes
           \/ Orphan(c) /\ t = "none"
  <2>1. CASE Begin(c)
    BY <2>1 DEF Begin
  <2>2. CASE Execute(c)
    <3>1. \E t \in Outcomes : worker' = [worker EXCEPT !.task[c] = t]
      BY <2>2 DEF Execute, Outcomes
    <3> QED BY <2>2, <3>1
  <2>3. CASE Orphan(c)
    BY <2>3 DEF Orphan
  <2> QED BY <2>1, <2>2, <2>3
<1>3. worker'.task[c] = t /\ \A b \in StoreCalls : b # c => worker'.task[b] = worker.task[b] /\ done'[b] = done[b]
  BY <1>1, <1>2 DEF Begin, Execute, Orphan
<1>4. /\ \A k \in Links : AskedOn(d, k)' <=> AskedOn(d, k)
      /\ \A k \in Links, r \in Outcomes : RepliedOn(d, r, k)' <=> RepliedOn(d, r, k)
  BY <1>1 DEF AskedOn, RepliedOn
<1>5. CASE d # c
  <2>1. Loses(d)
    BY <1>1, <1>3, <1>4, <1>5 DEF Loses
  <2> QED BY <2>1, LosesKeeps
<1>6. CASE d = c
  <2>1. worker.task[d] \in Tasked /\ Under(d)
    BY <1>2, <1>6 DEF Begin, Execute, Orphan, Tasked, Under
  <2>2. ~Asked(d) /\ (\A r \in Outcomes : ~Replied(d, r)) /\ done[d] = 0
    BY <2>1 DEF OnePlace, Truth, Tasked
  <2>3. ~Asked(d)' /\ \A r \in Outcomes : ~Replied(d, r)'
    BY <1>4, <2>2 DEF Asked, Replied
  <2>4. OnePlace(d)'
    BY <1>4, <2>3 DEF OnePlace
  <2>5. /\ done'[d] \in {0, 1}
        /\ t \in {"running", "refused"} => done'[d] = 0
        /\ t = "result" => done'[d] = 1
    BY <1>1, <1>2, <1>3, <1>6, <2>2 DEF Begin, Execute, Orphan, Outcomes
  <2>6. /\ call' = call /\ call[d].at \in {"waiting", "done"}
        /\ call[d].future \notin Outcomes /\ call[d].told \notin Outcomes
    BY <1>1, <2>1 DEF Truth
  <2>7. t \notin {"queued", "orphan"}
    BY DEF Outcomes
  <2>8. Truth(d)'
    BY <1>3, <1>6, <2>3, <2>5, <2>6, <2>7 DEF Truth, Early, Tasked, Outcomes
  <2> QED BY <2>4, <2>8
<1> QED BY <1>5, <1>6

LEMMA SendReplyTruth ==
  ASSUME Typed, NEW c \in StoreCalls, NEW d \in StoreCalls, SendReply(c), OnePlace(d), Truth(d)
  PROVE  OnePlace(d)' /\ Truth(d)'
<1> DEFINE l == worker.link
           t == worker.task[c]
           m == [id |-> c, result |-> t]
<1>1. /\ worker \in [link : 0..MaxLinks, task : [StoreCalls -> TaskStates]]
      /\ link \in [Links -> LinkStates] /\ l \in Links /\ t \in Outcomes
  BY DEF Typed, WorkerTyped, LinksTyped, SendReply, Links, Outcomes
<1>2. /\ link' = [link EXCEPT ![l].replies = @ \cup {[id |-> c, result |-> t]}]
      /\ worker' = [worker EXCEPT !.task[c] = "none"] /\ UNCHANGED <<call, done>>
  BY DEF SendReply
<1>3. worker'.task[c] = "none" /\ \A b \in StoreCalls : b # c => worker'.task[b] = worker.task[b]
  BY <1>1, <1>2
<1>4. worker.task[c] = t
  OBVIOUS
<1>5. \A r : [id |-> d, result |-> r] = m <=> d = c /\ r = t
  OBVIOUS
<1> HIDE DEF l, t
<1>6. link' = [link EXCEPT ![l].replies = @ \cup {m}]
  BY <1>2
<1> HIDE DEF m
<1>7. \A k \in Links :
        /\ link'[k].asked = link[k].asked
        /\ link'[k].replies = IF k = l THEN link[k].replies \cup {m} ELSE link[k].replies
  <2>1. link \in [Links -> LinkStates] /\ l \in Links
    BY <1>1
  <2>2. link'[l] = [link[l] EXCEPT !.replies = @ \cup {m}] /\ \A k \in Links : k # l => link'[k] = link[k]
    BY <1>6, <2>1
  <2> QED BY <2>1, <2>2 DEF LinkStates
<1>8. /\ \A k \in Links : AskedOn(d, k)' <=> AskedOn(d, k)
      /\ \A k \in Links, r \in Outcomes :
           RepliedOn(d, r, k)' <=> (RepliedOn(d, r, k) \/ (d = c /\ r = t /\ k = l))
  <2>1. ASSUME NEW k \in Links, NEW r \in Outcomes
        PROVE  RepliedOn(d, r, k)' <=> (RepliedOn(d, r, k) \/ (d = c /\ r = t /\ k = l))
    <3> DEFINE n == [id |-> d, result |-> r]
    <3>1. n = m <=> d = c /\ r = t
      BY <1>5
    <3>2. (RepliedOn(d, r, k)' <=> n \in link'[k].replies) /\ (RepliedOn(d, r, k) <=> n \in link[k].replies)
      BY DEF RepliedOn
    <3> HIDE DEF n
    <3> QED BY <1>7, <3>1, <3>2
  <2>2. \A k \in Links : AskedOn(d, k)' <=> AskedOn(d, k)
    BY <1>7 DEF AskedOn
  <2> QED BY <2>1, <2>2
<1>9. CASE d # c
  <2>1. Loses(d)
    BY <1>2, <1>3, <1>8, <1>9 DEF Loses
  <2> QED BY <2>1, LosesKeeps
<1>10. CASE d = c
  <2>1. t # "none" /\ Under(d)
    BY <1>1, <1>4, <1>10 DEF Outcomes, Under
  <2>2. ~Asked(d) /\ \A r \in Outcomes : ~Replied(d, r)
    BY <1>4, <1>10, <2>1 DEF OnePlace
  <2>3. \A k \in Links, r \in Outcomes : RepliedOn(d, r, k)' <=> (r = t /\ k = l)
    BY <1>8, <1>10, <2>2 DEF Replied
  <2>4. ~Asked(d)' /\ worker'.task[d] = "none" /\ \A r \in Outcomes : Replied(d, r)' <=> r = t
    BY <1>1, <1>3, <1>8, <1>10, <2>2, <2>3 DEF Asked, Replied
  <2>5. OnePlace(d)'
    BY <1>8, <2>2, <2>3, <2>4 DEF OnePlace, Asked
  <2>6. Truth(d)'
    BY <1>1, <1>2, <1>4, <1>10, <2>1, <2>4 DEF Truth, Early, Tasked, Outcomes
  <2> QED BY <2>5, <2>6
<1> QED BY <1>9, <1>10

LEMMA StepTruth ==
  ASSUME Typed, PlacesAreExact, [Next]_bridgeVars, NEW c \in StoreCalls, OnePlace(c), Truth(c)
  PROVE  OnePlace(c)' /\ Truth(c)'
<1>1. ASSUME Loses(c) PROVE OnePlace(c)' /\ Truth(c)'
  BY <1>1, LosesKeeps
<1>2. CASE UNCHANGED bridgeVars \/ Connect \/ Leave
  BY <1>1, <1>2, QuietLoses
<1>3. ASSUME NEW l \in Links, Attach(l) \/ Break(l) \/ Disconnected(l)
      PROVE  OnePlace(c)' /\ Truth(c)'
  BY <1>1, <1>3, QuietLoses
<1>4. ASSUME NEW l \in Links, Reply(l) \/ Take(l)
      PROVE  OnePlace(c)' /\ Truth(c)'
  BY <1>4, ReplyTruth, TakeTruth
<1>5. ASSUME NEW d \in StoreCalls, Call(d) \/ TakeLock(d) \/ SendFails(d) \/ GiveUp(d)
      PROVE  OnePlace(c)' /\ Truth(c)'
  BY <1>1, <1>5, CallLoses
<1>6. ASSUME NEW d \in StoreCalls, Send(d) \/ Return(d)
      PROVE  OnePlace(c)' /\ Truth(c)'
  BY <1>6, SendTruth, ReturnTruth
<1>7. ASSUME NEW d \in StoreCalls, Begin(d) \/ Execute(d) \/ SendReply(d) \/ Orphan(d)
      PROVE  OnePlace(c)' /\ Truth(c)'
  BY <1>7, TaskTruth, SendReplyTruth
<1> QED BY <1>2, <1>3, <1>4, <1>5, <1>6, <1>7 DEF Next

----------------------------------------------------------------------------
(* The invariant holds at the start and is kept. *)

LEMMA BridgeStarts ==
  ASSUME BridgeConstants, Init
  PROVE  BridgeInv
<1>1. Typed
  <2>1. 0 \in 0..MaxLinks
    BY DEF BridgeConstants
  <2>2. bridge \in Bridges
    BY <2>1 DEF Init, Bridges
  <2>3. CallsTyped
    <3> DEFINE v == [at |-> "idle", link |-> 0, future |-> "none", told |-> "nothing"]
    <3>1. v \in CallStates /\ v.at # "sending"
      BY <2>1 DEF CallStates, Early
    <3>2. call = [c \in StoreCalls |-> v]
      BY DEF Init
    <3> HIDE DEF v
    <3> QED BY <3>1, <3>2 DEF CallsTyped
  <2>4. LinksTyped
    <3>1. Unlinked \in LinkStates
      BY DEF Unlinked, LinkStates
    <3> QED BY <3>1 DEF Init, LinksTyped
  <2>5. WorkerTyped
    BY <2>1 DEF Init, WorkerTyped, TaskStates
  <2>6. DoneTyped
    BY DEF Init, DoneTyped
  <2> QED BY <2>2, <2>3, <2>4, <2>5, <2>6 DEF Typed
<1>2. bridge.pending = {} /\ IsFiniteSet({}) /\ Cardinality({}) = 0
  BY FS_EmptySet DEF Init
<1>3. \A c \in StoreCalls : /\ call[c].at = "idle" /\ call[c].future = "none" /\ call[c].told = "nothing"
                            /\ worker.task[c] = "none" /\ done[c] = 0
  BY DEF Init
<1>4. \A l \in Links : link[l].asked = {} /\ link[l].replies = {}
  BY DEF Init, Unlinked
<1>5. PlacesAreExact
  BY <1>2, <1>3 DEF PlacesAreExact, InFlight, BridgeConstants
<1>6. ASSUME NEW c \in StoreCalls PROVE OnePlace(c) /\ Truth(c)
  <2>1. /\ \A l \in Links : ~AskedOn(c, l)
        /\ \A l \in Links, r \in Outcomes : ~RepliedOn(c, r, l)
    BY <1>4 DEF AskedOn, RepliedOn
  <2>2. ~Asked(c) /\ (\A r \in Outcomes : ~Replied(c, r)) /\ ~Under(c)
    BY <1>3, <2>1 DEF Asked, Replied, Under
  <2>3. ~Replied(c, "refused") /\ ~Replied(c, "result")
    BY <2>2 DEF Outcomes
  <2>4. OnePlace(c)
    BY <2>1, <2>2 DEF OnePlace
  <2>5. Truth(c)
    BY <1>3, <2>2, <2>3 DEF Truth, Early, Outcomes
  <2> QED BY <2>4, <2>5
<1> QED BY <1>1, <1>2, <1>5, <1>6 DEF BridgeInv

LEMMA BridgeStep ==
  ASSUME BridgeConstants, BridgeInv, [Next]_bridgeVars
  PROVE  BridgeInv'
<1>1. Typed'
  BY StepTyped DEF BridgeInv
<1>2. PlaceInv'
  <2>1. \A c \in StoreCalls : call[c].at = "idle" => call[c].future = "none"
    BY DEF BridgeInv, Truth
  <2> QED BY <2>1, StepPlaces DEF BridgeInv, PlaceInv
<1>3. \A c \in StoreCalls : OnePlace(c)' /\ Truth(c)'
  BY StepTruth DEF BridgeInv
<1> QED BY <1>1, <1>2, <1>3 DEF BridgeInv, PlaceInv

(* Over any breaks, reconnects, timeouts and cancellations of the socket *)
(* between Chat and its store: an operation is carried out at most once, a *)
(* caller that got a result had it carried out, one that was refused did *)
(* not and never will, and exactly the calls that a reply can still end *)
(* keep a place among the pending ones (BridgeStore.call, bridge_worker). *)
THEOREM CallsAreTrue ==
  ASSUME BridgeConstants
  PROVE  BridgeSpec => []CallsEndOnce
<1>1. Init => BridgeInv
  BY BridgeStarts
<1>2. BridgeInv /\ [Next]_bridgeVars => BridgeInv'
  BY BridgeStep
<1>3. BridgeInv => CallsEndOnce
  <2>1. ASSUME BridgeInv, NEW c \in StoreCalls
        PROVE  /\ done[c] =< 1
               /\ call[c].told = "result" => done[c] = 1
               /\ call[c].told = "refused" => done[c] = 0 /\ worker.task[c] = "none"
    <3>1. Truth(c)
      BY <2>1 DEF BridgeInv
    <3>2. call[c].told = "refused" => ~Under(c)
      BY <3>1 DEF Truth, Outcomes
    <3> QED BY <3>1, <3>2 DEF Truth, Under
  <2> QED BY <2>1 DEF BridgeInv, CallsEndOnce, OutcomesAreTrue
<1> QED BY <1>1, <1>2, <1>3, PTL DEF BridgeSpec

(* Every connection that Chat takes is a new one. *)
Met == {l \in Links : link[l].chat # "none"}
EpochFits == bridge.epoch <= Cardinality(Met)

LEMMA MetIsFinite ==
  ASSUME BridgeConstants
  PROVE  /\ IsFiniteSet(Met) /\ Cardinality(Met) \in Nat /\ Cardinality(Met) <= MaxLinks
<1>1. IsFiniteSet(Links) /\ Cardinality(Links) = MaxLinks
  BY FS_Interval DEF BridgeConstants, Links
<1>2. Met \in SUBSET Links
  BY DEF Met
<1> QED BY <1>1, <1>2, FS_Subset, FS_CardinalityType

LEMMA EpochStep ==
  ASSUME BridgeConstants, Typed, EpochFits, [Next]_bridgeVars
  PROVE  EpochFits'
<1> bridge \in Bridges /\ link \in [Links -> LinkStates]
  BY DEF Typed, LinksTyped
<1>1. IsFiniteSet(Met) /\ Cardinality(Met) \in Nat /\ bridge.epoch \in Nat
  BY MetIsFinite DEF Bridges
<1>2. ASSUME NEW l \in Links, Attach(l) PROVE EpochFits'
  <2>1. /\ link[l].chat = "none" /\ link'[l].chat # "none"
        /\ \A k \in Links \ {l} : link'[k] = link[k]
        /\ bridge'.epoch \in {bridge.epoch, bridge.epoch + 1}
    <3>1. CASE bridge.socket # 0
      BY <1>2, <3>1 DEF Attach, LinkStates
    <3>2. CASE bridge.socket = 0
      <4>1. /\ link' = [link EXCEPT ![l].chat = "open"] /\ link[l].chat = "none"
            /\ bridge' = [bridge EXCEPT !.socket = l, !.epoch = @ + 1]
        BY <1>2, <3>2 DEF Attach
      <4>2. link'[l].chat = "open" /\ \A k \in Links \ {l} : link'[k] = link[k]
        BY <4>1 DEF LinkStates
      <4>3. bridge'.epoch = bridge.epoch + 1
        BY <4>1 DEF Bridges
      <4> QED BY <4>1, <4>2, <4>3
    <3> QED BY <3>1, <3>2
  <2>2. Met' = Met \cup {l} /\ l \notin Met
    BY <2>1 DEF Met
  <2>3. Cardinality(Met') = Cardinality(Met) + 1
    BY <1>1, <2>2, FS_AddElement
  <2> QED BY <1>1, <2>1, <2>3 DEF EpochFits
<1>3. CASE bridge'.epoch = bridge.epoch /\ \A l \in Links : link'[l].chat # "none" <=> link[l].chat # "none"
  <2>1. Met' = Met
    BY <1>3 DEF Met
  <2> QED BY <1>3, <2>1 DEF EpochFits
<1>4. CASE bridge'.epoch = bridge.epoch /\ \E l \in Links : link' = [link EXCEPT ![l].chat = "closed"] /\ bridge.socket = l /\ Disconnected(l)
  <2>1. PICK l \in Links : link' = [link EXCEPT ![l].chat = "closed"]
    BY <1>4
  <2>2. Met \in SUBSET Met' /\ Met' \in SUBSET Links
    BY <2>1 DEF Met, LinkStates
  <2>3. IsFiniteSet(Links)
    BY FS_Interval DEF BridgeConstants, Links
  <2>4. IsFiniteSet(Met') /\ Cardinality(Met') \in Nat
    BY <2>2, <2>3, FS_Subset, FS_CardinalityType
  <2>5. Cardinality(Met) <= Cardinality(Met')
    BY <2>2, <2>4, FS_Subset
  <2> QED BY <1>1, <1>4, <2>4, <2>5 DEF EpochFits
<1>5. \/ bridge'.epoch = bridge.epoch /\ \A l \in Links : link'[l].chat = link[l].chat
      \/ \E l \in Links : Attach(l)
      \/ bridge'.epoch = bridge.epoch /\ \E l \in Links :
            link' = [link EXCEPT ![l].chat = "closed"] /\ bridge.socket = l /\ Disconnected(l)
  <2>1. CASE UNCHANGED <<bridge, link>>
    BY <2>1
  <2>2. CASE Connect
    BY <2>2 DEF Connect, LinkStates
  <2>3. CASE Leave
    <3>1. bridge' = bridge /\ link' = [link EXCEPT ![worker.link].worker = "closed", ![worker.link].asked = {}]
      BY <2>3 DEF Leave
    <3>2. \A l \in Links : link'[l].chat = link[l].chat
      BY <3>1 DEF LinkStates
    <3> QED BY <3>1, <3>2
  <2>4. ASSUME NEW l \in Links, Break(l) \/ Reply(l) \/ Take(l)
        PROVE  bridge'.epoch = bridge.epoch /\ \A k \in Links : link'[k].chat = link[k].chat
    <3>1. CASE Break(l)
      BY <3>1 DEF Break, LinkStates
    <3>2. CASE Reply(l)
      BY <3>2 DEF Reply, LinkStates, Bridges
    <3>3. CASE Take(l)
      BY <3>3 DEF Take, LinkStates
    <3> QED BY <2>4, <3>1, <3>2, <3>3
  <2>5. ASSUME NEW l \in Links, Disconnected(l)
        PROVE  /\ bridge'.epoch = bridge.epoch
               /\ link' = [link EXCEPT ![l].chat = "closed"] /\ bridge.socket = l
    BY <2>5 DEF Disconnected, Bridges
  <2>6. ASSUME NEW c \in StoreCalls, Call(c) \/ TakeLock(c) \/ Send(c) \/ SendFails(c) \/ Return(c) \/ GiveUp(c)
        PROVE  bridge'.epoch = bridge.epoch
    <3>1. CASE Call(c)
      BY <3>1 DEF Call, Bridges
    <3>2. CASE TakeLock(c)
      BY <3>2 DEF TakeLock, Left, Bridges
    <3>3. CASE Send(c)
      BY <3>3 DEF Send, Bridges
    <3>4. CASE SendFails(c) \/ Return(c) \/ GiveUp(c)
      BY <3>4 DEF SendFails, Return, GiveUp, Left, Bridges
    <3> QED BY <2>6, <3>1, <3>2, <3>3, <3>4
  <2>7. ASSUME NEW c \in StoreCalls, Call(c) \/ TakeLock(c) \/ Send(c) \/ SendFails(c) \/ Return(c) \/ GiveUp(c)
        PROVE  \A k \in Links : link'[k].chat = link[k].chat
    BY <2>7 DEF Call, TakeLock, Send, SendFails, Return, GiveUp, LinkStates
  <2>8. ASSUME NEW c \in StoreCalls, SendReply(c)
        PROVE  bridge'.epoch = bridge.epoch /\ \A k \in Links : link'[k].chat = link[k].chat
    <3>1. bridge' = bridge /\ link' = [link EXCEPT ![worker.link].replies =
             @ \cup {[id |-> c, result |-> worker.task[c]]}]
      BY <2>8 DEF SendReply
    <3>2. \A k \in Links : link'[k].chat = link[k].chat
      BY <3>1 DEF LinkStates
    <3> QED BY <3>1, <3>2
  <2>9. ASSUME NEW c \in StoreCalls, Begin(c) \/ Execute(c) \/ Orphan(c)
        PROVE  UNCHANGED <<bridge, link>>
    BY <2>9 DEF Begin, Execute, Orphan
  <2> QED BY <2>1, <2>2, <2>3, <2>4, <2>5, <2>6, <2>7, <2>8, <2>9 DEF Next, bridgeVars
<1> QED BY <1>2, <1>3, <1>4, <1>5

(* For any calls and connections: the bridge counts no more connections *)
(* than Chat took, and nothing is carried out more often than its type *)
(* says (BridgeStore.attach). *)
THEOREM BridgeTypes ==
  ASSUME BridgeConstants
  PROVE  BridgeSpec => []BridgeTypeOK
<1>1. Init => BridgeInv /\ EpochFits
  <2> SUFFICES ASSUME Init
               PROVE  EpochFits
    BY BridgeStarts
  <2>1. bridge.epoch = 0
    BY DEF Init
  <2> QED BY <2>1, MetIsFinite DEF EpochFits
<1>2. BridgeInv /\ EpochFits /\ [Next]_bridgeVars => (BridgeInv /\ EpochFits)'
  BY BridgeStep, EpochStep DEF BridgeInv
<1>3. BridgeInv /\ EpochFits => BridgeTypeOK
  <2> SUFFICES ASSUME BridgeInv, EpochFits
               PROVE  BridgeTypeOK
    OBVIOUS
  <2>1. bridge \in [socket : 0..MaxLinks, epoch : 0..MaxLinks, pending : SUBSET StoreCalls,
                    holder : SUBSET StoreCalls]
    <3>1. bridge.epoch \in Nat /\ bridge.epoch <= MaxLinks
      BY MetIsFinite DEF BridgeInv, Typed, Bridges, EpochFits, BridgeConstants
    <3> QED BY <3>1 DEF BridgeInv, Typed, Bridges, BridgeConstants
  <2>2. \A c \in StoreCalls : done[c] \in Nat /\ done[c] <= 1
    BY DEF BridgeInv, Truth, Typed, DoneTyped
  <2>3. done \in [StoreCalls -> 0..2]
    BY <2>2 DEF BridgeInv, Typed, DoneTyped
  <2>4. call \in [StoreCalls -> [at : {"idle", "queued", "sending", "waiting", "done"},
                              link : 0..MaxLinks, future : Outcomes \cup {"none", "broken"},
                              told : Outcomes \cup {"nothing", "unavailable"}]]
    <3>1. Early \cup {"waiting", "done"} = {"idle", "queued", "sending", "waiting", "done"}
      BY DEF Early
    <3> QED BY <3>1 DEF BridgeInv, Typed, CallsTyped, CallStates
  <2>5. worker.task \in [StoreCalls -> Outcomes \cup {"none", "queued", "running", "orphan"}]
    <3>1. TaskStates = Outcomes \cup {"none", "queued", "running", "orphan"}
      BY DEF TaskStates, Tasked
    <3> QED BY <3>1 DEF BridgeInv, Typed, WorkerTyped
  <2> QED BY <2>1, <2>3, <2>4, <2>5 DEF BridgeTypeOK, BridgeInv, Typed, WorkerTyped
<1> QED BY <1>1, <1>2, <1>3, PTL DEF BridgeSpec

-----------------------------------------------------------------------------
(* The Console as a client of Chat. *)

Asking == [at : {"ask", "prepare"}, session : Sessions, turn : Turns,
           conversation : Conversations, message : Messages, old : Row \cup {Nothing}]
Admitting == [at : {"claim", "send", "sent"}, session : Sessions, turn : Turns,
              old : Row \cup {Nothing}, row : Row, known : BOOLEAN]

ConsoleTyped == ConsoleTypeOK /\ op \in {NoCall} \cup Asking \cup Admitting

Admitted == op.at \in {"claim", "send", "sent"}
WasReady(o) == o.old # Nothing /\ o.old.readable

(* A turn that Chat has accepted, or may still be sent. *)
Possible(c, t) ==
  accepted[<<c, t>>] # Nothing \/ \E b \in Bodies : [conversation |-> c, turn |-> t, body |-> b] \in late

(* Only live logins have rows, and what is claimed or can be read is in a *)
(* conversation of the row's own login. *)
RowsGood ==
  \A t \in Turns : rows[t] # Nothing =>
    /\ Live(rows[t].owner)
    /\ rows[t].owned => creator[rows[t].conversation] = rows[t].owner
    /\ rows[t].readable => rows[t].owned

(* The call under the lock goes on with the row it found, for as long as *)
(* its login lives. *)
CallAsks(o) ==
  /\ o.old # Nothing => o.old.owner = o.session /\ o.old.conversation = o.conversation
  /\ Live(o.session) => rows[o.turn] = o.old

CallAdmits(o) ==
  /\ o.row.owner = o.session
  /\ Live(o.session) =>
       /\ rows[o.turn] # Nothing
       /\ rows[o.turn].owner = o.session
       /\ rows[o.turn].conversation = o.row.conversation
       /\ rows[o.turn].body = o.row.body
       /\ rows[o.turn].readable = IF o.at = "claim" THEN WasReady(o) ELSE TRUE
       /\ creator[o.row.conversation] = o.session =>
            (Possible(o.row.conversation, o.turn) => WasReady(o))
  /\ o.row.readable = IF o.at = "claim" THEN WasReady(o) ELSE TRUE
  /\ o.row.readable => o.row.owned
  /\ o.row.owned \/ o.known => creator[o.row.conversation] = o.session
  /\ o.at # "claim" =>
       /\ o.row.owned
       /\ \A turn \in sent : Key(turn) = <<o.row.conversation, o.turn>> => turn.body = o.row.body
  /\ o.at = "sent" =>
       [conversation |-> o.row.conversation, turn |-> o.turn, body |-> o.row.body] \in sent

CallGood ==
  /\ op # NoCall => login[op.session] # "new"
  /\ op \in Asking => CallAsks(op)
  /\ op \in Admitting => CallAdmits(op)

(* What was ever sent is in a conversation that Chat made, and its row is *)
(* there with the same body while its login lives; what Chat accepted, or *)
(* may still be sent, was sent and can be read. *)
SentGood ==
  /\ \A c \in Conversations : creator[c] # Nothing => login[creator[c]] # "new"
  /\ \A turn \in sent :
       /\ creator[turn.conversation] # Nothing
       /\ Live(creator[turn.conversation]) =>
            /\ rows[turn.turn] # Nothing
            /\ rows[turn.turn].owner = creator[turn.conversation]
            /\ rows[turn.turn].conversation = turn.conversation
            /\ rows[turn.turn].body = turn.body
            /\ Possible(turn.conversation, turn.turn) => rows[turn.turn].readable
  /\ \A c \in Conversations, t \in Turns : accepted[<<c, t>>] # Nothing =>
       [conversation |-> c, turn |-> t, body |-> accepted[<<c, t>>]] \in sent
  /\ \A request \in late :
       /\ request \in TurnRequest => request \in sent
       /\ request \in CreateRequest => login[request.by] # "new"

ConsoleInv ==
  /\ ConsoleTyped /\ OneBody /\ RowsGood /\ CallGood /\ SentGood
  /\ \A cancel \in cancels : creator[cancel.conversation] = cancel.by

LEMMA RequestsDiffer == CreateRequest \cap TurnRequest = {}
<1> SUFFICES ASSUME NEW r, r \in CreateRequest, r \in TurnRequest PROVE FALSE
  OBVIOUS
<1>1. DOMAIN r = {"conversation", "by"}
  BY DEF CreateRequest
<1>2. DOMAIN r = {"conversation", "turn", "body"}
  BY DEF TurnRequest
<1> QED BY <1>1, <1>2

LEMMA OpKinds ==
  /\ NoCall \notin Asking \cup Admitting
  /\ \A o \in Asking : o \notin Admitting /\ o # NoCall
  /\ \A o \in Admitting : o \notin Asking /\ o # NoCall
BY DEF NoCall, Asking, Admitting

LEMMA ConsoleStart ==
  ASSUME ConsoleAssumption, ConsoleInit
  PROVE  ConsoleInv
<1>1. ConsoleTyped
  BY DEF ConsoleInit, ConsoleAssumption, ConsoleTyped, ConsoleTypeOK, NoCall
<1>2. OneBody /\ RowsGood
  BY DEF ConsoleInit, OneBody, RowsGood
<1>3. CallGood
  BY OpKinds DEF ConsoleInit, CallGood
<1>4. \A c \in Conversations, t \in Turns : accepted[<<c, t>>] = Nothing
  BY DEF ConsoleInit
<1>5. SentGood
  BY <1>4 DEF ConsoleInit, SentGood
<1> QED BY <1>1, <1>2, <1>3, <1>5 DEF ConsoleInit, ConsoleInv

(* What an action that saves nothing keeps. *)
KeptRows ==
  \A t \in Turns : rows[t] # Nothing =>
    /\ rows'[t] # Nothing
    /\ rows'[t].owner = rows[t].owner
    /\ rows'[t].conversation = rows[t].conversation
    /\ rows'[t].body = rows[t].body

(* A row is saved: as it was asked for, a claim is never taken back. *)
LEMMA SaveWrites ==
  ASSUME ConsoleAssumption, ConsoleTypeOK, NEW t \in Turns, NEW r \in Row, Save(t, r)
  PROVE  /\ rows' \in [Turns -> Row \cup {Nothing}]
         /\ rows'[t] \in Row /\ rows'[t] # Nothing
         /\ rows'[t].owner = r.owner /\ rows'[t].conversation = r.conversation
         /\ rows'[t].body = r.body /\ rows'[t].readable = r.readable
         /\ rows'[t].owned = (r.owned \/ (rows[t] # Nothing /\ rows[t].owned))
         /\ \A u \in Turns \ {t} : rows'[u] = rows[u]
<1>1. PICK w : w = [r EXCEPT !.owned = @ \/ (rows[t] # Nothing /\ rows[t].owned)]
  OBVIOUS
<1>2. rows[t] # Nothing => rows[t].owned \in BOOLEAN
  BY DEF ConsoleTypeOK, Row
<1>3. /\ w \in Row /\ w # Nothing
      /\ w.owner = r.owner /\ w.conversation = r.conversation
      /\ w.body = r.body /\ w.readable = r.readable
      /\ w.owned = (r.owned \/ (rows[t] # Nothing /\ rows[t].owned))
  BY <1>1, <1>2 DEF ConsoleAssumption, Row
<1>4. rows' = [rows EXCEPT ![t] = w]
  BY <1>1 DEF Save
<1> QED BY <1>3, <1>4 DEF ConsoleTypeOK

(* The row of the call under the lock is saved again, as readable as the *)
(* call found out that it is. *)
LEMMA StoreAgain ==
  ASSUME ConsoleAssumption, ConsoleInv, op \in Admitting,
         NEW t \in Turns, t = op.turn, NEW r \in Row, SaveIfLive(t, r),
         r.owner = op.row.owner, r.conversation = op.row.conversation,
         r.body = op.row.body, r.owned = op.row.owned, r.readable => r.owned,
         UNCHANGED <<login, creator>>
  PROVE  /\ rows' \in [Turns -> Row \cup {Nothing}]
         /\ RowsGood' /\ KeptRows
         /\ \A u \in Turns : rows[u] = Nothing => rows'[u] = Nothing
         /\ \A u \in Turns \ {t} : rows'[u] = rows[u]
         /\ rows'[t] = rows[t] \/ (rows'[t] # Nothing /\ rows'[t].readable = r.readable)
<1>1. CASE ~MaySave(t, r)
  <2>1. rows' = rows
    BY <1>1 DEF SaveIfLive
  <2> QED BY <2>1 DEF ConsoleInv, ConsoleTyped, ConsoleTypeOK, RowsGood, Live, KeptRows
<1>2. CASE MaySave(t, r)
  <2>1. Save(t, r)
    BY <1>2 DEF SaveIfLive
  <2>2. CallAdmits(op)
    BY DEF ConsoleInv, CallGood
  <2>3. /\ Live(r.owner) /\ rows[t] # Nothing
        /\ rows[t].owner = r.owner /\ rows[t].conversation = r.conversation
        /\ rows[t].body = r.body
        /\ r.owned => creator[r.conversation] = r.owner
    BY <1>2, <2>2 DEF MaySave, CallAdmits
  <2>4. rows[t].owned => creator[r.conversation] = r.owner
    BY <2>3 DEF ConsoleInv, RowsGood
  <2>5. RowsGood /\ ConsoleTypeOK
    BY DEF ConsoleInv, ConsoleTyped
  <2> DEFINE Good(u) == rows'[u] # Nothing =>
               /\ login[rows'[u].owner] = "live"
               /\ rows'[u].owned => creator[rows'[u].conversation] = rows'[u].owner
               /\ rows'[u].readable => rows'[u].owned
  <2>6. Good(t)
    <3>1. /\ rows'[t].owner = r.owner /\ rows'[t].conversation = r.conversation
          /\ rows'[t].readable = r.readable /\ rows'[t].owned = (r.owned \/ rows[t].owned)
      BY <2>1, <2>3, <2>5, SaveWrites
    <3> QED BY <2>3, <2>4, <3>1 DEF Live
  <2>7. \A u \in Turns \ {t} : Good(u)
    BY <2>1, <2>5, SaveWrites DEF Live, RowsGood
  <2>8. RowsGood'
    BY <2>6, <2>7 DEF RowsGood, Live
  <2> QED BY <2>1, <2>3, <2>5, <2>8, SaveWrites DEF KeptRows
<1> QED BY <1>1, <1>2

(* Only these can change what may be read of what was sent. *)
MayBeTaken(u) == Possible(u.conversation, u.turn)

LEMMA SentStays ==
  ASSUME ConsoleInv, KeptRows, UNCHANGED <<login, creator, sent>>,
         \A c \in Conversations, t \in Turns : accepted'[<<c, t>>] # Nothing =>
           [conversation |-> c, turn |-> t, body |-> accepted'[<<c, t>>]] \in sent,
         \A q \in late' : q \in late \cup sent \/ (q \in CreateRequest /\ login[q.by] # "new"),
         \A u \in sent : Live(creator[u.conversation]) /\ MayBeTaken(u)' => rows'[u.turn].readable
  PROVE  SentGood'
<1>1. SentGood /\ ConsoleTypeOK
  BY DEF ConsoleInv, ConsoleTyped
<1>2. ASSUME NEW u \in sent
      PROVE  /\ creator[u.conversation] # Nothing
             /\ Live(creator[u.conversation]) =>
                  /\ rows'[u.turn] # Nothing
                  /\ rows'[u.turn].owner = creator[u.conversation]
                  /\ rows'[u.turn].conversation = u.conversation
                  /\ rows'[u.turn].body = u.body
                  /\ Possible(u.conversation, u.turn)' => rows'[u.turn].readable
  <2>1. u \in TurnRequest /\ u.turn \in Turns
    BY <1>1 DEF ConsoleTypeOK, TurnRequest
  <2> QED BY <1>1, <2>1 DEF SentGood, KeptRows, MayBeTaken
<1>3. ASSUME NEW q \in late'
      PROVE  (q \in TurnRequest => q \in sent) /\ (q \in CreateRequest => login[q.by] # "new")
  <2>1. CASE q \in late
    BY <1>1, <2>1 DEF SentGood
  <2>2. CASE q \in sent
    BY <1>1, <2>2, RequestsDiffer DEF ConsoleTypeOK
  <2>3. CASE q \in CreateRequest /\ login[q.by] # "new"
    BY <2>3, RequestsDiffer
  <2> QED BY <2>1, <2>2, <2>3
<1>4. \A c \in Conversations : creator'[c] # Nothing => login'[creator'[c]] # "new"
  BY <1>1 DEF SentGood
<1>5. \A u \in sent' :
        /\ creator'[u.conversation] # Nothing
        /\ Live(creator[u.conversation])' =>
             /\ rows'[u.turn] # Nothing
             /\ rows'[u.turn].owner = creator'[u.conversation]
             /\ rows'[u.turn].conversation = u.conversation
             /\ rows'[u.turn].body = u.body
             /\ Possible(u.conversation, u.turn)' => rows'[u.turn].readable
  BY <1>2 DEF Live
<1> QED BY <1>3, <1>4, <1>5 DEF SentGood

(* The call under the lock, when something else changes. *)
LEMMA CallStays ==
  ASSUME ConsoleInv, UNCHANGED <<login, rows, op, creator>>, sent' = sent,
         \A c \in Conversations, t \in Turns : Possible(c, t)' => Possible(c, t)
  PROVE  CallGood'
<1>1. CallGood /\ ConsoleTyped
  BY DEF ConsoleInv
<1>2. op' # NoCall => login'[op'.session] # "new"
  BY <1>1 DEF CallGood
<1>3. ASSUME op' \in Asking PROVE CallAsks(op)'
  BY <1>1, <1>3 DEF CallGood, CallAsks, Live
<1>4. ASSUME op' \in Admitting PROVE CallAdmits(op)'
  <2> SUFFICES ASSUME NEW o, o = op PROVE CallAdmits(o)'
    BY DEF CallAdmits, Live, Possible, WasReady
  <2>1. o \in Admitting /\ CallAdmits(o)
    BY <1>1, <1>4 DEF CallGood
  <2>2. o.row.conversation \in Conversations /\ o.turn \in Turns
    BY <2>1 DEF Admitting, Row
  <2>3. Possible(o.row.conversation, o.turn)' => Possible(o.row.conversation, o.turn)
    BY <2>2
  <2> QED BY <2>1, <2>3 DEF CallAdmits, Live
<1> QED BY <1>2, <1>3, <1>4 DEF CallGood

LEMMA DoneIsGood ==
  ASSUME Done
  PROVE  CallGood' /\ op' \in {NoCall} \cup Asking \cup Admitting /\ op'.at = "idle"
BY OpKinds DEF Done, CallGood, NoCall

LEMMA RowsStay ==
  ASSUME ConsoleInv, UNCHANGED <<login, rows, creator>>
  PROVE  RowsGood' /\ KeptRows
BY DEF ConsoleInv, RowsGood, Live, KeptRows

LEMMA SignInKeeps ==
  ASSUME ConsoleAssumption, ConsoleInv, NEW s \in Sessions, SignIn(s)
  PROVE  ConsoleInv'
<1>1. ConsoleTyped /\ RowsGood /\ CallGood /\ SentGood
  BY DEF ConsoleInv
<1>2. /\ login' \in [Sessions -> {"new", "live", "over"}] /\ login[s] = "new"
      /\ login'[s] = "live" /\ \A o \in Sessions \ {s} : login'[o] = login[o]
      /\ UNCHANGED <<rows, op, awaited, context, Chat, late, sent, cancels>>
  BY <1>1 DEF SignIn, ConsoleTyped, ConsoleTypeOK
<1>3. UNCHANGED <<rows, op, awaited, context, creator, accepted, late, sent, cancels>>
  BY <1>2 DEF Chat
<1>4. ConsoleTyped'
  BY <1>1, <1>2, <1>3 DEF ConsoleTyped, ConsoleTypeOK
<1>5. RowsGood'
  <2>1. \A t \in Turns : rows[t] # Nothing => rows[t].owner \in Sessions
    BY <1>1 DEF ConsoleTyped, ConsoleTypeOK, Row
  <2> QED BY <1>1, <1>2, <1>3, <2>1 DEF RowsGood, Live
<1>6. \A c \in Conversations : creator[c] # Nothing =>
         creator[c] \in Sessions /\ creator[c] # s
  BY <1>1, <1>2 DEF ConsoleTyped, ConsoleTypeOK, SentGood
<1>7. \A c \in Conversations, t \in Turns : Possible(c, t)' = Possible(c, t)
  BY <1>3 DEF Possible
<1>8. CallGood'
  <2>1. op # NoCall => op.session \in Sessions /\ op.session # s
    BY <1>1, <1>2 DEF ConsoleTyped, Asking, Admitting, CallGood
  <2>2. op \in Asking => CallAsks(op)'
    BY <1>1, <1>2, <1>3, <2>1, OpKinds DEF CallGood, CallAsks, Live
  <2>3. ASSUME op \in Admitting PROVE CallAdmits(op)'
    <3> SUFFICES ASSUME NEW o, o = op PROVE CallAdmits(o)'
      BY <1>3 DEF CallAdmits, Live, Possible, WasReady
    <3>1. o \in Admitting /\ CallAdmits(o) /\ o.session \in Sessions /\ o.session # s
      BY <1>1, <2>1, <2>3, OpKinds DEF CallGood
    <3>2. o.row.conversation \in Conversations /\ o.turn \in Turns
      BY <3>1 DEF Admitting, Row
    <3>3. Possible(o.row.conversation, o.turn)' = Possible(o.row.conversation, o.turn)
      BY <1>7, <3>2
    <3>4. Live(o.session)' = Live(o.session)
      BY <1>2, <3>1 DEF Live
    <3> QED BY <1>3, <3>1, <3>3, <3>4 DEF CallAdmits
  <2>4. op # NoCall => login'[op.session] # "new"
    BY <1>1, <1>2, <2>1 DEF CallGood
  <2> QED BY <1>3, <2>2, <2>3, <2>4 DEF CallGood
<1>9. SentGood'
  <2>1. \A c \in Conversations : creator[c] # Nothing => login'[creator[c]] # "new"
    BY <1>1, <1>2, <1>6 DEF SentGood
  <2>2. \A q \in late : /\ q \in TurnRequest => q \in sent
                        /\ q \in CreateRequest => login'[q.by] # "new"
    BY <1>1, <1>2 DEF SentGood, CreateRequest
  <2>3. ASSUME NEW u \in sent
        PROVE  /\ creator[u.conversation] # Nothing
               /\ Live(creator[u.conversation])' =>
                    /\ rows[u.turn] # Nothing
                    /\ rows[u.turn].owner = creator[u.conversation]
                    /\ rows[u.turn].conversation = u.conversation
                    /\ rows[u.turn].body = u.body
                    /\ Possible(u.conversation, u.turn)' => rows[u.turn].readable
    <3>1. u.conversation \in Conversations /\ u.turn \in Turns
      BY <1>1 DEF ConsoleTyped, ConsoleTypeOK, TurnRequest
    <3>2. creator[u.conversation] # Nothing
      BY <1>1 DEF SentGood
    <3>3. Live(creator[u.conversation])' = Live(creator[u.conversation])
      BY <1>2, <1>3, <1>6, <3>1, <3>2 DEF Live
    <3> QED BY <1>1, <1>7, <3>1, <3>2, <3>3 DEF SentGood
  <2> QED BY <1>1, <1>3, <2>1, <2>2, <2>3 DEF SentGood
<1>10. OneBody' /\ \A cancel \in cancels' : creator'[cancel.conversation] = cancel.by
  BY <1>3 DEF ConsoleInv, OneBody, Key
<1> QED BY <1>4, <1>5, <1>8, <1>9, <1>10 DEF ConsoleInv

LEMMA EndSessionKeeps ==
  ASSUME ConsoleAssumption, ConsoleInv, NEW s \in Sessions, EndSession(s)
  PROVE  ConsoleInv'
<1>1. ConsoleTyped /\ RowsGood /\ CallGood /\ SentGood
  BY DEF ConsoleInv
<1>2. /\ login' \in [Sessions -> {"new", "live", "over"}]
      /\ login'[s] = "over" /\ \A o \in Sessions \ {s} : login'[o] = login[o]
      /\ UNCHANGED <<op, awaited, context, creator, accepted, late, sent, cancels>>
  BY <1>1 DEF EndSession, Chat, ConsoleTyped, ConsoleTypeOK
<1>3. /\ rows' \in [Turns -> Row \cup {Nothing}]
      /\ \A t \in Turns : rows'[t] = Nothing \/ (rows'[t] = rows[t] /\ rows[t].owner # s)
      /\ \A t \in Turns : rows[t] # Nothing /\ rows[t].owner # s => rows'[t] = rows[t]
      /\ \A t \in Turns : rows[t] = Nothing => rows'[t] = Nothing
  BY <1>1 DEF EndSession, OwnRows, ConsoleTyped, ConsoleTypeOK
<1>4. ConsoleTyped'
  BY <1>1, <1>2, <1>3 DEF ConsoleTyped, ConsoleTypeOK
<1>5. RowsGood'
  <2>1. \A t \in Turns : rows[t] # Nothing => rows[t].owner \in Sessions
    BY <1>1 DEF ConsoleTyped, ConsoleTypeOK, Row
  <2> QED BY <1>1, <1>2, <1>3, <2>1 DEF RowsGood, Live
<1>6. \A o \in Sessions : (Live(o)' <=> Live(o) /\ o # s) /\ (login'[o] = "new" => login[o] = "new")
  BY <1>2 DEF Live
<1>7. \A c \in Conversations, t \in Turns : Possible(c, t)' = Possible(c, t)
  BY <1>2 DEF Possible
<1>8. CallGood'
  <2>1. op # NoCall => op.session \in Sessions /\ op.turn \in Turns
    BY <1>1 DEF ConsoleTyped, Asking, Admitting
  <2>2. op \in Asking => CallAsks(op)'
    BY <1>1, <1>2, <1>3, <1>6, <2>1, OpKinds DEF CallGood, CallAsks
  <2>3. ASSUME op \in Admitting PROVE CallAdmits(op)'
    <3> SUFFICES ASSUME NEW o, o = op PROVE CallAdmits(o)'
      BY <1>2 DEF CallAdmits, Live, Possible, WasReady
    <3>1. o \in Admitting /\ CallAdmits(o) /\ o.session \in Sessions /\ o.turn \in Turns
      BY <1>1, <2>1, <2>3, OpKinds DEF CallGood
    <3>2. o.row.conversation \in Conversations
      BY <3>1 DEF Admitting, Row
    <3>3. Possible(o.row.conversation, o.turn)' = Possible(o.row.conversation, o.turn)
      BY <1>7, <3>1, <3>2
    <3>4. Live(o.session)' => Live(o.session) /\ rows'[o.turn] = rows[o.turn]
      BY <1>3, <1>6, <3>1 DEF CallAdmits
    <3> QED BY <1>2, <3>1, <3>3, <3>4 DEF CallAdmits
  <2>4. op # NoCall => login'[op.session] # "new"
    BY <1>1, <1>6, <2>1 DEF CallGood
  <2> QED BY <1>2, <2>2, <2>3, <2>4 DEF CallGood
<1>9. SentGood'
  <2>1. \A c \in Conversations : creator[c] # Nothing => login'[creator[c]] # "new"
    BY <1>1, <1>6 DEF SentGood, ConsoleTyped, ConsoleTypeOK
  <2>2. \A q \in late : /\ q \in TurnRequest => q \in sent
                        /\ q \in CreateRequest => login'[q.by] # "new"
    BY <1>1, <1>6 DEF SentGood, CreateRequest
  <2>3. ASSUME NEW u \in sent
        PROVE  /\ creator[u.conversation] # Nothing
               /\ Live(creator[u.conversation])' =>
                    /\ rows'[u.turn] # Nothing
                    /\ rows'[u.turn].owner = creator[u.conversation]
                    /\ rows'[u.turn].conversation = u.conversation
                    /\ rows'[u.turn].body = u.body
                    /\ Possible(u.conversation, u.turn)' => rows'[u.turn].readable
    <3>1. u.conversation \in Conversations /\ u.turn \in Turns
      BY <1>1 DEF ConsoleTyped, ConsoleTypeOK, TurnRequest
    <3>2. creator[u.conversation] # Nothing /\ creator[u.conversation] \in Sessions
      BY <1>1, <3>1 DEF SentGood, ConsoleTyped, ConsoleTypeOK
    <3>3. Live(creator[u.conversation])' =>
            Live(creator[u.conversation]) /\ creator[u.conversation] # s
      BY <1>2, <3>2 DEF Live
    <3>4. Live(creator[u.conversation])' => rows'[u.turn] = rows[u.turn]
      BY <1>1, <1>3, <3>1, <3>3 DEF SentGood
    <3> QED BY <1>1, <1>7, <3>1, <3>2, <3>3, <3>4 DEF SentGood
  <2> QED BY <1>1, <1>2, <2>1, <2>2, <2>3 DEF SentGood
<1>10. OneBody' /\ \A cancel \in cancels' : creator'[cancel.conversation] = cancel.by
  BY <1>2 DEF ConsoleInv, OneBody, Key
<1> QED BY <1>4, <1>5, <1>8, <1>9, <1>10 DEF ConsoleInv

(* What an action keeps that changes neither rows nor what was sent. *)
LEMMA RestStays ==
  ASSUME ConsoleInv, UNCHANGED <<login, rows, creator, accepted, late, sent, cancels>>
  PROVE  /\ OneBody' /\ RowsGood' /\ SentGood'
         /\ \A cancel \in cancels' : creator'[cancel.conversation] = cancel.by
<1>1. SentGood /\ RowsGood
  BY DEF ConsoleInv
<1>2. \A c \in Conversations, t \in Turns : Possible(c, t)' = Possible(c, t)
  BY DEF Possible
<1>3. SentGood'
  <2>1. \A u \in sent : MayBeTaken(u)' = MayBeTaken(u)
    BY DEF MayBeTaken, Possible
  <2>2. \A u \in sent : Live(creator[u.conversation]) /\ MayBeTaken(u)' => rows'[u.turn].readable
    BY <1>1, <2>1 DEF SentGood, MayBeTaken
  <2>3. KeptRows
    BY DEF KeptRows
  <2>4. \A c \in Conversations, t \in Turns : accepted'[<<c, t>>] # Nothing =>
           [conversation |-> c, turn |-> t, body |-> accepted'[<<c, t>>]] \in sent
    BY <1>1 DEF SentGood
  <2> QED BY <2>2, <2>3, <2>4, SentStays
<1> QED BY <1>1, <1>3 DEF ConsoleInv, OneBody, Key, RowsGood, Live

LEMMA LookKeeps ==
  ASSUME ConsoleAssumption, ConsoleInv, NEW s \in Sessions, NEW t \in Turns,
         NEW c \in Conversations, NEW m \in Messages, Look(s, t, c, m)
  PROVE  ConsoleInv'
<1>1. ConsoleTyped /\ RowsGood
  BY DEF ConsoleInv
<1>2. /\ Live(s)
      /\ rows[t] # Nothing => rows[t].owner = s /\ rows[t].conversation = c
      /\ op' = [at |-> IF rows[t] # Nothing /\ rows[t].readable THEN "ask" ELSE "prepare",
                session |-> s, turn |-> t, conversation |-> c, message |-> m, old |-> rows[t]]
      /\ UNCHANGED <<login, rows, awaited, context, creator, accepted, late, sent, cancels>>
  BY DEF Look, Chat
<1>3. op' \in Asking /\ op'.session = s /\ op'.turn = t /\ op'.conversation = c /\ op'.old = rows[t]
      /\ op'.at \in {"ask", "prepare"}
  BY <1>1, <1>2 DEF Asking, ConsoleTyped, ConsoleTypeOK
<1>4. CallAsks(op)'
  BY <1>2, <1>3 DEF CallAsks
<1>5. login'[op'.session] # "new"
  BY <1>2, <1>3 DEF Live
<1>6. CallGood'
  BY <1>3, <1>4, <1>5, OpKinds DEF CallGood
<1>7. ConsoleTyped'
  BY <1>1, <1>2, <1>3 DEF ConsoleTyped, ConsoleTypeOK
<1> QED BY <1>2, <1>6, <1>7, RestStays DEF ConsoleInv

LEMMA AskChatKeeps ==
  ASSUME ConsoleAssumption, ConsoleInv, AskChat
  PROVE  ConsoleInv'
<1>1. ConsoleTyped /\ CallGood
  BY DEF ConsoleInv
<1>2. UNCHANGED <<login, rows, awaited, context, creator, accepted, late, sent, cancels>> /\ op.at = "ask"
  BY DEF AskChat, Chat
<1>3. CASE Done
  <2>1. ConsoleTyped'
    BY <1>1, <1>2, <1>3, DoneIsGood DEF ConsoleTyped, ConsoleTypeOK
  <2> QED BY <1>2, <1>3, <2>1, DoneIsGood, RestStays DEF ConsoleInv
<1>4. CASE op' = [op EXCEPT !.at = "prepare"]
  <2>1. op \in Asking
    BY <1>1, <1>2 DEF ConsoleTyped, Admitting, NoCall
  <2>2. /\ op' \in Asking /\ op'.session = op.session /\ op'.turn = op.turn
        /\ op'.conversation = op.conversation /\ op'.old = op.old /\ op'.at = "prepare"
    BY <1>4, <2>1 DEF Asking
  <2>3. CallAsks(op)'
    BY <1>1, <1>2, <2>1, <2>2 DEF CallGood, CallAsks, Live
  <2>4. CallGood'
    BY <1>1, <1>2, <2>1, <2>2, <2>3, OpKinds DEF CallGood
  <2>5. ConsoleTyped'
    BY <1>1, <1>2, <2>2 DEF ConsoleTyped, ConsoleTypeOK
  <2> QED BY <1>2, <2>4, <2>5, RestStays DEF ConsoleInv
<1> QED BY <1>3, <1>4 DEF AskChat

LEMMA NewContextKeeps ==
  ASSUME ConsoleAssumption, ConsoleInv, NewContext
  PROVE  ConsoleInv'
<1>1. UNCHANGED <<login, rows, op, awaited, creator, accepted, late, sent, cancels>>
      /\ context' = context + 1 /\ context < MaxContext
  BY DEF NewContext, Chat
<1>2. ConsoleTyped'
  BY <1>1 DEF ConsoleInv, ConsoleTyped, ConsoleTypeOK, ConsoleAssumption
<1>3. CallGood'
  <2>1. \A c \in Conversations, t \in Turns : Possible(c, t)' => Possible(c, t)
    BY <1>1 DEF Possible
  <2> QED BY <1>1, <2>1, CallStays
<1> QED BY <1>1, <1>2, <1>3, RestStays DEF ConsoleInv

LEMMA CancelKeeps ==
  ASSUME ConsoleAssumption, ConsoleInv, NEW s \in Sessions, NEW t \in Turns, Cancel(s, t)
  PROVE  ConsoleInv'
<1>1. ConsoleTyped /\ RowsGood /\ SentGood /\ OneBody
  BY DEF ConsoleInv
<1>2. UNCHANGED <<login, rows, op, awaited, context, creator, accepted, late, sent>>
  BY DEF Cancel, Chat
<1>3. /\ rows[t] # Nothing /\ rows[t].owner = s /\ rows[t].readable
      /\ cancels' = cancels \cup {[conversation |-> rows[t].conversation, by |-> s]}
  BY DEF Cancel, MayRead
<1>4. creator[rows[t].conversation] = s /\ rows[t].conversation \in Conversations
  BY <1>1, <1>3 DEF RowsGood, ConsoleTyped, ConsoleTypeOK, Row
<1>5. ConsoleTyped'
  BY <1>1, <1>2, <1>3, <1>4 DEF ConsoleTyped, ConsoleTypeOK, CreateRequest
<1>6. CallGood'
  <2>1. \A c \in Conversations, u \in Turns : Possible(c, u)' => Possible(c, u)
    BY <1>2 DEF Possible
  <2> QED BY <1>2, <2>1, CallStays
<1>7. OneBody' /\ RowsGood'
  BY <1>1, <1>2 DEF OneBody, Key, RowsGood, Live
<1>8. SentGood'
  <2>1. \A u \in sent : Live(creator[u.conversation]) /\ MayBeTaken(u)' => rows'[u.turn].readable
    BY <1>1, <1>2 DEF SentGood, MayBeTaken, Possible
  <2>2. KeptRows
    BY <1>2 DEF KeptRows
  <2>3. \A c \in Conversations, u \in Turns : accepted'[<<c, u>>] # Nothing =>
           [conversation |-> c, turn |-> u, body |-> accepted'[<<c, u>>]] \in sent
    BY <1>1, <1>2 DEF SentGood
  <2> QED BY <1>2, <2>1, <2>2, <2>3, SentStays
<1>9. \A cancel \in cancels' : creator'[cancel.conversation] = cancel.by
  <2>1. \A cancel \in cancels : creator[cancel.conversation] = cancel.by
    BY DEF ConsoleInv
  <2> QED BY <1>2, <1>3, <1>4, <2>1
<1> QED BY <1>5, <1>6, <1>7, <1>8, <1>9 DEF ConsoleInv

LEMMA FreezeKeeps ==
  ASSUME ConsoleAssumption, ConsoleInv, Freeze
  PROVE  ConsoleInv'
<1>1. ConsoleTyped /\ RowsGood /\ CallGood /\ SentGood /\ ConsoleTypeOK
  BY DEF ConsoleInv, ConsoleTyped
<1>2. UNCHANGED <<login, awaited, context, creator, accepted, late, sent, cancels>> /\ op.at = "prepare"
  BY DEF Freeze, Chat
<1>3. op \in Asking /\ CallAsks(op)
  BY <1>1, <1>2 DEF ConsoleTyped, Admitting, NoCall, CallGood
<1>4. CASE Done /\ UNCHANGED rows
  <2>1. ConsoleTyped'
    BY <1>1, <1>2, <1>4, DoneIsGood DEF ConsoleTyped, ConsoleTypeOK
  <2> QED BY <1>2, <1>4, <2>1, DoneIsGood, RestStays DEF ConsoleInv
<1>5. ASSUME NEW row, NEW s, NEW t, NEW c, NEW o,
             s = op.session, t = op.turn, c = op.conversation, o = op.old,
             row = [owner |-> s, conversation |-> c, body |-> FrozenBody,
                    readable |-> WasReadable, owned |-> o # Nothing /\ o.owned],
             MaySave(t, row), Save(t, row),
             op' = [at |-> "claim", session |-> s, turn |-> t, old |-> o, row |-> row,
                    known |-> row.owned \/ Claimed(s, c)]
      PROVE  ConsoleInv'
  <2>1. s \in Sessions /\ t \in Turns /\ c \in Conversations /\ o \in Row \cup {Nothing}
        /\ op.message \in Messages
    BY <1>3, <1>5 DEF Asking
  <2>2. FrozenBody \in Bodies
    <3>1. o = Nothing => FrozenBody \in Bodies
      BY <1>1, <1>5, <2>1 DEF FrozenBody, Bodies, ConsoleTypeOK, ConsoleAssumption
    <3>2. o # Nothing => FrozenBody \in Bodies
      BY <1>5, <2>1 DEF FrozenBody, Row
    <3> QED BY <3>1, <3>2
  <2>3. /\ row \in Row /\ row.owner = s /\ row.conversation = c
        /\ row.readable = (o # Nothing /\ o.readable)
        /\ row.owned = (o # Nothing /\ o.owned)
        /\ row.body = FrozenBody
    <3>1. (o # Nothing /\ o.readable) \in BOOLEAN /\ (o # Nothing /\ o.owned) \in BOOLEAN
      BY <2>1 DEF Row
    <3>2. WasReadable = (o # Nothing /\ o.readable)
      BY <1>5 DEF WasReadable
    <3> QED BY <1>5, <2>1, <2>2, <3>1, <3>2 DEF Row
  <2>4. /\ Live(s) /\ rows[t] = o
        /\ o # Nothing => o.owner = s /\ o.conversation = c /\ row.body = o.body
    BY <1>3, <1>5, <2>3 DEF MaySave, CallAsks, FrozenBody
  <2>5. /\ rows' \in [Turns -> Row \cup {Nothing}]
        /\ rows'[t] # Nothing /\ rows'[t].owner = s /\ rows'[t].conversation = c
        /\ rows'[t].body = row.body /\ rows'[t].readable = row.readable
        /\ rows'[t].owned = row.owned
        /\ \A u \in Turns \ {t} : rows'[u] = rows[u]
    <3>1. /\ rows' \in [Turns -> Row \cup {Nothing}]
          /\ rows'[t] \in Row /\ rows'[t] # Nothing
          /\ rows'[t].owner = row.owner /\ rows'[t].conversation = row.conversation
          /\ rows'[t].body = row.body /\ rows'[t].readable = row.readable
          /\ rows'[t].owned = (row.owned \/ (rows[t] # Nothing /\ rows[t].owned))
          /\ \A u \in Turns \ {t} : rows'[u] = rows[u]
      BY <1>1, <1>5, <2>1, <2>3, SaveWrites
    <3>2. row.owned = (row.owned \/ (rows[t] # Nothing /\ rows[t].owned))
      BY <2>3, <2>4
    <3> QED BY <2>3, <3>1, <3>2
  <2>6. o # Nothing => /\ o.owned => creator[c] = s
                       /\ o.readable => o.owned
    BY <1>1, <2>1, <2>4 DEF RowsGood
  <2>7. RowsGood'
    <3> DEFINE Good(u) == rows'[u] # Nothing =>
               /\ login[rows'[u].owner] = "live"
               /\ rows'[u].owned => creator[rows'[u].conversation] = rows'[u].owner
               /\ rows'[u].readable => rows'[u].owned
    <3>1. Good(t)
      BY <2>3, <2>4, <2>5, <2>6 DEF Live
    <3>2. \A u \in Turns \ {t} : Good(u)
      BY <1>1, <2>5 DEF RowsGood, Live
    <3>3. \A u \in Turns : Good(u)
      BY <3>1, <3>2
    <3> QED BY <1>2, <3>3 DEF RowsGood, Live
  <2>8. KeptRows /\ (\A u \in Turns : rows[u] # Nothing => rows'[u].readable = rows[u].readable)
    <3>1. o # Nothing => rows'[t].readable = o.readable
      BY <2>1, <2>3, <2>5 DEF Row
    <3>2. o # Nothing => /\ rows'[t].owner = o.owner /\ rows'[t].conversation = o.conversation
                         /\ rows'[t].body = o.body
      BY <2>4, <2>5
    <3> QED BY <2>4, <2>5, <3>1, <3>2 DEF KeptRows
  <2>9. SentGood'
    <3>1. \A u \in sent : Live(creator[u.conversation]) /\ MayBeTaken(u)' => rows'[u.turn].readable
      <4> SUFFICES ASSUME NEW u \in sent, Live(creator[u.conversation]), MayBeTaken(u)'
                   PROVE  rows'[u.turn].readable
        OBVIOUS
      <4>1. u.turn \in Turns
        BY <1>1 DEF ConsoleTypeOK, TurnRequest
      <4>2. Possible(u.conversation, u.turn)
        BY <1>2 DEF MayBeTaken, Possible
      <4> QED BY <1>1, <2>8, <4>1, <4>2 DEF SentGood
    <3>2. \A x \in Conversations, u \in Turns : accepted'[<<x, u>>] # Nothing =>
             [conversation |-> x, turn |-> u, body |-> accepted'[<<x, u>>]] \in sent
      BY <1>1, <1>2 DEF SentGood
    <3> QED BY <1>2, <2>8, <3>1, <3>2, SentStays
  <2>10. op' \in Admitting /\ op'.at = "claim" /\ op'.session = s /\ op'.turn = t
         /\ op'.old = o /\ op'.row = row /\ op'.known = (row.owned \/ Claimed(s, c))
    <3>1. (row.owned \/ Claimed(s, c)) \in BOOLEAN
      BY <2>3 DEF Row, Claimed
    <3> QED BY <1>5, <2>1, <2>3, <3>1 DEF Admitting
  <2>11. Claimed(s, c) => creator[c] = s
    BY <1>1 DEF Claimed, OwnRows, RowsGood
  <2>12. Possible(c, t) /\ creator[c] = s => o # Nothing /\ o.readable
    <3> SUFFICES ASSUME Possible(c, t), creator[c] = s PROVE o # Nothing /\ o.readable
      OBVIOUS
    <3>1. PICK b : [conversation |-> c, turn |-> t, body |-> b] \in sent
      <4>1. CASE accepted[<<c, t>>] # Nothing
        BY <1>1, <2>1, <4>1 DEF SentGood
      <4>2. CASE \E b \in Bodies : [conversation |-> c, turn |-> t, body |-> b] \in late
        <5>1. PICK b \in Bodies : [conversation |-> c, turn |-> t, body |-> b] \in late
          BY <4>2
        <5>2. [conversation |-> c, turn |-> t, body |-> b] \in TurnRequest
          BY <2>1, <5>1 DEF TurnRequest
        <5> QED BY <1>1, <5>1, <5>2 DEF SentGood
      <4> QED BY <4>1, <4>2 DEF Possible
    <3> DEFINE u == [conversation |-> c, turn |-> t, body |-> b]
    <3>2. u \in sent /\ u.conversation = c /\ u.turn = t
      BY <3>1
    <3> HIDE DEF u
    <3>3. rows[t] # Nothing /\ (Possible(u.conversation, u.turn) => rows[t].readable)
      BY <1>1, <2>4, <3>2 DEF SentGood
    <3> QED BY <2>4, <3>2, <3>3
  <2>13. CallAdmits(op)'
    <3> SUFFICES ASSUME NEW p, p = op' PROVE CallAdmits(p)'
      BY DEF CallAdmits, Live, Possible, WasReady
    <3>1. p.at = "claim" /\ p.session = s /\ p.turn = t
         /\ p.old = o /\ p.row = row /\ p.known = (row.owned \/ Claimed(s, c))
      BY <2>10
    <3>2. Possible(c, t)' = Possible(c, t)
      BY <1>2 DEF Possible
    <3>3. p.row.owner = p.session /\ p.row.readable = WasReady(p)
         /\ (p.row.readable => p.row.owned) /\ (p.row.owned \/ p.known => creator[p.row.conversation] = p.session)
      BY <2>3, <2>6, <2>11, <3>1 DEF WasReady
    <3>4. creator[c] = s => (Possible(c, t) => WasReady(p))
      BY <2>12, <3>1 DEF WasReady
    <3> QED BY <1>2, <2>3, <2>5, <3>1, <3>2, <3>3, <3>4 DEF CallAdmits
  <2>14. CallGood'
    <3>1. login'[op'.session] # "new"
      BY <1>2, <2>4, <2>10 DEF Live
    <3> QED BY <2>10, <2>13, <3>1, OpKinds DEF CallGood
  <2>15. ConsoleTyped'
    BY <1>1, <1>2, <2>5, <2>10 DEF ConsoleTyped, ConsoleTypeOK
  <2>16. OneBody' /\ \A cancel \in cancels' : creator'[cancel.conversation] = cancel.by
    BY <1>2 DEF ConsoleInv, OneBody, Key
  <2> QED BY <2>7, <2>9, <2>14, <2>15, <2>16 DEF ConsoleInv
<1> QED
  <2>1. CASE ~(Done /\ UNCHANGED rows)
    <3> DEFINE r == [owner |-> op.session, conversation |-> op.conversation, body |-> FrozenBody,
                     readable |-> WasReadable, owned |-> op.old # Nothing /\ op.old.owned]
    <3>1. /\ MaySave(op.turn, r) /\ Save(op.turn, r)
          /\ op' = [at |-> "claim", session |-> op.session, turn |-> op.turn, old |-> op.old,
                    row |-> r, known |-> r.owned \/ Claimed(op.session, op.conversation)]
      BY <2>1 DEF Freeze
    <3> HIDE DEF r
    <3>2. r = [owner |-> op.session, conversation |-> op.conversation, body |-> FrozenBody,
               readable |-> WasReadable, owned |-> op.old # Nothing /\ op.old.owned]
      BY DEF r
    <3> QED BY <1>5, <3>1, <3>2
  <2> QED BY <1>4, <2>1

LEMMA PossibleWasSent ==
  ASSUME ConsoleInv, NEW c \in Conversations, NEW t \in Turns, Possible(c, t)
  PROVE  \E u \in sent : u.conversation = c /\ u.turn = t
<1>1. SentGood
  BY DEF ConsoleInv
<1>2. PICK b : [conversation |-> c, turn |-> t, body |-> b] \in sent
  <2>1. CASE accepted[<<c, t>>] # Nothing
    BY <1>1, <2>1 DEF SentGood
  <2>2. CASE \E b \in Bodies : [conversation |-> c, turn |-> t, body |-> b] \in late
    <3>1. PICK b \in Bodies : [conversation |-> c, turn |-> t, body |-> b] \in late
      BY <2>2
    <3>2. [conversation |-> c, turn |-> t, body |-> b] \in TurnRequest
      BY <3>1 DEF TurnRequest
    <3> QED BY <1>1, <3>1, <3>2 DEF SentGood
  <2> QED BY <2>1, <2>2 DEF Possible
<1> QED BY <1>2

LEMMA TheCall ==
  ASSUME ConsoleInv, op \in Admitting
  PROVE  /\ op.session \in Sessions /\ op.turn \in Turns /\ op.row \in Row
         /\ op.row.conversation \in Conversations /\ op.row.body \in Bodies
         /\ op.row.owner = op.session
         /\ op.row.readable \in BOOLEAN /\ op.row.owned \in BOOLEAN
         /\ op.old \in Row \cup {Nothing}
         /\ CallAdmits(op) /\ login[op.session] # "new"
         /\ WasReadable = WasReady(op) /\ WasReadable \in BOOLEAN
<1>1. CallAdmits(op) /\ login[op.session] # "new"
  BY OpKinds DEF ConsoleInv, CallGood
<1>2. op.session \in Sessions /\ op.turn \in Turns /\ op.row \in Row /\ op.old \in Row \cup {Nothing}
  BY DEF Admitting
<1>3. /\ op.row.conversation \in Conversations /\ op.row.body \in Bodies
      /\ op.row.readable \in BOOLEAN /\ op.row.owned \in BOOLEAN
  BY <1>2 DEF Row
<1>4. WasReadable = WasReady(op) /\ WasReadable \in BOOLEAN
  BY <1>2 DEF WasReadable, WasReady, Row
<1>5. op.row.owner = op.session
  BY <1>1 DEF CallAdmits
<1> QED BY <1>1, <1>2, <1>3, <1>4, <1>5

(* A call ends: what it stores of its row is readable when its turn may *)
(* have been taken. *)
LEMMA CallEnds ==
  ASSUME ConsoleAssumption, ConsoleInv, op \in Admitting, Done,
         NEW t, t = op.turn, NEW c, c = op.row.conversation, NEW r \in Row,
         SaveIfLive(t, r) \/ UNCHANGED rows,
         r.owner = op.row.owner, r.conversation = c,
         r.body = op.row.body, r.owned = op.row.owned, r.readable => r.owned,
         UNCHANGED <<login, context, creator, sent, cancels>>,
         awaited' \subseteq Turns,
         accepted' \in [Conversations \X Turns -> Bodies \cup {Nothing}],
         late' \subseteq CreateRequest \cup TurnRequest,
         \A x \in Conversations, y \in Turns : accepted'[<<x, y>>] # Nothing =>
           [conversation |-> x, turn |-> y, body |-> accepted'[<<x, y>>]] \in sent,
         \A q \in late' : q \in late \cup sent \/ (q \in CreateRequest /\ login[q.by] # "new"),
         \A x \in Conversations, y \in Turns : Possible(x, y)' =>
           Possible(x, y) \/ (x = c /\ y = t),
         Possible(c, t)' => Possible(c, t) \/ creator[c] = op.session,
         Live(op.session) /\ creator[c] = op.session /\ Possible(c, t)' =>
           r.readable /\ rows[t].readable
  PROVE  ConsoleInv'
<1>1. ConsoleTyped /\ RowsGood /\ SentGood /\ OneBody /\ ConsoleTypeOK
  BY DEF ConsoleInv, ConsoleTyped
<1>2. t \in Turns /\ c \in Conversations /\ op.session \in Sessions /\ CallAdmits(op)
      /\ r.owner = op.session
  BY TheCall
<1>3. /\ rows' \in [Turns -> Row \cup {Nothing}]
      /\ RowsGood' /\ KeptRows
      /\ \A u \in Turns \ {t} : rows'[u] = rows[u]
      /\ rows'[t] = rows[t] \/ (rows'[t] # Nothing /\ rows'[t].readable = r.readable)
  <2>1. CASE SaveIfLive(t, r)
    BY <1>2, <2>1, StoreAgain
  <2>2. CASE UNCHANGED rows
    BY <1>1, <2>2, RowsStay DEF ConsoleTypeOK
  <2> QED BY <2>1, <2>2
<1>4. ~Live(op.session) => rows' = rows
  BY <1>2 DEF SaveIfLive, MaySave
<1>5. ASSUME NEW u \in sent, Live(creator[u.conversation]), MayBeTaken(u)'
      PROVE  rows'[u.turn].readable
  <2>1. u.conversation \in Conversations /\ u.turn \in Turns
    BY <1>1 DEF ConsoleTypeOK, TurnRequest
  <2>2. /\ rows[u.turn].owner = creator[u.conversation]
        /\ rows[u.turn].conversation = u.conversation
        /\ Possible(u.conversation, u.turn) => rows[u.turn].readable
    BY <1>1, <1>5 DEF SentGood
  <2>3. Possible(u.conversation, u.turn)'
    BY <1>5 DEF MayBeTaken, Possible
  <2>4. CASE u.turn # t
    BY <1>3, <2>1, <2>2, <2>3, <2>4
  <2>5. CASE u.turn = t /\ Live(op.session)
    <3>1. rows[t].owner = op.session /\ rows[t].conversation = c
      BY <1>2, <2>5 DEF CallAdmits
    <3>2. u.conversation = c /\ creator[c] = op.session
      BY <2>2, <2>5, <3>1
    <3>3. Possible(c, t)'
      BY <2>3, <2>5, <3>2
    <3> QED BY <1>3, <2>5, <3>2, <3>3
  <2>6. CASE u.turn = t /\ ~Live(op.session)
    <3>1. rows' = rows
      BY <1>4, <2>6
    <3>2. CASE u.conversation = c
      <4>1. creator[c] # op.session
        BY <1>5, <2>6, <3>2
      <4>2. Possible(u.conversation, u.turn)
        BY <2>3, <2>6, <3>2, <4>1
      <4> QED BY <2>2, <3>1, <4>2
    <3>3. CASE u.conversation # c
      BY <2>1, <2>2, <2>3, <3>1, <3>3
    <3> QED BY <3>2, <3>3
  <2> QED BY <2>4, <2>5, <2>6
<1>6. SentGood'
  BY <1>3, <1>5, SentStays
<1>7. ConsoleTyped'
  BY <1>1, <1>3, DoneIsGood DEF ConsoleTyped, ConsoleTypeOK
<1>8. OneBody' /\ \A cancel \in cancels' : creator'[cancel.conversation] = cancel.by
  BY DEF ConsoleInv, OneBody, Key
<1> QED BY <1>3, <1>6, <1>7, <1>8, DoneIsGood DEF ConsoleInv

(* The row of the call, with another answer to whether it can be read. *)
LEMMA RowAgain ==
  ASSUME ConsoleAssumption, NEW row \in Row, NEW v \in BOOLEAN
  PROVE  \E r \in Row : /\ r = [row EXCEPT !.readable = v]
                        /\ r.owner = row.owner /\ r.conversation = row.conversation
                        /\ r.body = row.body /\ r.owned = row.owned /\ r.readable = v
<1>1. PICK r : r = [row EXCEPT !.readable = v]
  OBVIOUS
<1>2. /\ r \in Row
      /\ r.owner = row.owner /\ r.conversation = row.conversation
      /\ r.body = row.body /\ r.owned = row.owned /\ r.readable = v
  BY <1>1 DEF Row
<1> QED BY <1>1, <1>2

LEMMA AdmittingAt ==
  ASSUME ConsoleInv, op.at \in {"claim", "send", "sent"}
  PROVE  op \in Admitting
BY DEF ConsoleInv, ConsoleTyped, Asking, NoCall

LEMMA ClaimFailsKeeps ==
  ASSUME ConsoleAssumption, ConsoleInv, ClaimFails
  PROVE  ConsoleInv'
<1>1. op.at = "claim" /\ op \in Admitting /\ Done
      /\ UNCHANGED <<login, awaited, context, creator, accepted, sent, cancels>>
  BY AdmittingAt DEF ClaimFails, Chat
<1>2. PICK t, c : t = op.turn /\ c = op.row.conversation
  OBVIOUS
<1>3. /\ op.row \in Row /\ op.session \in Sessions /\ c \in Conversations /\ t \in Turns
      /\ login[op.session] # "new" /\ CallAdmits(op)
  BY <1>1, <1>2, TheCall
<1>4. ConsoleTypeOK /\ SentGood
  BY DEF ConsoleInv, ConsoleTyped
<1>5. \/ SaveIfLive(t, op.row) /\ UNCHANGED late
      \/ late' = late \cup {Creation} /\ UNCHANGED rows
  BY <1>2 DEF ClaimFails
<1>6. Creation \in CreateRequest /\ Creation.by = op.session
  BY <1>2, <1>3 DEF Creation, CreateRequest
<1>7. ASSUME NEW x \in Conversations, NEW y \in Turns, Possible(x, y)' PROVE Possible(x, y)
  <2>1. ASSUME NEW b \in Bodies PROVE [conversation |-> x, turn |-> y, body |-> b] # Creation
    BY <1>6, RequestsDiffer DEF TurnRequest
  <2> QED BY <1>1, <1>5, <1>7, <2>1 DEF Possible
<1>8. \A x \in Conversations, y \in Turns : accepted'[<<x, y>>] # Nothing =>
           [conversation |-> x, turn |-> y, body |-> accepted'[<<x, y>>]] \in sent
  BY <1>1, <1>4 DEF SentGood
<1>9. /\ late' \subseteq CreateRequest \cup TurnRequest
      /\ \A q \in late' : q \in late \cup sent \/ (q \in CreateRequest /\ login[q.by] # "new")
  BY <1>3, <1>4, <1>5, <1>6 DEF ConsoleTypeOK
<1>10. Live(op.session) /\ creator[c] = op.session /\ Possible(c, t)' =>
          op.row.readable /\ rows[t].readable
  <2> SUFFICES ASSUME Live(op.session), creator[c] = op.session, Possible(c, t)'
               PROVE  op.row.readable /\ rows[t].readable
    OBVIOUS
  <2>1. Possible(c, t)
    BY <1>3, <1>7
  <2>2. PICK u \in sent : u.conversation = c /\ u.turn = t
    BY <1>3, <2>1, PossibleWasSent
  <2>3. op.row.readable = WasReady(op) /\ rows[t].readable = WasReady(op)
    BY <1>1, <1>2, <1>3 DEF CallAdmits
  <2>4. rows[t].readable
    BY <1>4, <2>1, <2>2 DEF SentGood
  <2> QED BY <2>3, <2>4
<1>11. op.row.readable => op.row.owned
  BY <1>3 DEF CallAdmits
<1>12. awaited' \subseteq Turns /\ accepted' \in [Conversations \X Turns -> Bodies \cup {Nothing}]
  BY <1>1, <1>4 DEF ConsoleTypeOK
<1>13. SaveIfLive(t, op.row) \/ UNCHANGED rows
  BY <1>5
<1>14. PICK r : r = op.row
  OBVIOUS
<1> QED BY <1>1, <1>2, <1>3, <1>7, <1>8, <1>9, <1>10, <1>11, <1>12, <1>13, <1>14, CallEnds

LEMMA SendTurnKeeps ==
  ASSUME ConsoleAssumption, ConsoleInv, SendTurn
  PROVE  ConsoleInv'
<1>1. ConsoleTypeOK /\ SentGood /\ RowsGood /\ OneBody
  BY DEF ConsoleInv, ConsoleTyped
<1>2. op.at = "send" /\ op \in Admitting /\ op' = [op EXCEPT !.at = "sent"]
      /\ sent' = sent \cup {Request}
      /\ UNCHANGED <<login, rows, awaited, context, creator, accepted, late, cancels>>
  BY AdmittingAt DEF SendTurn, Chat
<1>3. PICK o, s, t, c, q : o = op /\ s = op.session /\ t = op.turn /\ c = op.row.conversation /\ q = Request
  OBVIOUS
<1>4. /\ s \in Sessions /\ t \in Turns /\ o.row \in Row /\ c \in Conversations
      /\ o.row.body \in Bodies /\ CallAdmits(o) /\ login[s] # "new" /\ o.at = "send" /\ o \in Admitting
  BY <1>2, <1>3, TheCall
<1>5. q \in TurnRequest /\ q.conversation = c /\ q.turn = t /\ q.body = o.row.body
  BY <1>3, <1>4 DEF Request, TurnRequest
<1>6. creator[c] = s /\ o.row.owned /\ o.row.owner = s
      /\ \A u \in sent : Key(u) = <<c, t>> => u.body = q.body
  BY <1>3, <1>4, <1>5 DEF CallAdmits
<1>7. Live(s) => /\ rows[t] # Nothing /\ rows[t].owner = s /\ rows[t].conversation = c
                 /\ rows[t].body = q.body /\ rows[t].readable
  BY <1>3, <1>4, <1>5 DEF CallAdmits
<1>8. Key(q) = <<c, t>>
  BY <1>5 DEF Key
<1>9. OneBody'
  <2>1. \A a, b \in sent \cup {q} : Key(a) = Key(b) => a.body = b.body
    BY <1>1, <1>6, <1>8 DEF OneBody
  <2> QED BY <1>2, <1>3, <2>1 DEF OneBody, Key
<1>10. \A x \in Conversations, y \in Turns : Possible(x, y)' = Possible(x, y)
  BY <1>2 DEF Possible
<1>11. SentGood'
  <2>1. ASSUME NEW u \in sent'
        PROVE  /\ creator[u.conversation] # Nothing
               /\ Live(creator[u.conversation]) =>
                    /\ rows[u.turn] # Nothing
                    /\ rows[u.turn].owner = creator[u.conversation]
                    /\ rows[u.turn].conversation = u.conversation
                    /\ rows[u.turn].body = u.body
                    /\ Possible(u.conversation, u.turn)' => rows[u.turn].readable
    <3>1. CASE u \in sent
      <4>1. u.conversation \in Conversations /\ u.turn \in Turns
        BY <1>1, <3>1 DEF ConsoleTypeOK, TurnRequest
      <4> QED BY <1>1, <1>10, <3>1, <4>1 DEF SentGood
    <3>2. CASE u = q
      <4>1. creator[c] # Nothing
        BY <1>4, <1>6 DEF ConsoleAssumption
      <4> QED BY <1>5, <1>6, <1>7, <3>2, <4>1
    <3> QED BY <1>2, <1>3, <2>1, <3>1, <3>2
  <2>2. \A x \in late' : (x \in TurnRequest => x \in sent') /\ (x \in CreateRequest => login'[x.by] # "new")
    BY <1>1, <1>2 DEF SentGood
  <2>3. \A x \in Conversations, y \in Turns : accepted'[<<x, y>>] # Nothing =>
           [conversation |-> x, turn |-> y, body |-> accepted'[<<x, y>>]] \in sent'
    BY <1>1, <1>2 DEF SentGood
  <2>4. \A x \in Conversations : creator'[x] # Nothing => login'[creator'[x]] # "new"
    BY <1>1, <1>2 DEF SentGood
  <2>5. \A u \in sent' :
        /\ creator'[u.conversation] # Nothing
        /\ Live(creator[u.conversation])' =>
             /\ rows'[u.turn] # Nothing
             /\ rows'[u.turn].owner = creator'[u.conversation]
             /\ rows'[u.turn].conversation = u.conversation
             /\ rows'[u.turn].body = u.body
             /\ Possible(u.conversation, u.turn)' => rows'[u.turn].readable
    BY <1>2, <2>1 DEF Live
  <2> QED BY <2>2, <2>3, <2>4, <2>5 DEF SentGood
<1>12. /\ op' \in Admitting /\ op'.session = s /\ op'.turn = t /\ op'.row = o.row
       /\ op'.old = o.old /\ op'.known = o.known /\ op'.at = "sent"
  BY <1>2, <1>3, <1>4 DEF Admitting
<1>13. CallAdmits(op)'
  <2> SUFFICES ASSUME NEW p, p = op' PROVE CallAdmits(p)'
    BY DEF CallAdmits, Live, Possible, WasReady
  <2>1. /\ p.session = s /\ p.turn = t /\ p.row = o.row
        /\ p.old = o.old /\ p.known = o.known /\ p.at = "sent" /\ WasReady(p) = WasReady(o)
    BY <1>12 DEF WasReady
  <2>2. \A u \in sent' : Key(u) = <<c, t>> => u.body = o.row.body
    BY <1>2, <1>3, <1>5, <1>6
  <2>3. Possible(c, t)' = Possible(c, t)
    BY <1>4, <1>10
  <2>4. c = o.row.conversation /\ s = o.session /\ t = o.turn
    BY <1>3
  <2>5. /\ o.row.owner = s /\ o.row.readable /\ o.row.owned
        /\ rows' = rows /\ login' = login /\ creator' = creator
        /\ Live(s) => (Possible(c, t) => WasReady(o))
    BY <1>2, <1>4, <1>6, <2>4 DEF CallAdmits
  <2>6. /\ p.row.owner = p.session /\ p.row.readable = TRUE /\ p.row.owned
        /\ creator'[p.row.conversation] = p.session
    BY <1>6, <2>1, <2>4, <2>5
  <2>7. Live(p.session)' =>
          /\ rows'[p.turn] # Nothing
          /\ rows'[p.turn].owner = p.session
          /\ rows'[p.turn].conversation = p.row.conversation
          /\ rows'[p.turn].body = p.row.body
          /\ rows'[p.turn].readable = TRUE
    <3>1. Live(p.session)' => Live(s)
      BY <2>1, <2>5 DEF Live
    <3>2. rows[t].readable \in BOOLEAN \/ rows[t] = Nothing
      BY <1>1, <1>4 DEF ConsoleTypeOK, Row
    <3> QED BY <1>5, <1>7, <2>1, <2>4, <2>5, <3>1, <3>2
  <2>8. Live(p.session)' => (Possible(p.row.conversation, p.turn)' => WasReady(p))
    <3>1. Live(p.session)' => Live(s)
      BY <2>1, <2>5 DEF Live
    <3>2. Possible(p.row.conversation, p.turn)' => Possible(c, t)
      BY <2>1, <2>3, <2>4
    <3> QED BY <2>1, <2>5, <3>1, <3>2
  <2>9. \A u \in sent' : Key(u) = <<p.row.conversation, p.turn>> => u.body = p.row.body
    BY <2>1, <2>2, <2>4
  <2>10. [conversation |-> p.row.conversation, turn |-> p.turn, body |-> p.row.body] \in sent'
    BY <1>2, <1>3, <2>1, <2>4 DEF Request
  <2> QED BY <2>1, <2>6, <2>7, <2>8, <2>9, <2>10 DEF CallAdmits, Key
<1>14. CallGood'
  BY <1>2, <1>4, <1>12, <1>13, OpKinds DEF CallGood
<1>15. ConsoleTyped'
  BY <1>1, <1>2, <1>3, <1>5, <1>12 DEF ConsoleTyped, ConsoleTypeOK
<1>16. RowsGood' /\ \A cancel \in cancels' : creator'[cancel.conversation] = cancel.by
  BY <1>1, <1>2 DEF RowsGood, Live, ConsoleInv
<1> QED BY <1>9, <1>11, <1>14, <1>15, <1>16 DEF ConsoleInv

(* After the claim: the row is owned, and can be read while the login *)
(* lives. *)
LEMMA TheTurn ==
  ASSUME ConsoleAssumption, ConsoleInv, op.at \in {"send", "sent"}
  PROVE  /\ op \in Admitting /\ op.row.owned /\ op.row.readable
         /\ creator[op.row.conversation] = op.session
         /\ op.at = "sent" => Request \in sent
         /\ Live(op.session) =>
              /\ rows[op.turn].readable
              /\ Possible(op.row.conversation, op.turn) => WasReady(op)
<1>1. op \in Admitting /\ CallAdmits(op)
  BY AdmittingAt, TheCall
<1> QED BY <1>1 DEF CallAdmits, Request

LEMMA NotSentKeeps ==
  ASSUME ConsoleAssumption, ConsoleInv, NotSent
  PROVE  ConsoleInv'
<1>1. op.at = "send" /\ op \in Admitting /\ Done
      /\ UNCHANGED <<login, context, creator, accepted, late, sent, cancels>>
      /\ awaited' = awaited \ {op.turn}
  BY AdmittingAt DEF NotSent, Chat, Answered
<1>2. PICK t, c : t = op.turn /\ c = op.row.conversation
  OBVIOUS
<1>3. /\ op.row \in Row /\ op.session \in Sessions /\ c \in Conversations /\ t \in Turns
      /\ WasReadable = WasReady(op) /\ WasReadable \in BOOLEAN
  BY <1>1, <1>2, TheCall
<1>4. ConsoleTypeOK /\ SentGood
  BY DEF ConsoleInv, ConsoleTyped
<1>5. PICK r \in Row : /\ r = [op.row EXCEPT !.readable = WasReadable]
                       /\ r.owner = op.row.owner /\ r.conversation = op.row.conversation
                       /\ r.body = op.row.body /\ r.owned = op.row.owned /\ r.readable = WasReadable
  BY <1>3, RowAgain
<1>6. SaveIfLive(t, r) \/ UNCHANGED rows
  BY <1>2, <1>5 DEF NotSent, PutBack
<1>7. \A x \in Conversations, y \in Turns : Possible(x, y)' => Possible(x, y)
  BY <1>1 DEF Possible
<1>8. \A x \in Conversations, y \in Turns : accepted'[<<x, y>>] # Nothing =>
           [conversation |-> x, turn |-> y, body |-> accepted'[<<x, y>>]] \in sent
  BY <1>1, <1>4 DEF SentGood
<1>9. /\ late' \subseteq CreateRequest \cup TurnRequest
      /\ \A q \in late' : q \in late \cup sent \/ (q \in CreateRequest /\ login[q.by] # "new")
  BY <1>1, <1>4 DEF ConsoleTypeOK
<1>10. Live(op.session) /\ creator[c] = op.session /\ Possible(c, t)' => r.readable /\ rows[t].readable
  BY <1>1, <1>2, <1>3, <1>5, <1>7, TheTurn
<1>11. r.readable => r.owned
  BY <1>1, <1>5, TheTurn
<1>12. awaited' \subseteq Turns /\ accepted' \in [Conversations \X Turns -> Bodies \cup {Nothing}]
  BY <1>1, <1>4 DEF ConsoleTypeOK
<1>13. /\ op \in Admitting /\ Done /\ t = op.turn /\ c = op.row.conversation
       /\ UNCHANGED <<login, context, creator, sent, cancels>>
       /\ r.owner = op.row.owner /\ r.conversation = c
       /\ r.body = op.row.body /\ r.owned = op.row.owned
  BY <1>1, <1>2, <1>5
<1>14. /\ \A x \in Conversations, y \in Turns : Possible(x, y)' => Possible(x, y) \/ (x = c /\ y = t)
       /\ Possible(c, t)' => Possible(c, t) \/ creator[c] = op.session
  BY <1>2, <1>3, <1>7
<1> QED BY ONLY ConsoleAssumption, ConsoleInv, <1>6, <1>8, <1>9, <1>10, <1>11, <1>12, <1>13, <1>14, CallEnds

LEMMA RefusesKeeps ==
  ASSUME ConsoleAssumption, ConsoleInv, Refuses
  PROVE  ConsoleInv'
<1>1. op.at = "sent" /\ op \in Admitting /\ Done
      /\ UNCHANGED <<login, context, creator, accepted, late, sent, cancels>>
      /\ awaited' = awaited \ {op.turn}
  BY AdmittingAt DEF Refuses, Chat, Answered
<1>2. PICK t, c : t = op.turn /\ c = op.row.conversation
  OBVIOUS
<1>3. /\ op.row \in Row /\ op.session \in Sessions /\ c \in Conversations /\ t \in Turns
      /\ WasReadable = WasReady(op) /\ WasReadable \in BOOLEAN
  BY <1>1, <1>2, TheCall
<1>4. ConsoleTypeOK /\ SentGood
  BY DEF ConsoleInv, ConsoleTyped
<1>5. PICK r \in Row : /\ r = [op.row EXCEPT !.readable = WasReadable]
                       /\ r.owner = op.row.owner /\ r.conversation = op.row.conversation
                       /\ r.body = op.row.body /\ r.owned = op.row.owned /\ r.readable = WasReadable
  BY <1>3, RowAgain
<1>6. SaveIfLive(t, r)
  BY <1>2, <1>5 DEF Refuses, PutBack
<1>7. \A x \in Conversations, y \in Turns : Possible(x, y)' => Possible(x, y)
  BY <1>1 DEF Possible
<1>8. \A x \in Conversations, y \in Turns : accepted'[<<x, y>>] # Nothing =>
           [conversation |-> x, turn |-> y, body |-> accepted'[<<x, y>>]] \in sent
  BY <1>1, <1>4 DEF SentGood
<1>9. /\ late' \subseteq CreateRequest \cup TurnRequest
      /\ \A q \in late' : q \in late \cup sent \/ (q \in CreateRequest /\ login[q.by] # "new")
  BY <1>1, <1>4 DEF ConsoleTypeOK
<1>10. Live(op.session) /\ creator[c] = op.session /\ Possible(c, t)' => r.readable /\ rows[t].readable
  BY <1>1, <1>2, <1>3, <1>5, <1>7, TheTurn
<1>11. r.readable => r.owned
  BY <1>1, <1>5, TheTurn
<1>12. awaited' \subseteq Turns /\ accepted' \in [Conversations \X Turns -> Bodies \cup {Nothing}]
  BY <1>1, <1>4 DEF ConsoleTypeOK
<1> QED BY <1>1, <1>2, <1>3, <1>5, <1>6, <1>7, <1>8, <1>9, <1>10, <1>11, <1>12, CallEnds

LEMMA NoAnswerKeeps ==
  ASSUME ConsoleAssumption, ConsoleInv, NoAnswer
  PROVE  ConsoleInv'
<1>1. op.at = "sent" /\ op \in Admitting /\ Done
      /\ UNCHANGED <<login, context, creator, accepted, sent, cancels>>
      /\ awaited' = awaited \ {op.turn} /\ late' = late \cup {Request}
  BY AdmittingAt DEF NoAnswer, Chat, Answered
<1>2. PICK t, c : t = op.turn /\ c = op.row.conversation
  OBVIOUS
<1>3. /\ op.row \in Row /\ op.session \in Sessions /\ c \in Conversations /\ t \in Turns
      /\ op.row.body \in Bodies
  BY <1>1, <1>2, TheCall
<1>4. ConsoleTypeOK /\ SentGood
  BY DEF ConsoleInv, ConsoleTyped
<1>5. PICK r \in Row : /\ r = [op.row EXCEPT !.readable = TRUE]
                       /\ r.owner = op.row.owner /\ r.conversation = op.row.conversation
                       /\ r.body = op.row.body /\ r.owned = op.row.owned /\ r.readable = TRUE
  BY <1>3, RowAgain
<1>6. SaveIfLive(t, r)
  BY <1>2, <1>5 DEF NoAnswer, Unsure
<1>7. Request = [conversation |-> c, turn |-> t, body |-> op.row.body] /\ Request \in sent
      /\ op.row.owned /\ creator[c] = op.session /\ (Live(op.session) => rows[t].readable)
  BY <1>1, <1>2, TheTurn DEF Request
<1>8. ASSUME NEW x \in Conversations, NEW y \in Turns, Possible(x, y)'
      PROVE  Possible(x, y) \/ (x = c /\ y = t)
  <2>1. ASSUME NEW b \in Bodies, [conversation |-> x, turn |-> y, body |-> b] = Request
        PROVE  x = c /\ y = t
    BY <1>7, <2>1
  <2> QED BY <1>1, <1>8, <2>1 DEF Possible
<1>9. \A x \in Conversations, y \in Turns : accepted'[<<x, y>>] # Nothing =>
           [conversation |-> x, turn |-> y, body |-> accepted'[<<x, y>>]] \in sent
  BY <1>1, <1>4 DEF SentGood
<1>10. /\ late' \subseteq CreateRequest \cup TurnRequest
       /\ \A q \in late' : q \in late \cup sent \/ (q \in CreateRequest /\ login[q.by] # "new")
  BY <1>1, <1>4, <1>7 DEF ConsoleTypeOK
<1>11. awaited' \subseteq Turns /\ accepted' \in [Conversations \X Turns -> Bodies \cup {Nothing}]
  BY <1>1, <1>4 DEF ConsoleTypeOK
<1>12. /\ Possible(c, t)' => Possible(c, t) \/ creator[c] = op.session
       /\ Live(op.session) /\ creator[c] = op.session /\ Possible(c, t)' => r.readable /\ rows[t].readable
       /\ r.readable => r.owned
       /\ SaveIfLive(t, r) \/ UNCHANGED rows
  BY <1>5, <1>6, <1>7
<1>13. /\ UNCHANGED <<login, context, creator, sent, cancels>> /\ r \in Row
       /\ r.owner = op.row.owner /\ r.conversation = c /\ r.body = op.row.body /\ r.owned = op.row.owned
  BY <1>1, <1>2, <1>5
<1> QED BY <1>1, <1>2, <1>8, <1>9, <1>10, <1>11, <1>12, <1>13, CallEnds

(* Chat takes a turn that was sent. *)
LEMMA TakesSent ==
  ASSUME ConsoleAssumption, ConsoleInv, NEW q \in sent, Takes(q)
  PROVE  /\ accepted' \in [Conversations \X Turns -> Bodies \cup {Nothing}]
         /\ \A x \in Conversations, y \in Turns : accepted'[<<x, y>>] # Nothing =>
              [conversation |-> x, turn |-> y, body |-> accepted'[<<x, y>>]] \in sent
         /\ \A x \in Conversations, y \in Turns : accepted'[<<x, y>>] # Nothing =>
              accepted[<<x, y>>] # Nothing \/ (x = q.conversation /\ y = q.turn)
<1>1. ConsoleTypeOK /\ SentGood
  BY DEF ConsoleInv, ConsoleTyped
<1>2. q \in TurnRequest /\ q.conversation \in Conversations /\ q.turn \in Turns /\ q.body \in Bodies
      /\ q = [conversation |-> q.conversation, turn |-> q.turn, body |-> q.body]
  BY <1>1 DEF ConsoleTypeOK, TurnRequest
<1>3. PICK c, t, b : c = q.conversation /\ t = q.turn /\ b = q.body
  OBVIOUS
<1>4. /\ accepted' = [accepted EXCEPT ![<<c, t>>] = b]
      /\ c \in Conversations /\ t \in Turns /\ b \in Bodies
      /\ [conversation |-> c, turn |-> t, body |-> b] \in sent
  BY <1>2, <1>3 DEF Takes, Key
<1>5. <<c, t>> \in Conversations \X Turns
  BY <1>4
<1>6. accepted' \in [Conversations \X Turns -> Bodies \cup {Nothing}]
  BY <1>1, <1>4, <1>5 DEF ConsoleTypeOK
<1>7. ASSUME NEW x \in Conversations, NEW y \in Turns
      PROVE  \/ x = c /\ y = t /\ accepted'[<<x, y>>] = b
             \/ ~(x = c /\ y = t) /\ accepted'[<<x, y>>] = accepted[<<x, y>>]
  BY <1>1, <1>4, <1>5 DEF ConsoleTypeOK
<1>8. \A x \in Conversations, y \in Turns : accepted[<<x, y>>] # Nothing =>
           [conversation |-> x, turn |-> y, body |-> accepted[<<x, y>>]] \in sent
  BY <1>1 DEF SentGood
<1>9. ASSUME NEW x \in Conversations, NEW y \in Turns, accepted'[<<x, y>>] # Nothing
      PROVE  [conversation |-> x, turn |-> y, body |-> accepted'[<<x, y>>]] \in sent
  <2>1. CASE x = c /\ y = t /\ accepted'[<<x, y>>] = b
    BY <1>4, <2>1
  <2>2. CASE accepted'[<<x, y>>] = accepted[<<x, y>>]
    BY <1>8, <1>9, <2>2
  <2> QED BY <1>7, <2>1, <2>2
<1> QED BY <1>3, <1>6, <1>7, <1>9

LEMMA AcceptsKeeps ==
  ASSUME ConsoleAssumption, ConsoleInv, Accepts
  PROVE  ConsoleInv'
<1>1. op.at = "sent" /\ op \in Admitting /\ Done
      /\ UNCHANGED <<login, context, creator, late, sent, cancels>>
      /\ awaited' = awaited \ {op.turn} /\ Takes(Request) /\ SaveIfLive(op.turn, op.row)
  BY AdmittingAt DEF Accepts, Chat, Answered
<1>2. PICK t, c, r : t = op.turn /\ c = op.row.conversation /\ r = op.row
  OBVIOUS
<1>3. /\ r \in Row /\ op.session \in Sessions /\ c \in Conversations /\ t \in Turns
  BY <1>1, <1>2, TheCall
<1>4. ConsoleTypeOK /\ SentGood
  BY DEF ConsoleInv, ConsoleTyped
<1>5. PICK q : q = Request
  OBVIOUS
<1>6. /\ q = [conversation |-> c, turn |-> t, body |-> op.row.body] /\ q \in sent
      /\ op.row.owned /\ op.row.readable /\ creator[c] = op.session
      /\ (Live(op.session) => rows[t].readable)
  BY <1>1, <1>2, <1>5, TheTurn DEF Request
<1>7. /\ accepted' \in [Conversations \X Turns -> Bodies \cup {Nothing}]
      /\ \A x \in Conversations, y \in Turns : accepted'[<<x, y>>] # Nothing =>
           [conversation |-> x, turn |-> y, body |-> accepted'[<<x, y>>]] \in sent
      /\ \A x \in Conversations, y \in Turns : accepted'[<<x, y>>] # Nothing =>
           accepted[<<x, y>>] # Nothing \/ (x = c /\ y = t)
  <2>1. Takes(q)
    BY <1>1, <1>5
  <2>2. q.conversation = c /\ q.turn = t
    BY <1>6
  <2> QED BY <1>6, <2>1, <2>2, TakesSent
<1>8. \A x \in Conversations, y \in Turns : Possible(x, y)' => Possible(x, y) \/ (x = c /\ y = t)
  BY <1>1, <1>7 DEF Possible
<1>9. /\ late' \subseteq CreateRequest \cup TurnRequest
      /\ \A x \in late' : x \in late \cup sent \/ (x \in CreateRequest /\ login[x.by] # "new")
  BY <1>1, <1>4 DEF ConsoleTypeOK
<1>10. awaited' \subseteq Turns
  BY <1>1, <1>4 DEF ConsoleTypeOK
<1>11. SaveIfLive(t, r)
  BY <1>1, <1>2
<1>12. /\ Possible(c, t)' => Possible(c, t) \/ creator[c] = op.session
       /\ Live(op.session) /\ creator[c] = op.session /\ Possible(c, t)' => r.readable /\ rows[t].readable
       /\ r.readable => r.owned
       /\ SaveIfLive(t, r) \/ UNCHANGED rows
  BY <1>2, <1>6, <1>11
<1>13. /\ UNCHANGED <<login, context, creator, sent, cancels>>
       /\ r.owner = op.row.owner /\ r.conversation = c /\ r.body = op.row.body /\ r.owned = op.row.owned
  BY <1>1, <1>2
<1> QED BY <1>1, <1>2, <1>3, <1>7, <1>8, <1>9, <1>10, <1>12, <1>13, CallEnds

LEMMA StopConsoleKeeps ==
  ASSUME ConsoleAssumption, ConsoleInv, StopConsole
  PROVE  ConsoleInv'
<1>1. op # NoCall /\ Done /\ awaited' = {}
      /\ UNCHANGED <<login, rows, context, creator, accepted, sent, cancels>>
      /\ late' = late \cup (IF op.at = "claim" THEN {Creation}
                            ELSE IF op.at = "sent" THEN {Request} ELSE {})
  BY DEF StopConsole, Chat
<1>2. ConsoleTypeOK /\ SentGood /\ ConsoleTyped
  BY DEF ConsoleInv, ConsoleTyped
<1>3. CASE op \notin Admitting
  <2>1. late' = late
    BY <1>1, <1>3, AdmittingAt
  <2>2. ConsoleTyped'
    BY <1>1, <1>2, <2>1, DoneIsGood DEF ConsoleTyped, ConsoleTypeOK
  <2> QED BY <1>1, <2>1, <2>2, DoneIsGood, RestStays DEF ConsoleInv
<1>4. CASE op \in Admitting
  <2>1. PICK t, c, r : t = op.turn /\ c = op.row.conversation /\ r = op.row
    OBVIOUS
  <2>2. /\ r \in Row /\ op.session \in Sessions /\ c \in Conversations /\ t \in Turns
        /\ login[op.session] # "new" /\ (r.readable => r.owned)
    BY <1>4, <2>1, TheCall DEF CallAdmits
  <2>3. Creation \in CreateRequest /\ Creation.by = op.session
    BY <2>1, <2>2 DEF Creation, CreateRequest
  <2>4. op.at = "sent" =>
          /\ Request = [conversation |-> c, turn |-> t, body |-> op.row.body] /\ Request \in sent
          /\ creator[c] = op.session
          /\ r.readable /\ (Live(op.session) => rows[t].readable)
    BY <2>1, TheTurn DEF Request
  <2>5. ASSUME NEW x \in Conversations, NEW y \in Turns, Possible(x, y)'
        PROVE  Possible(x, y) \/ (op.at = "sent" /\ x = c /\ y = t)
    <3>1. ASSUME NEW b \in Bodies PROVE [conversation |-> x, turn |-> y, body |-> b] # Creation
      BY <2>3, RequestsDiffer DEF TurnRequest
    <3>2. ASSUME NEW b \in Bodies, op.at = "sent", [conversation |-> x, turn |-> y, body |-> b] = Request
          PROVE  x = c /\ y = t
      BY <2>4, <3>2
    <3>3. CASE accepted[<<x, y>>] # Nothing
      BY <3>3 DEF Possible
    <3>4. CASE accepted[<<x, y>>] = Nothing
      <4>1. PICK b \in Bodies : [conversation |-> x, turn |-> y, body |-> b] \in late'
        BY <1>1, <2>5, <3>4 DEF Possible
      <4>2. CASE [conversation |-> x, turn |-> y, body |-> b] \in late
        BY <4>1, <4>2 DEF Possible
      <4>3. CASE [conversation |-> x, turn |-> y, body |-> b] \notin late
        <5>1. op.at = "sent" /\ [conversation |-> x, turn |-> y, body |-> b] = Request
          BY <1>1, <3>1, <4>1, <4>3
        <5> QED BY <3>2, <4>1, <5>1
      <4> QED BY <4>2, <4>3
    <3> QED BY <3>3, <3>4
  <2>6. \A x \in Conversations, y \in Turns : accepted'[<<x, y>>] # Nothing =>
           [conversation |-> x, turn |-> y, body |-> accepted'[<<x, y>>]] \in sent
    BY <1>1, <1>2 DEF SentGood
  <2>7. /\ late' \subseteq CreateRequest \cup TurnRequest
        /\ \A q \in late' : q \in late \cup sent \/ (q \in CreateRequest /\ login[q.by] # "new")
    BY <1>1, <1>2, <2>2, <2>3, <2>4 DEF ConsoleTypeOK
  <2>8. Live(op.session) /\ creator[c] = op.session /\ Possible(c, t)' => r.readable /\ rows[t].readable
    <3> SUFFICES ASSUME Live(op.session), creator[c] = op.session, Possible(c, t)'
                 PROVE  r.readable /\ rows[t].readable
      OBVIOUS
    <3>1. CASE op.at = "sent"
      BY <2>4, <3>1
    <3>2. CASE op.at # "sent"
      <4>1. Possible(c, t)
        BY <2>2, <2>5, <3>2
      <4>2. CallAdmits(op)
        BY <1>4, TheCall
      <4> QED BY <2>1, <4>1, <4>2 DEF CallAdmits
    <3> QED BY <3>1, <3>2
  <2>9. awaited' \subseteq Turns /\ accepted' \in [Conversations \X Turns -> Bodies \cup {Nothing}]
    BY <1>1, <1>2 DEF ConsoleTypeOK
  <2>10. Possible(c, t)' => Possible(c, t) \/ creator[c] = op.session
    BY <2>2, <2>4, <2>5
  <2>11. \A x \in Conversations, y \in Turns : Possible(x, y)' => Possible(x, y) \/ (x = c /\ y = t)
    BY <2>5
  <2> QED BY <1>1, <1>4, <2>1, <2>2, <2>6, <2>7, <2>8, <2>9, <2>10, <2>11, CallEnds
<1> QED BY <1>3, <1>4

LEMMA LateArrivesKeeps ==
  ASSUME ConsoleAssumption, ConsoleInv, LateArrives
  PROVE  ConsoleInv'
<1>1. PICK q \in late :
        /\ late' = late \ {q}
        /\ \/ q \in CreateRequest /\ Received(q) /\ UNCHANGED accepted
           \/ q \in TurnRequest /\ Takes(q) /\ UNCHANGED creator
           \/ UNCHANGED Chat
        /\ UNCHANGED <<login, rows, op, awaited, context, sent, cancels>>
  BY DEF LateArrives
<1>2. ConsoleTypeOK /\ SentGood /\ ConsoleTyped /\ RowsGood /\ CallGood /\ OneBody
  BY DEF ConsoleInv, ConsoleTyped
<1>3. /\ q \in TurnRequest => q \in sent
      /\ q \in CreateRequest => login[q.by] # "new" /\ q.by \in Sessions /\ q.conversation \in Conversations
  BY <1>1, <1>2 DEF SentGood, CreateRequest
<1>4. \A x \in Conversations : creator[x] # Nothing => creator'[x] = creator[x]
  BY <1>1, <1>2 DEF Received, Chat, ConsoleTypeOK
<1>5. /\ creator' \in [Conversations -> Sessions \cup {Nothing}]
      /\ \A x \in Conversations : creator'[x] # Nothing => login[creator'[x]] # "new"
  <2>1. CASE UNCHANGED creator
    BY <1>2, <2>1 DEF SentGood, ConsoleTypeOK
  <2>2. CASE q \in CreateRequest /\ Received(q)
    <3>1. \/ creator' = creator
          \/ creator' = [creator EXCEPT ![q.conversation] = q.by]
      BY <2>2 DEF Received
    <3> QED BY <1>2, <1>3, <2>2, <3>1 DEF SentGood, ConsoleTypeOK
  <2> QED BY <1>1, <2>1, <2>2 DEF Chat
<1>6. /\ accepted' \in [Conversations \X Turns -> Bodies \cup {Nothing}]
      /\ \A x \in Conversations, y \in Turns : accepted'[<<x, y>>] # Nothing =>
           [conversation |-> x, turn |-> y, body |-> accepted'[<<x, y>>]] \in sent
      /\ \A x \in Conversations, y \in Turns : accepted'[<<x, y>>] # Nothing => Possible(x, y)
  <2>1. CASE UNCHANGED accepted
    BY <1>2, <2>1 DEF SentGood, ConsoleTypeOK, Possible
  <2>2. CASE q \in TurnRequest /\ Takes(q)
    <3>1. q \in sent /\ q = [conversation |-> q.conversation, turn |-> q.turn, body |-> q.body]
          /\ q.body \in Bodies
      BY <1>3, <2>2 DEF TurnRequest
    <3>2. /\ accepted' \in [Conversations \X Turns -> Bodies \cup {Nothing}]
          /\ \A x \in Conversations, y \in Turns : accepted'[<<x, y>>] # Nothing =>
               [conversation |-> x, turn |-> y, body |-> accepted'[<<x, y>>]] \in sent
          /\ \A x \in Conversations, y \in Turns : accepted'[<<x, y>>] # Nothing =>
               accepted[<<x, y>>] # Nothing \/ (x = q.conversation /\ y = q.turn)
      BY <2>2, <3>1, TakesSent
    <3>3. ASSUME NEW x \in Conversations, NEW y \in Turns, accepted'[<<x, y>>] # Nothing
          PROVE  Possible(x, y)
      <4>1. CASE accepted[<<x, y>>] # Nothing
        BY <4>1 DEF Possible
      <4>2. CASE x = q.conversation /\ y = q.turn
        <5>1. [conversation |-> x, turn |-> y, body |-> q.body] \in late
          BY <1>1, <3>1, <4>2
        <5> QED BY <3>1, <5>1 DEF Possible
      <4> QED BY <3>2, <3>3, <4>1, <4>2
    <3> QED BY <3>2, <3>3
  <2> QED BY <1>1, <2>1, <2>2 DEF Chat
<1>7. ASSUME NEW x \in Conversations, NEW y \in Turns, Possible(x, y)' PROVE Possible(x, y)
  <2>1. CASE accepted'[<<x, y>>] # Nothing
    BY <1>6, <2>1
  <2>2. CASE \E b \in Bodies : [conversation |-> x, turn |-> y, body |-> b] \in late'
    BY <1>1, <2>2 DEF Possible
  <2> QED BY <1>7, <2>1, <2>2 DEF Possible
<1>8. ConsoleTyped'
  BY <1>1, <1>2, <1>5, <1>6 DEF ConsoleTyped, ConsoleTypeOK
<1>9. OneBody'
  BY <1>1, <1>2 DEF OneBody, Key
<1>10. \A s \in Sessions : s # Nothing
  BY DEF ConsoleAssumption
<1>11. RowsGood'
  <2>1. \A t \in Turns : rows[t] # Nothing => rows[t].owner \in Sessions /\ rows[t].conversation \in Conversations
    BY <1>2 DEF ConsoleTypeOK, Row
  <2>2. \A t \in Turns : rows[t] # Nothing /\ rows[t].owned => creator'[rows[t].conversation] = rows[t].owner
    BY <1>2, <1>4, <1>10, <2>1 DEF RowsGood
  <2> QED BY <1>1, <1>2, <2>2 DEF RowsGood, Live
<1>12. \A x \in cancels : creator'[x.conversation] = x.by
  <2>1. \A x \in cancels : x.conversation \in Conversations /\ x.by \in Sessions
    BY <1>2 DEF ConsoleTypeOK, CreateRequest
  <2> QED BY <1>4, <1>10, <2>1 DEF ConsoleInv
<1>13. SentGood'
  <2>1. ASSUME NEW u \in sent
        PROVE  /\ creator'[u.conversation] # Nothing
               /\ Live(creator'[u.conversation]) =>
                    /\ rows[u.turn] # Nothing
                    /\ rows[u.turn].owner = creator'[u.conversation]
                    /\ rows[u.turn].conversation = u.conversation
                    /\ rows[u.turn].body = u.body
                    /\ Possible(u.conversation, u.turn)' => rows[u.turn].readable
    <3>1. u.conversation \in Conversations /\ u.turn \in Turns /\ creator[u.conversation] # Nothing
      BY <1>2 DEF ConsoleTypeOK, TurnRequest, SentGood
    <3>2. creator'[u.conversation] = creator[u.conversation]
      BY <1>4, <3>1
    <3>3. Possible(u.conversation, u.turn)' => Possible(u.conversation, u.turn)
      BY <1>7, <3>1
    <3> QED BY <1>2, <3>1, <3>2, <3>3 DEF SentGood
  <2>2. \A x \in late' : (x \in TurnRequest => x \in sent) /\ (x \in CreateRequest => login[x.by] # "new")
    BY <1>1, <1>2 DEF SentGood
  <2>3. \A u \in sent' :
        /\ creator'[u.conversation] # Nothing
        /\ Live(creator[u.conversation])' =>
             /\ rows'[u.turn] # Nothing
             /\ rows'[u.turn].owner = creator'[u.conversation]
             /\ rows'[u.turn].conversation = u.conversation
             /\ rows'[u.turn].body = u.body
             /\ Possible(u.conversation, u.turn)' => rows'[u.turn].readable
    BY <1>1, <2>1 DEF Live
  <2> QED BY <1>1, <1>5, <1>6, <2>2, <2>3 DEF SentGood
<1>14. CallGood'
  <2>1. op' # NoCall => login'[op'.session] # "new"
    BY <1>1, <1>2 DEF CallGood
  <2>2. ASSUME op' \in Asking PROVE CallAsks(op)'
    BY <1>1, <1>2, <2>2 DEF CallGood, CallAsks, Live
  <2>3. ASSUME op' \in Admitting PROVE CallAdmits(op)'
    <3> SUFFICES ASSUME NEW o, o = op PROVE CallAdmits(o)'
      BY <1>1 DEF CallAdmits, Live, Possible, WasReady
    <3>1. o \in Admitting /\ CallAdmits(o)
      BY <1>1, <1>2, <2>3 DEF CallGood
    <3>2. PICK c, t, s : c = o.row.conversation /\ t = o.turn /\ s = o.session
      OBVIOUS
    <3>3. c \in Conversations /\ t \in Turns /\ s \in Sessions
      BY <3>1, <3>2 DEF Admitting, Row
    <3>4. /\ rows' = rows /\ login' = login /\ sent' = sent
          /\ Possible(c, t)' => Possible(c, t)
      BY <1>1, <1>7, <3>3
    <3>5. creator[c] = s => creator'[c] = s
      BY <1>4, <1>10, <3>3
    <3>6. Possible(c, t) /\ creator'[c] = s => creator[c] = s
      <4> SUFFICES ASSUME Possible(c, t), creator'[c] = s PROVE creator[c] = s
        OBVIOUS
      <4>1. PICK u \in sent : u.conversation = c /\ u.turn = t
        BY <3>3, PossibleWasSent
      <4>2. creator[c] # Nothing
        BY <1>2, <4>1 DEF SentGood
      <4> QED BY <1>4, <3>3, <4>2
    <3>7. Live(o.session)' = Live(o.session)
      BY <3>4 DEF Live
    <3> QED BY <3>1, <3>2, <3>4, <3>5, <3>6, <3>7 DEF CallAdmits
  <2> QED BY <2>1, <2>2, <2>3 DEF CallGood
<1> QED BY <1>1, <1>8, <1>9, <1>11, <1>12, <1>13, <1>14 DEF ConsoleInv

LEMMA ClaimKeeps ==
  ASSUME ConsoleAssumption, ConsoleInv, Claim
  PROVE  ConsoleInv'
<1>1. op.at = "claim" /\ op \in Admitting /\ Received(Creation)
      /\ UNCHANGED <<login, context, accepted, late, sent, cancels>>
  BY AdmittingAt DEF Claim
<1>2. ConsoleTypeOK /\ SentGood /\ ConsoleTyped /\ RowsGood /\ CallGood /\ OneBody
  BY DEF ConsoleInv, ConsoleTyped
<1>3. PICK o, s, t, c, r : o = op /\ s = op.session /\ t = op.turn /\ c = op.row.conversation
                           /\ r = [op.row EXCEPT !.owned = TRUE, !.readable = TRUE]
  OBVIOUS
<1>4. /\ s \in Sessions /\ t \in Turns /\ o.row \in Row /\ c \in Conversations /\ o \in Admitting
      /\ o.row.owner = s /\ CallAdmits(o) /\ login[s] # "new" /\ o.at = "claim" /\ s # Nothing
  BY <1>1, <1>3, TheCall DEF ConsoleAssumption
<1>5. /\ r \in Row /\ r.owner = s /\ r.conversation = c /\ r.body = o.row.body
      /\ r.owned = TRUE /\ r.readable = TRUE
  BY <1>3, <1>4 DEF Row
<1>6. creator' = IF creator[c] = Nothing THEN [creator EXCEPT ![c] = s] ELSE creator
  BY <1>1, <1>3 DEF Received, Creation
<1>7. /\ creator' \in [Conversations -> Sessions \cup {Nothing}]
      /\ \A x \in Conversations : creator[x] # Nothing => creator'[x] = creator[x]
      /\ \A x \in Conversations : creator'[x] # Nothing => login[creator'[x]] # "new"
  BY <1>2, <1>4, <1>6 DEF SentGood, ConsoleTypeOK
<1>8. \A x \in Sessions : x # Nothing
  BY DEF ConsoleAssumption
<1>9. \A x \in cancels' : creator'[x.conversation] = x.by
  <2>1. \A x \in cancels : x.conversation \in Conversations /\ x.by \in Sessions
    BY <1>2 DEF ConsoleTypeOK, CreateRequest
  <2>2. \A x \in cancels : creator'[x.conversation] = x.by
    BY <1>7, <1>8, <2>1 DEF ConsoleInv
  <2> QED BY <1>1, <2>2
<1>10. OneBody'
  BY <1>1, <1>2 DEF OneBody, Key
<1>11. \A x \in Conversations, y \in Turns : Possible(x, y)' = Possible(x, y)
  BY <1>1 DEF Possible
<1>12. \A t1 \in Turns : rows[t1] # Nothing =>
          /\ login[rows[t1].owner] = "live"
          /\ rows[t1].owned => creator'[rows[t1].conversation] = rows[t1].owner
          /\ rows[t1].readable => rows[t1].owned
  <2>1. \A u \in Turns : rows[u] # Nothing => rows[u].owner \in Sessions /\ rows[u].conversation \in Conversations
    BY <1>2 DEF ConsoleTypeOK, Row
  <2> QED BY <1>2, <1>7, <1>8, <2>1 DEF RowsGood, Live
(* What was sent stays as it was, if no row loses anything. *)
<1>13. ASSUME KeptRows, \A u \in Turns : rows[u] # Nothing /\ rows[u].readable => rows'[u].readable
       PROVE  SentGood'
  <2>1. ASSUME NEW u \in sent
        PROVE  /\ creator'[u.conversation] # Nothing
               /\ Live(creator'[u.conversation]) =>
                    /\ rows'[u.turn] # Nothing
                    /\ rows'[u.turn].owner = creator'[u.conversation]
                    /\ rows'[u.turn].conversation = u.conversation
                    /\ rows'[u.turn].body = u.body
                    /\ Possible(u.conversation, u.turn)' => rows'[u.turn].readable
    <3>1. u.conversation \in Conversations /\ u.turn \in Turns /\ creator[u.conversation] # Nothing
      BY <1>2 DEF ConsoleTypeOK, TurnRequest, SentGood
    <3>2. creator'[u.conversation] = creator[u.conversation]
      BY <1>7, <3>1
    <3>3. Possible(u.conversation, u.turn)' => Possible(u.conversation, u.turn)
      BY <1>11, <3>1
    <3>4. Live(creator[u.conversation]) =>
                    /\ rows[u.turn] # Nothing
                    /\ rows[u.turn].owner = creator[u.conversation]
                    /\ rows[u.turn].conversation = u.conversation
                    /\ rows[u.turn].body = u.body
                    /\ Possible(u.conversation, u.turn) => rows[u.turn].readable
      BY <1>2 DEF SentGood
    <3> QED BY <1>13, <3>1, <3>2, <3>3, <3>4 DEF KeptRows
  <2>2. \A x \in late' : (x \in TurnRequest => x \in sent) /\ (x \in CreateRequest => login[x.by] # "new")
    BY <1>1, <1>2 DEF SentGood
  <2>3. \A u \in sent' :
        /\ creator'[u.conversation] # Nothing
        /\ Live(creator[u.conversation])' =>
             /\ rows'[u.turn] # Nothing
             /\ rows'[u.turn].owner = creator'[u.conversation]
             /\ rows'[u.turn].conversation = u.conversation
             /\ rows'[u.turn].body = u.body
             /\ Possible(u.conversation, u.turn)' => rows'[u.turn].readable
    BY <1>1, <2>1 DEF Live
  <2>4. \A x \in Conversations, y \in Turns : accepted'[<<x, y>>] # Nothing =>
           [conversation |-> x, turn |-> y, body |-> accepted'[<<x, y>>]] \in sent
    BY <1>1, <1>2 DEF SentGood
  <2> QED BY <1>1, <1>7, <2>2, <2>3, <2>4 DEF SentGood
<1>14. CASE ~(Mine /\ MaySave(t, r))
  <2>1. Done /\ UNCHANGED <<rows, awaited>>
    BY <1>3, <1>14 DEF Claim
  <2>2. KeptRows /\ \A u \in Turns : rows[u] # Nothing /\ rows[u].readable => rows'[u].readable
    BY <2>1 DEF KeptRows
  <2>3. RowsGood'
    BY <1>1, <1>12, <2>1 DEF RowsGood, Live
  <2>4. ConsoleTyped'
    BY <1>1, <1>2, <1>7, <2>1, DoneIsGood DEF ConsoleTyped, ConsoleTypeOK
  <2> QED BY <1>9, <1>10, <1>13, <2>1, <2>2, <2>3, <2>4, DoneIsGood DEF ConsoleInv
<1>15. CASE Mine /\ MaySave(t, r)
  <2>1. /\ Save(t, r) /\ op' = [op EXCEPT !.at = "send", !.row = r]
        /\ awaited' = IF WasReadable THEN awaited ELSE awaited \cup {op.turn}
    BY <1>3, <1>15 DEF Claim
  <2>2. creator[c] = Nothing \/ creator[c] = s
    <3>1. creator[c] = Nothing \/ o.known
      BY <1>3, <1>15 DEF Mine
    <3> QED BY <1>3, <1>4, <3>1 DEF CallAdmits
  <2>3. creator'[c] = s
    BY <1>2, <1>4, <1>6, <2>2 DEF ConsoleTypeOK
  <2>4. Live(s)
    BY <1>5, <1>15 DEF MaySave
  <2>5. /\ rows[t] # Nothing /\ rows[t].owner = s /\ rows[t].conversation = c
        /\ rows[t].body = r.body
        /\ creator[c] = s => (Possible(c, t) => WasReady(o))
    BY <1>3, <1>4, <1>5, <2>4 DEF CallAdmits
  <2>6. /\ rows' \in [Turns -> Row \cup {Nothing}]
        /\ rows'[t] # Nothing
        /\ rows'[t].owner = s /\ rows'[t].conversation = c
        /\ rows'[t].body = r.body /\ rows'[t].readable = TRUE
        /\ rows'[t].owned
        /\ \A u \in Turns \ {t} : rows'[u] = rows[u]
    BY <1>2, <1>4, <1>5, <2>1, SaveWrites
  <2>7. KeptRows /\ \A u \in Turns : rows[u] # Nothing /\ rows[u].readable => rows'[u].readable
    <3>1. \A u \in Turns : rows[u] # Nothing /\ rows[u].readable => rows'[u].readable
      BY <2>6
    <3> QED BY <2>5, <2>6, <3>1 DEF KeptRows
  <2>8. RowsGood'
    <3> DEFINE Good(u) == rows'[u] # Nothing =>
               /\ login[rows'[u].owner] = "live"
               /\ rows'[u].owned => creator'[rows'[u].conversation] = rows'[u].owner
               /\ rows'[u].readable => rows'[u].owned
    <3>1. Good(t)
      BY <2>3, <2>4, <2>6 DEF Live
    <3>2. \A u \in Turns \ {t} : Good(u)
      BY <1>12, <2>6
    <3>3. \A u \in Turns : Good(u)
      BY <3>1, <3>2
    <3> QED BY <1>1, <3>3 DEF RowsGood, Live
  <2>9. /\ op' \in Admitting /\ op'.at = "send" /\ op'.session = s /\ op'.turn = t
        /\ op'.old = o.old /\ op'.row = r /\ op'.known = o.known
    BY <1>1, <1>3, <1>5, <2>1 DEF Admitting
  <2>10. Possible(c, t) => WasReady(o)
    <3>1. Possible(c, t) => creator[c] # Nothing
      <4> SUFFICES ASSUME Possible(c, t) PROVE creator[c] # Nothing
        OBVIOUS
      <4>1. PICK u \in sent : u.conversation = c /\ u.turn = t
        BY <1>4, PossibleWasSent
      <4> QED BY <1>2, <4>1 DEF SentGood
    <3> QED BY <2>2, <2>5, <3>1
  <2>11. \A u \in sent : Key(u) = <<c, t>> => u.body = r.body
    <3> SUFFICES ASSUME NEW u \in sent, Key(u) = <<c, t>> PROVE u.body = r.body
      OBVIOUS
    <3>1. u.conversation = c /\ u.turn = t
      BY DEF Key
    <3>2. creator[c] # Nothing /\ (Live(creator[c]) => rows[t].body = u.body)
      BY <1>2, <3>1 DEF SentGood
    <3> QED BY <2>2, <2>4, <2>5, <3>2
  <2>12. CallAdmits(op)'
    <3> SUFFICES ASSUME NEW p, p = op' PROVE CallAdmits(p)'
      BY DEF CallAdmits, Live, Possible, WasReady
    <3>1. /\ p.session = s /\ p.turn = t /\ p.row = r
          /\ p.old = o.old /\ p.known = o.known /\ p.at = "send" /\ WasReady(p) = WasReady(o)
      BY <2>9 DEF WasReady
    <3>2. /\ p.row.owner = p.session /\ p.row.readable = TRUE /\ p.row.owned
          /\ creator'[p.row.conversation] = p.session
      BY <1>5, <2>3, <3>1
    <3>3. /\ rows'[p.turn] # Nothing
          /\ rows'[p.turn].owner = p.session
          /\ rows'[p.turn].conversation = p.row.conversation
          /\ rows'[p.turn].body = p.row.body
          /\ rows'[p.turn].readable = TRUE
      BY <1>5, <2>6, <3>1
    <3>4. Possible(p.row.conversation, p.turn)' => WasReady(p)
      <4>1. Possible(c, t)' = Possible(c, t)
        BY <1>4, <1>11
      <4> QED BY <1>5, <2>10, <3>1, <4>1
    <3>5. \A u \in sent' : Key(u) = <<p.row.conversation, p.turn>> => u.body = p.row.body
      BY <1>1, <1>5, <2>11, <3>1
    <3> QED BY <3>1, <3>2, <3>3, <3>4, <3>5 DEF CallAdmits, Key
  <2>13. CallGood'
    <3>1. login'[op'.session] # "new"
      BY <1>1, <1>4, <2>9
    <3> QED BY <2>9, <2>12, <3>1, OpKinds DEF CallGood
  <2>14. awaited' \subseteq Turns
    BY <1>2, <1>3, <1>4, <2>1 DEF ConsoleTypeOK
  <2>15. ConsoleTyped'
    BY <1>1, <1>2, <1>7, <2>6, <2>9, <2>14 DEF ConsoleTyped, ConsoleTypeOK
  <2> QED BY <1>9, <1>10, <1>13, <2>7, <2>8, <2>13, <2>15 DEF ConsoleInv
<1> QED BY <1>14, <1>15

LEMMA ConsoleKeeps ==
  ASSUME ConsoleAssumption, ConsoleInv, [ConsoleNext]_consoleVars
  PROVE  ConsoleInv'
<1>1. CASE UNCHANGED consoleVars
  <2>1. UNCHANGED <<login, rows, op, awaited, context, creator, accepted, late, sent, cancels>>
    BY <1>1 DEF consoleVars
  <2>2. ConsoleTyped'
    BY <2>1 DEF ConsoleInv, ConsoleTyped, ConsoleTypeOK
  <2>3. CallGood'
    <3>1. \A c \in Conversations, t \in Turns : Possible(c, t)' => Possible(c, t)
      BY <2>1 DEF Possible
    <3> QED BY <2>1, <3>1, CallStays
  <2> QED BY <2>1, <2>2, <2>3, RestStays DEF ConsoleInv
<1>2. CASE ConsoleNext
  BY <1>2, SignInKeeps, EndSessionKeeps, LookKeeps, AskChatKeeps, FreezeKeeps, ClaimKeeps,
     ClaimFailsKeeps, SendTurnKeeps, NotSentKeeps, AcceptsKeeps, RefusesKeeps, NoAnswerKeeps,
     StopConsoleKeeps, LateArrivesKeeps, NewContextKeeps, CancelKeeps DEF ConsoleNext
<1> QED BY <1>1, <1>2

LEMMA ConsoleImplies ==
  ASSUME ConsoleAssumption, ConsoleInv
  PROVE  OneBody /\ AcceptedIsReadable /\ OwnConversations
<1>1. ConsoleTypeOK /\ SentGood /\ RowsGood
  BY DEF ConsoleInv, ConsoleTyped
<1>2. AcceptedIsReadable
  <2> SUFFICES ASSUME NEW t \in Turns, rows[t] # Nothing,
                      accepted[<<rows[t].conversation, t>>] # Nothing,
                      creator[rows[t].conversation] = rows[t].owner
               PROVE  rows[t].readable
    BY DEF AcceptedIsReadable
  <2>1. PICK c : c = rows[t].conversation
    OBVIOUS
  <2>2. c \in Conversations /\ Live(rows[t].owner)
    BY <1>1, <2>1 DEF ConsoleTypeOK, Row, RowsGood
  <2>3. Possible(c, t)
    BY <2>1 DEF Possible
  <2>4. PICK u \in sent : u.conversation = c /\ u.turn = t
    BY <2>2, <2>3, PossibleWasSent
  <2>5. Live(creator[u.conversation]) => (Possible(u.conversation, u.turn) => rows[u.turn].readable)
    BY <1>1, <2>4 DEF SentGood
  <2> QED BY <2>1, <2>2, <2>3, <2>4, <2>5
<1>3. OwnConversations
  BY <1>1 DEF OwnConversations, RowsGood, ConsoleInv
<1> QED BY <1>2, <1>3 DEF ConsoleInv

(* For any logins, turns, conversations and messages: however often a turn *)
(* is sent, after lost answers, stops, log-outs and new contexts, Chat is *)
(* only ever sent one body for it; what Chat accepted can be read back by *)
(* its owner while the login lives; and nobody reads or cancels in a *)
(* conversation that Chat created for another login (console/server.py, *)
(* console/admin_auth.py). *)
THEOREM ConsoleKeepsItsTurns ==
  ASSUME ConsoleAssumption
  PROVE  ConsoleSpec => [](ConsoleTypeOK /\ OneBody /\ AcceptedIsReadable /\ OwnConversations)
<1>1. ConsoleInit => ConsoleInv
  BY ConsoleStart
<1>2. ConsoleInv /\ [ConsoleNext]_consoleVars => ConsoleInv'
  BY ConsoleKeeps
<1>3. ConsoleInv => ConsoleTypeOK /\ OneBody /\ AcceptedIsReadable /\ OwnConversations
  BY ConsoleImplies DEF ConsoleInv, ConsoleTyped
<1> QED BY <1>1, <1>2, <1>3, PTL DEF ConsoleSpec
-----------------------------------------------------------------------------
(* The product cards of the Console. *)

Cards == [item : Items, entry : Calls, until : Nat]
CardStages == {"new", "name", "lists", "photo", "done", "failed", "refused"}
CardStates == [stage : CardStages, image : BOOLEAN, item : Items \cup {NoCard},
               entry : Calls \cup {NoCard}]

CardsTyped ==
  /\ cardTime \in 0..MaxCardTime /\ catalogued \subseteq Items
  /\ cards \in Seq(Cards) /\ Len(cards) <= MaxCards
  /\ card \in [Calls -> CardStates]

(* An entry is what one call found out, of its own product. *)
Past == {"photo", "done", "failed"}
Made(e, i) == e \in Calls /\ card[e].stage \in Past /\ card[e].item = i /\ card[e].entry = e

OneEach == \A j, k \in 1..Len(cards) : cards[j].item = cards[k].item => j = k
CachedAreMade == \A k \in 1..Len(cards) : Made(cards[k].entry, cards[k].item)
CallsKnow ==
  \A c \in Calls :
    /\ card[c].stage \in {"name", "lists"} \cup Past => card[c].item \in Items
    /\ card[c].stage \in Past => Made(card[c].entry, card[c].item)

CardsInv == CardsTyped /\ OneEach /\ CachedAreMade /\ CallsKnow /\ FailedIsGone

LEMMA Removed ==
  ASSUME NEW T, NEW s \in Seq(T), NEW i \in 1..Len(s)
  PROVE  /\ RemoveAt(s, i) \in Seq(T) /\ Len(RemoveAt(s, i)) = Len(s) - 1
         /\ \A k \in 1..(Len(s) - 1) :
              RemoveAt(s, i)[k] = IF k < i THEN s[k] ELSE s[k + 1]
<1>1. Len(s) \in Nat /\ i \in Nat /\ 1 <= i /\ i <= Len(s) /\ \A k \in 1..Len(s) : s[k] \in T
  BY ElementOfSeq
<1>2. PICK u, v : u = SubSeq(s, 1, i - 1) /\ v = SubSeq(s, i + 1, Len(s))
  OBVIOUS
<1>3. /\ u \in Seq(T) /\ Len(u) = i - 1
      /\ \A k \in 1..(i - 1) : u[k] = s[k]
  <2>1. i - 1 \in 0..Len(s) /\ \A k \in 1..(i - 1) : s[k] \in T
    BY <1>1
  <2> QED BY <1>1, <1>2, <2>1
<1>4. /\ v \in Seq(T) /\ Len(v) = Len(s) - i
      /\ \A k \in 1..(Len(s) - i) : v[k] = s[k + i]
  <2>1. \A k \in (i + 1)..Len(s) : s[k] \in T
    BY <1>1
  <2>2. /\ SubSeq(s, i + 1, Len(s)) \in Seq(T)
        /\ Len(SubSeq(s, i + 1, Len(s))) = Len(s) - i
        /\ \A k \in 1..(Len(s) - i) : SubSeq(s, i + 1, Len(s))[k] = s[k + i]
    BY <1>1, <2>1
  <2> QED BY <1>2, <2>2
<1>5. RemoveAt(s, i) = u \o v
  BY <1>2 DEF RemoveAt
<1>6. /\ u \o v \in Seq(T) /\ Len(u \o v) = Len(s) - 1
      /\ \A k \in 1..(Len(s) - 1) : (u \o v)[k] = IF k <= Len(u) THEN u[k] ELSE v[k - Len(u)]
  <2>1. /\ u \o v \in Seq(T) /\ Len(u \o v) = Len(u) + Len(v)
        /\ \A k \in 1..(Len(u) + Len(v)) : (u \o v)[k] = IF k <= Len(u) THEN u[k] ELSE v[k - Len(u)]
    BY <1>3, <1>4, ConcatProperties
  <2> QED BY <1>1, <1>3, <1>4, <2>1
<1>7. ASSUME NEW k \in 1..(Len(s) - 1)
      PROVE  (u \o v)[k] = IF k < i THEN s[k] ELSE s[k + 1]
  <2>1. CASE k < i
    BY <1>1, <1>3, <1>6, <2>1
  <2>2. CASE ~(k < i)
    <3>1. k - Len(u) \in 1..(Len(s) - i) /\ (k - Len(u)) + i = k + 1
      BY <1>1, <1>3, <2>2
    <3> QED BY <1>1, <1>3, <1>4, <1>6, <2>2, <3>1
  <2> QED BY <2>1, <2>2
<1> QED BY <1>5, <1>6, <1>7

(* One call goes on, the cache stays. *)
LEMMA CallGoesOn ==
  ASSUME CardsInv, NEW c \in Calls, NEW w \in CardStates, card' = [card EXCEPT ![c] = w],
         UNCHANGED <<cardTime, catalogued, cards>>,
         card[c].stage \in Past => w.stage \in Past /\ w.item = card[c].item /\ w.entry = card[c].entry,
         w.stage \in {"name", "lists"} \cup Past => w.item \in Items,
         w.stage \in Past => Made(w.entry, w.item),
         w.stage # "failed"
  PROVE  CardsInv'
<1>1. /\ card' \in [Calls -> CardStates] /\ card'[c] = w
      /\ \A d \in Calls \ {c} : card'[d] = card[d]
  BY DEF CardsInv, CardsTyped
<1>2. ASSUME NEW e, NEW i, Made(e, i) PROVE Made(e, i)'
  BY <1>1, <1>2 DEF Made
<1>3. CardsTyped'
  BY <1>1 DEF CardsInv, CardsTyped
<1>4. OneEach'
  BY DEF CardsInv, OneEach
<1>5. CachedAreMade'
  <2> SUFFICES ASSUME NEW k \in 1..Len(cards) PROVE Made(cards[k].entry, cards[k].item)'
    BY DEF CachedAreMade
  <2>1. PICK e, i : e = cards[k].entry /\ i = cards[k].item
    OBVIOUS
  <2>2. Made(e, i)'
    BY <1>2, <2>1 DEF CardsInv, CachedAreMade
  <2> QED BY <2>1, <2>2 DEF Made
<1>6. CallsKnow'
  <2> SUFFICES ASSUME NEW d \in Calls
               PROVE  /\ card'[d].stage \in {"name", "lists"} \cup Past => card'[d].item \in Items
                      /\ card'[d].stage \in Past => Made(card[d].entry, card[d].item)'
    BY DEF CallsKnow
  <2>1. PICK e, i : e = card'[d].entry /\ i = card'[d].item
    OBVIOUS
  <2>2. card'[d].stage \in Past => Made(e, i)
    BY <1>1, <2>1 DEF CardsInv, CallsKnow
  <2>3. card'[d].stage \in Past => Made(e, i)'
    BY <1>2, <2>2
  <2>4. card'[d].stage \in {"name", "lists"} \cup Past => card'[d].item \in Items
    BY <1>1 DEF CardsInv, CallsKnow
  <2> QED BY <2>1, <2>3, <2>4 DEF Made
<1>7. FailedIsGone'
  BY <1>1 DEF CardsInv, FailedIsGone, CardIn, Entries
<1> QED BY <1>3, <1>4, <1>5, <1>6, <1>7 DEF CardsInv

LEMMA CardsStart ==
  ASSUME ProductCardsAssumption, CardsInit
  PROVE  CardsInv
<1>1. cards = << >> /\ Len(cards) = 0 /\ cards \in Seq(Cards)
  BY DEF CardsInit
<1>2. CardsTyped
  BY <1>1 DEF CardsInit, CardsTyped, CardStates, CardStages, NewCall, ProductCardsAssumption
<1> QED BY <1>1, <1>2 DEF CardsInit, CardsInv, OneEach, CachedAreMade, CallsKnow, FailedIsGone,
                          CardIn, NewCall, Past

LEMMA FoundKeeps ==
  ASSUME ProductCardsAssumption, CardsInv, NEW c \in Calls, Found(c)
  PROVE  CardsInv'
<1>1. /\ cardTime \in Nat /\ catalogued \subseteq Items /\ cards \in Seq(Cards) /\ Len(cards) \in Nat
      /\ Len(cards) <= MaxCards /\ card \in [Calls -> CardStates] /\ MaxCards \in Nat \ {0} /\ CardTTL \in Nat
  BY DEF CardsInv, CardsTyped, ProductCardsAssumption
<1>2. PICK i, new : i = card[c].item /\ new = [item |-> i, entry |-> c, until |-> cardTime + CardTTL]
  OBVIOUS
<1>3. /\ card[c].stage = "lists" /\ i \in Items /\ new \in Cards /\ new.item = i /\ new.entry = c
      /\ cards' = Kept(new) /\ UNCHANGED <<cardTime, catalogued>> /\ card' = Given(c, c)
  BY <1>1, <1>2 DEF Found, CardIn, ItemOf, CardsInv, CallsKnow, Cards
<1>4. /\ card' \in [Calls -> CardStates] /\ card'[c].stage \in {"photo", "done"} /\ card'[c].entry = c
      /\ card'[c].item = i /\ \A d \in Calls \ {c} : card'[d] = card[d]
  BY <1>1, <1>2, <1>3 DEF Given, CardStates, CardStages
<1>5. \A k \in 1..Len(cards) : cards[k] \in Cards
  BY <1>1, ElementOfSeq
(* Every place of the new cache is the new entry or an old one; only one *)
(* is of the product. *)
<1>6. /\ cards' \in Seq(Cards) /\ Len(cards') <= MaxCards
      /\ OneEach'
      /\ \A k \in 1..Len(cards') :
           cards'[k] = new \/ \E j \in 1..Len(cards) : cards'[k] = cards[j] /\ cards[j].item # i
  <2>1. CASE Held(i) # {}
    <3>1. /\ cards' = [k \in 1..Len(cards) |-> IF k \in Held(i) THEN new ELSE cards[k]]
      BY <1>3, <2>1 DEF Kept
    <3>2. cards' \in Seq(Cards) /\ Len(cards') = Len(cards)
      BY <1>1, <1>3, <1>5, <3>1
    <3>3. \A k \in 1..Len(cards) : cards'[k].item = cards[k].item
      BY <1>3, <3>1 DEF Held
    <3>4. OneEach'
      BY <3>2, <3>3 DEF CardsInv, OneEach
    <3> QED BY <1>1, <3>1, <3>2, <3>4 DEF Held
  <2>2. CASE Held(i) = {} /\ Len(cards) < MaxCards
    <3>1. cards' = Append(cards, new)
      BY <1>1, <1>3, <2>2 DEF Kept
    <3>2. /\ cards' \in Seq(Cards) /\ Len(cards') = Len(cards) + 1 /\ cards'[Len(cards) + 1] = new
          /\ \A k \in 1..Len(cards) : cards'[k] = cards[k]
      BY <1>1, <1>3, <3>1
    <3>3. \A k \in 1..Len(cards) : cards[k].item # i
      BY <2>2 DEF Held
    <3>4. ASSUME NEW j \in 1..Len(cards'), NEW k \in 1..Len(cards'), cards'[j].item = cards'[k].item
          PROVE  j = k
      <4>1. \A x \in 1..Len(cards') : x \in 1..Len(cards) \/ x = Len(cards) + 1
        BY <1>1, <3>2
      <4>2. CASE j \in 1..Len(cards) /\ k \in 1..Len(cards)
        BY <3>2, <3>4, <4>2 DEF CardsInv, OneEach
      <4>3. CASE j = Len(cards) + 1 \/ k = Len(cards) + 1
        BY <1>3, <3>2, <3>3, <3>4, <4>1, <4>3
      <4> QED BY <4>1, <4>2, <4>3
    <3>5. OneEach'
      BY <3>4 DEF OneEach
    <3> QED BY <1>1, <2>2, <3>2, <3>3, <3>5
  <2>3. CASE Held(i) = {} /\ Len(cards) = MaxCards
    <3>1. cards' = Append(Tail(cards), new) /\ cards # << >>
      BY <1>1, <1>3, <2>3 DEF Kept
    <3>2. /\ Tail(cards) \in Seq(Cards) /\ Len(Tail(cards)) = Len(cards) - 1
          /\ \A k \in 1..(Len(cards) - 1) : Tail(cards)[k] = cards[k + 1]
      BY <1>1, <3>1
    <3>3. /\ cards' \in Seq(Cards) /\ Len(cards') = Len(cards) /\ cards'[Len(cards)] = new
          /\ \A k \in 1..(Len(cards) - 1) : cards'[k] = cards[k + 1]
      BY <1>1, <1>3, <3>1, <3>2
    <3>4. \A k \in 1..Len(cards) : cards[k].item # i
      BY <2>3 DEF Held
    <3>5. ASSUME NEW j \in 1..Len(cards'), NEW k \in 1..Len(cards'), cards'[j].item = cards'[k].item
          PROVE  j = k
      <4>1. /\ \A x \in 1..Len(cards') : x \in 1..(Len(cards) - 1) \/ x = Len(cards)
            /\ \A x \in 1..(Len(cards) - 1) : x + 1 \in 1..Len(cards)
        BY <1>1, <3>3
      <4>2. CASE j \in 1..(Len(cards) - 1) /\ k \in 1..(Len(cards) - 1)
        <5>1. cards[j + 1].item = cards[k + 1].item
          BY <3>3, <3>5, <4>2
        <5>2. j + 1 = k + 1
          BY <4>1, <4>2, <5>1 DEF CardsInv, OneEach
        <5> QED BY <5>2
      <4>3. CASE j = Len(cards) \/ k = Len(cards)
        BY <1>3, <3>3, <3>4, <3>5, <4>1, <4>3
      <4> QED BY <4>1, <4>2, <4>3
    <3>6. OneEach'
      BY <3>5 DEF OneEach
    <3>7. ASSUME NEW k \in 1..Len(cards')
          PROVE  cards'[k] = new \/ \E j \in 1..Len(cards) : cards'[k] = cards[j] /\ cards[j].item # i
      <4>1. CASE k = Len(cards)
        BY <3>3, <4>1
      <4>2. CASE k \in 1..(Len(cards) - 1)
        <5>1. k + 1 \in 1..Len(cards) /\ cards'[k] = cards[k + 1]
          BY <1>1, <3>3, <4>2
        <5> QED BY <3>4, <5>1
      <4> QED BY <1>1, <3>3, <4>1, <4>2
    <3> QED BY <1>1, <2>3, <3>3, <3>6, <3>7
  <2> QED BY <1>1, <2>1, <2>2, <2>3
<1>7. ASSUME NEW e, NEW j, Made(e, j) PROVE Made(e, j)' /\ e # c
  BY <1>3, <1>4, <1>7 DEF Made, Past
<1>8. Made(c, i)'
  BY <1>4 DEF Made, Past
<1>9. CachedAreMade'
  <2> SUFFICES ASSUME NEW k \in 1..Len(cards') PROVE Made(cards[k].entry, cards[k].item)'
    BY DEF CachedAreMade
  <2>1. PICK e, j : e = cards'[k].entry /\ j = cards'[k].item
    OBVIOUS
  <2>2. Made(e, j)'
    <3>1. CASE cards'[k] = new
      BY <1>3, <1>8, <2>1, <3>1
    <3>2. CASE \E x \in 1..Len(cards) : cards'[k] = cards[x]
      BY <1>7, <2>1, <3>2 DEF CardsInv, CachedAreMade
    <3> QED BY <1>6, <3>1, <3>2
  <2> QED BY <2>1, <2>2 DEF Made
<1>10. CallsKnow'
  <2> SUFFICES ASSUME NEW d \in Calls
               PROVE  /\ card'[d].stage \in {"name", "lists"} \cup Past => card'[d].item \in Items
                      /\ card'[d].stage \in Past => Made(card[d].entry, card[d].item)'
    BY DEF CallsKnow
  <2>1. PICK e, j : e = card'[d].entry /\ j = card'[d].item
    OBVIOUS
  <2>2. card'[d].stage \in {"name", "lists"} \cup Past => card'[d].item \in Items
    BY <1>3, <1>4 DEF CardsInv, CallsKnow
  <2>3. card'[d].stage \in Past => Made(e, j)'
    <3>1. CASE d = c
      BY <1>4, <1>8, <2>1, <3>1
    <3>2. CASE d # c
      BY <1>4, <1>7, <2>1, <3>2 DEF CardsInv, CallsKnow
    <3> QED BY <3>1, <3>2
  <2> QED BY <2>1, <2>2, <2>3 DEF Made
<1>11. FailedIsGone'
  <2> SUFFICES ASSUME NEW d \in Calls, card'[d].stage = "failed", NEW k \in 1..Len(cards'),
                      cards'[k].entry = card'[d].entry
               PROVE  FALSE
    BY DEF FailedIsGone, CardIn, Entries
  <2>1. d # c /\ card[d].stage = "failed" /\ card'[d].entry = card[d].entry
    BY <1>4
  <2>2. card[d].entry # c
    BY <1>7, <2>1 DEF CardsInv, CallsKnow, Past
  <2>3. PICK j \in 1..Len(cards) : cards'[k] = cards[j]
    BY <1>3, <1>6, <2>1, <2>2
  <2> QED BY <2>1, <2>3 DEF CardsInv, FailedIsGone, CardIn, Entries
<1>12. CardsTyped'
  BY <1>3, <1>4, <1>6 DEF CardsInv, CardsTyped
<1> QED BY <1>6, <1>9, <1>10, <1>11, <1>12 DEF CardsInv

LEMMA PhotoFailsKeeps ==
  ASSUME ProductCardsAssumption, CardsInv, NEW c \in Calls, PhotoFails(c)
  PROVE  /\ CardsInv'
         /\ Entries \ {card[c].entry} \subseteq Entries'
<1>1. /\ cards \in Seq(Cards) /\ Len(cards) \in Nat /\ Len(cards) <= MaxCards
      /\ card \in [Calls -> CardStates] /\ MaxCards \in Nat
  BY DEF CardsInv, CardsTyped, ProductCardsAssumption
<1>2. PICK e, i : e = card[c].entry /\ i = card[c].item
  OBVIOUS
<1>3. /\ card[c].stage = "photo" /\ Made(e, i) /\ cards' = Discarded(c)
      /\ UNCHANGED <<cardTime, catalogued>> /\ card' = [card EXCEPT ![c].stage = "failed"]
  BY <1>2 DEF PhotoFails, CardIn, End, CardsInv, CallsKnow, Past
<1>4. /\ card' \in [Calls -> CardStates] /\ card'[c].stage = "failed" /\ card'[c].entry = e
      /\ card'[c].item = i /\ \A d \in Calls \ {c} : card'[d] = card[d]
  BY <1>1, <1>2, <1>3 DEF CardStates, CardStages
<1>5. \A k \in 1..Len(cards) : cards[k].entry = e => cards[k].item = i
  BY <1>3 DEF CardsInv, CachedAreMade, Made
<1>6. Places(c) = {k \in 1..Len(cards) : cards[k].entry = e}
  BY <1>2, <1>5 DEF Places, Held, ItemOf
(* What is left are the old entries, but the one that failed. *)
<1>7. /\ cards' \in Seq(Cards) /\ Len(cards') <= MaxCards /\ OneEach'
      /\ \A k \in 1..Len(cards') : \E j \in 1..Len(cards) : cards'[k] = cards[j] /\ cards[j].entry # e
      /\ \A j \in 1..Len(cards) : cards[j].entry # e => \E k \in 1..Len(cards') : cards'[k] = cards[j]
  <2>1. CASE Places(c) = {}
    <3>1. cards' = cards
      BY <1>3, <2>1 DEF Discarded
    <3>2. \A k \in 1..Len(cards) : cards[k].entry # e
      BY <1>6, <2>1
    <3>3. OneEach'
      BY <3>1 DEF CardsInv, OneEach
    <3> QED BY <1>1, <3>1, <3>2, <3>3
  <2>2. CASE Places(c) # {}
    <3>1. PICK n \in 1..Len(cards) : cards[n].entry = e /\ cards' = RemoveAt(cards, n)
      <4>1. PICK n : n = CHOOSE k \in Places(c) : TRUE
        OBVIOUS
      <4>2. n \in Places(c)
        BY <2>2, <4>1
      <4> QED BY <1>3, <1>6, <2>2, <4>1, <4>2 DEF Discarded
    <3>2. /\ cards' \in Seq(Cards) /\ Len(cards') = Len(cards) - 1
          /\ \A k \in 1..(Len(cards) - 1) : cards'[k] = IF k < n THEN cards[k] ELSE cards[k + 1]
      BY <1>1, <3>1, Removed
    <3>3. \A j \in 1..Len(cards) : cards[j].entry = e => j = n
      BY <1>5, <3>1 DEF CardsInv, OneEach
    <3> DEFINE old(k) == IF k < n THEN k ELSE k + 1
    <3>4. \A k \in 1..(Len(cards) - 1) : old(k) \in 1..Len(cards) /\ old(k) # n
      BY <1>1, <3>1
    <3>5. \A k \in 1..(Len(cards) - 1) : cards'[k] = cards[old(k)]
      BY <3>2
    <3>6. \A j, k \in 1..(Len(cards) - 1) : old(j) = old(k) => j = k
      BY <1>1, <3>1
    <3>7. \A j \in 1..Len(cards) : j # n => \E k \in 1..(Len(cards) - 1) : old(k) = j
      <4> SUFFICES ASSUME NEW j \in 1..Len(cards), j # n
                   PROVE  \E k \in 1..(Len(cards) - 1) : old(k) = j
        OBVIOUS
      <4>1. CASE j < n
        <5>1. j \in 1..(Len(cards) - 1) /\ old(j) = j
          BY <1>1, <3>1, <4>1
        <5> QED BY <5>1
      <4>2. CASE j > n
        <5>1. j - 1 \in 1..(Len(cards) - 1) /\ old(j - 1) = j
          BY <1>1, <3>1, <4>2
        <5> QED BY <5>1
      <4> QED BY <1>1, <3>1, <4>1, <4>2
    <3> HIDE DEF old
    <3>8. OneEach'
      <4> SUFFICES ASSUME NEW j \in 1..Len(cards'), NEW k \in 1..Len(cards'), cards'[j].item = cards'[k].item
                   PROVE  j = k
        BY DEF OneEach
      <4>1. j \in 1..(Len(cards) - 1) /\ k \in 1..(Len(cards) - 1)
        BY <3>2
      <4>2. cards[old(j)].item = cards[old(k)].item
        BY <3>5, <4>1
      <4>3. old(j) = old(k)
        BY <3>4, <4>1, <4>2 DEF CardsInv, OneEach
      <4> QED BY <3>6, <4>1, <4>3
    <3>9. \A k \in 1..Len(cards') : \E j \in 1..Len(cards) : cards'[k] = cards[j] /\ cards[j].entry # e
      <4> SUFFICES ASSUME NEW k \in 1..Len(cards')
                   PROVE  \E j \in 1..Len(cards) : cards'[k] = cards[j] /\ cards[j].entry # e
        OBVIOUS
      <4>1. k \in 1..(Len(cards) - 1)
        BY <3>2
      <4>2. old(k) \in 1..Len(cards) /\ old(k) # n /\ cards'[k] = cards[old(k)]
        BY <3>4, <3>5, <4>1
      <4> QED BY <3>3, <4>2
    <3>10. \A j \in 1..Len(cards) : cards[j].entry # e => \E k \in 1..Len(cards') : cards'[k] = cards[j]
      <4> SUFFICES ASSUME NEW j \in 1..Len(cards), cards[j].entry # e
                   PROVE  \E k \in 1..Len(cards') : cards'[k] = cards[j]
        OBVIOUS
      <4>1. j # n
        BY <3>1
      <4>2. PICK k \in 1..(Len(cards) - 1) : old(k) = j
        BY <3>7, <4>1
      <4> QED BY <3>2, <3>5, <4>2
    <3> QED BY <1>1, <3>2, <3>8, <3>9, <3>10
  <2> QED BY <2>1, <2>2
<1>8. ASSUME NEW f, NEW j, Made(f, j) PROVE Made(f, j)'
  BY <1>2, <1>4, <1>8 DEF Made, Past
<1>9. CachedAreMade'
  <2> SUFFICES ASSUME NEW k \in 1..Len(cards') PROVE Made(cards[k].entry, cards[k].item)'
    BY DEF CachedAreMade
  <2>1. PICK f, j : f = cards'[k].entry /\ j = cards'[k].item
    OBVIOUS
  <2>2. PICK x \in 1..Len(cards) : cards'[k] = cards[x]
    BY <1>7
  <2>3. Made(f, j)'
    BY <1>8, <2>1, <2>2 DEF CardsInv, CachedAreMade
  <2> QED BY <2>1, <2>3 DEF Made
<1>10. CallsKnow'
  <2> SUFFICES ASSUME NEW d \in Calls
               PROVE  /\ card'[d].stage \in {"name", "lists"} \cup Past => card'[d].item \in Items
                      /\ card'[d].stage \in Past => Made(card[d].entry, card[d].item)'
    BY DEF CallsKnow
  <2>1. PICK f, j : f = card'[d].entry /\ j = card'[d].item
    OBVIOUS
  <2>2. card'[d].stage \in {"name", "lists"} \cup Past => card'[d].item \in Items
    BY <1>2, <1>3, <1>4 DEF CardsInv, CallsKnow, Past
  <2>3. card'[d].stage \in Past => Made(f, j)'
    <3>1. CASE d = c
      BY <1>3, <1>4, <1>8, <2>1, <3>1
    <3>2. CASE d # c
      BY <1>4, <1>8, <2>1, <3>2 DEF CardsInv, CallsKnow
    <3> QED BY <3>1, <3>2
  <2> QED BY <2>1, <2>2, <2>3 DEF Made
<1>11. FailedIsGone'
  <2> SUFFICES ASSUME NEW d \in Calls, card'[d].stage = "failed", NEW k \in 1..Len(cards'),
                      cards'[k].entry = card'[d].entry
               PROVE  FALSE
    BY DEF FailedIsGone, CardIn, Entries
  <2>1. PICK j \in 1..Len(cards) : cards'[k] = cards[j] /\ cards[j].entry # e
    BY <1>7
  <2>2. d # c
    BY <1>4, <2>1
  <2> QED BY <1>4, <2>1, <2>2 DEF CardsInv, FailedIsGone, CardIn, Entries
<1>12. CardsTyped'
  BY <1>3, <1>4, <1>7 DEF CardsInv, CardsTyped
<1>13. Entries \ {e} \subseteq Entries'
  <2> SUFFICES ASSUME NEW x \in Entries, x # e PROVE x \in Entries'
    OBVIOUS
  <2>1. PICK j \in 1..Len(cards) : cards[j].entry = x
    BY DEF Entries
  <2>2. PICK k \in 1..Len(cards') : cards'[k] = cards[j]
    BY <1>7, <2>1
  <2> QED BY <2>1, <2>2 DEF Entries
<1> QED BY <1>2, <1>7, <1>9, <1>10, <1>11, <1>12, <1>13 DEF CardsInv

LEMMA CardsKeep ==
  ASSUME ProductCardsAssumption, CardsInv, [CardsNext]_cardVars
  PROVE  CardsInv'
<1>1. /\ card \in [Calls -> CardStates] /\ cards \in Seq(Cards) /\ cardTime \in 0..MaxCardTime
      /\ MaxCardTime \in Nat
      /\ \A k \in 1..Len(cards) : cards[k] \in Cards /\ Made(cards[k].entry, cards[k].item)
  BY ElementOfSeq DEF CardsInv, CardsTyped, CachedAreMade, ProductCardsAssumption
(* The clock and the catalog. *)
<1>2. ASSUME UNCHANGED <<cards, card>>, cardTime' \in 0..MaxCardTime, catalogued' \subseteq Items
      PROVE  CardsInv'
  BY <1>2 DEF CardsInv, CardsTyped, OneEach, CachedAreMade, CallsKnow, Made, FailedIsGone, CardIn, Entries
<1>3. CASE UNCHANGED cardVars \/ Wait \/ \E items \in SUBSET Items : Activate(items)
  BY <1>1, <1>2, <1>3 DEF cardVars, Wait, Activate, CardsInv, CardsTyped
<1>4. ASSUME NEW c \in Calls, NEW i \in Items, NEW image \in BOOLEAN, Cached(c, i, image)
      PROVE  CardsInv'
  <2>1. PICK k \in Held(i) :
          card' = [card EXCEPT ![c] = [stage |-> IF image THEN "photo" ELSE "done",
                                       image |-> image, item |-> i, entry |-> cards[k].entry]]
    BY <1>4 DEF Cached
  <2>2. PICK w : w = [stage |-> IF image THEN "photo" ELSE "done",
                      image |-> image, item |-> i, entry |-> cards[k].entry]
    OBVIOUS
  <2>3. cards[k] \in Cards /\ Made(cards[k].entry, i)
    BY <1>1 DEF Held
  <2>4. w \in CardStates /\ w.item = i /\ w.entry = cards[k].entry /\ w.stage \in {"photo", "done"}
    BY <2>2, <2>3 DEF CardStates, CardStages, Cards
  <2>5. card[c].stage = "new" /\ UNCHANGED <<cardTime, catalogued, cards>>
    BY <1>4 DEF Cached, CardIn
  <2>6. Made(w.entry, w.item)
    BY <2>3, <2>4 DEF Made
  <2> QED BY <2>1, <2>2, <2>4, <2>5, <2>6, CallGoesOn DEF Past
<1>5. ASSUME NEW c \in Calls, NEW i \in Items, NEW image \in BOOLEAN, LookUp(c, i, image)
      PROVE  CardsInv'
  <2>1. PICK w : w = [stage |-> "name", image |-> image, item |-> i, entry |-> NoCard]
    OBVIOUS
  <2>2. w \in CardStates /\ w.item = i /\ w.stage = "name"
    BY <2>1 DEF CardStates, CardStages
  <2>3. card' = [card EXCEPT ![c] = w] /\ card[c].stage = "new" /\ UNCHANGED <<cardTime, catalogued, cards>>
    BY <1>5, <2>1 DEF LookUp, CardIn
  <2> QED BY <2>2, <2>3, CallGoesOn DEF Past
(* Only the stage changes. *)
<1>6. ASSUME NEW c \in Calls, NEW s \in CardStages, card' = End(c, s), s # "failed",
             UNCHANGED <<cardTime, catalogued, cards>>,
             \/ card[c].stage \in {"name", "lists"} /\ s \in {"lists", "refused"}
             \/ card[c].stage = "photo" /\ s = "done"
      PROVE  CardsInv'
  <2>1. PICK w : w = [card[c] EXCEPT !.stage = s]
    OBVIOUS
  <2>2. w \in CardStates /\ w.item = card[c].item /\ w.entry = card[c].entry /\ w.stage = s
    BY <1>1, <2>1 DEF CardStates
  <2>3. card' = [card EXCEPT ![c] = w]
    BY <1>1, <1>6, <2>1 DEF End
  <2>4. card[c].item \in Items
    BY <1>6 DEF CardsInv, CallsKnow, Past
  <2>5. w.stage \in Past => Made(w.entry, w.item)
    <3>1. w.stage \in Past => card[c].stage \in Past
      BY <1>6, <2>2 DEF Past
    <3> QED BY <2>2, <3>1 DEF CardsInv, CallsKnow
  <2>6. card[c].stage \in Past => w.stage \in Past
    BY <1>6, <2>2 DEF Past
  <2>7. w.stage # "failed" /\ (w.stage \in {"name", "lists"} \cup Past => w.item \in Items)
    BY <1>6, <2>2, <2>4
  <2> QED BY <1>6, <2>2, <2>3, <2>5, <2>6, <2>7, CallGoesOn
<1>7. ASSUME NEW c \in Calls, Name(c) \/ NotFound(c) \/ Photo(c) PROVE CardsInv'
  <2>1. CASE Name(c)
    <3>1. PICK s : s = IF ItemOf(c) \in catalogued THEN "lists" ELSE "refused"
      OBVIOUS
    <3>2. /\ s \in {"lists", "refused"} /\ s \in CardStages /\ s # "failed" /\ card' = End(c, s)
          /\ card[c].stage = "name" /\ UNCHANGED <<cardTime, catalogued, cards>>
      BY <2>1, <3>1 DEF Name, CardIn, CardStages
    <3> QED BY <1>6, <3>2
  <2>2. CASE NotFound(c)
    <3>1. /\ "refused" \in CardStages /\ card' = End(c, "refused")
          /\ card[c].stage \in {"name", "lists"} /\ UNCHANGED <<cardTime, catalogued, cards>>
      BY <2>2 DEF NotFound, CardIn, CardStages
    <3>2. PICK s : s = "refused"
      OBVIOUS
    <3> QED BY <1>6, <3>1, <3>2
  <2>3. CASE Photo(c)
    BY <1>6, <2>3 DEF Photo, CardIn, CardStages
  <2> QED BY <1>7, <2>1, <2>2, <2>3
<1> QED BY <1>3, <1>4, <1>5, <1>7, FoundKeeps, PhotoFailsKeeps DEF CardsNext

LEMMA CardsImply ==
  ASSUME ProductCardsAssumption, CardsInv
  PROVE  CardsTypeOK /\ FailedIsGone
<1>1. ASSUME NEW i \in Items PROVE Cardinality(Held(i)) <= 1
  <2>1. \A j, k \in Held(i) : j = k
    BY DEF Held, CardsInv, OneEach
  <2>2. CASE Held(i) = {}
    BY <2>2, FS_EmptySet
  <2>3. CASE Held(i) # {}
    <3>1. PICK k : Held(i) = {k}
      BY <2>1, <2>3
    <3>2. Cardinality(Held(i)) = 1
      BY <3>1, FS_Singleton
    <3> QED BY <3>2
  <2> QED BY <2>2, <2>3
<1>2. \A c \in Calls : card[c].stage \in CardStages
  BY DEF CardsInv, CardsTyped, CardStates
<1> QED BY <1>1, <1>2 DEF CardsInv, CardsTyped, CardsTypeOK, CardStages

(* For any calls and products, any capacity and any life of an entry: a *)
(* URL whose photo failed is not used again, and the failure costs no *)
(* other call its entry (console/products.py). *)
THEOREM FailedCardsAreDropped ==
  ASSUME ProductCardsAssumption
  PROVE  CardsSpec => []CardsTypeOK /\ FailedCardsGo
<1>1. CardsInit => CardsInv
  BY CardsStart
<1>2. CardsInv /\ [CardsNext]_cardVars => CardsInv'
  BY CardsKeep
<1>3. CardsInv => CardsTypeOK /\ FailedIsGone
  BY CardsImply
<1>4. CardsInv /\ [CardsNext]_cardVars => [OthersStay]_cardVars
  <2> SUFFICES ASSUME CardsInv, CardsNext, NEW c \in Calls, CardIn(c, "photo"), card'[c].stage = "failed"
               PROVE  Entries \ {card[c].entry} \subseteq Entries'
    BY DEF OthersStay
  <2>1. card \in [Calls -> CardStates] /\ card[c].stage = "photo"
    BY DEF CardsInv, CardsTyped, CardIn
  <2>2. card' # card
    BY <2>1
  <2>3. ASSUME NEW d \in Calls, NEW s, card' = End(d, s), s # "failed" PROVE FALSE
    <3>1. card'[c].stage = s \/ card'[c] = card[c]
      BY <2>1, <2>3 DEF End, CardStates
    <3> QED BY <2>1, <2>3, <3>1
  <2>4. ASSUME NEW d \in Calls PROVE ~Name(d) /\ ~NotFound(d) /\ ~Photo(d)
    BY <2>3 DEF Name, NotFound, Photo
  <2>5. ASSUME NEW d \in Calls, NEW i \in Items, NEW image \in BOOLEAN
        PROVE ~Cached(d, i, image) /\ ~LookUp(d, i, image)
    <3>1. ~LookUp(d, i, image)
      BY <2>1 DEF LookUp, CardIn
    <3>2. ~Cached(d, i, image)
      BY <2>1 DEF Cached, CardIn
    <3> QED BY <3>1, <3>2
  <2>6. ASSUME NEW d \in Calls, Found(d) PROVE FALSE
    BY <2>1, <2>6 DEF Found, Given, CardIn, CardStates
  <2>7. ~Wait /\ \A items \in SUBSET Items : ~Activate(items)
    BY <2>2 DEF Wait, Activate
  <2>8. PICK d \in Calls : PhotoFails(d)
    BY <2>4, <2>5, <2>6, <2>7 DEF CardsNext
  <2>9. d = c
    BY <2>1, <2>8 DEF PhotoFails, End, CardStates
  <2> QED BY <2>8, <2>9, PhotoFailsKeeps DEF CardsInv, ProductCardsAssumption
<1> QED BY <1>1, <1>2, <1>3, <1>4, PTL DEF CardsSpec, FailedCardsGo
-----------------------------------------------------------------------------
(* The profile of the fixture's recipient. *)

(* A run whose products may still be called back: of the input its version *)
(* is bound to, or of a version completed before there were bindings. *)
Fits(v, i) ==
  \/ bindings[v] = i /\ i # NoInput
  \/ /\ i = Legacy /\ v <= committed.version
     /\ v = committed.version =>
          bindings[v] = NoInput /\ committed.callback = Legacy /\ committed.preferences = Legacy

PostsFit ==
  /\ submit.at = "post" => bindings[submit.version] = submit.input
  /\ \A letter \in delayed :
       letter.to = "profiler" => bindings[letter.what.version] = letter.what.input
RunsFit == \A run \in posted : Fits(run.version, run.input)
FixtureInv ==
  /\ FixtureTypeOK /\ OneInputContext /\ PostsFit /\ RunsFit
  /\ committed.preferences # NoInput

LEMMA FixtureStart ==
  ASSUME FixtureAssumption, FixtureInit
  PROVE  FixtureInv
<1>1. PICK v \in SourceVersions, b \in BOOLEAN :
        /\ committed = [version |-> v, preferences |-> Legacy,
                        callback |-> IF b THEN Legacy ELSE NoInput]
        /\ posted = IF b THEN {[version |-> v, input |-> Legacy]} ELSE {}
  BY DEF FixtureInit
<1>2. v \in Nat /\ Legacy # NoInput
  BY FixtureAssumption DEF FixtureAssumption
<1>3. FixtureTypeOK /\ OneInputContext
  BY <1>1 DEF FixtureInit, FixtureTypeOK, OneInputContext, MaybeInput
<1>4. \A run \in posted : Fits(run.version, run.input)
  BY <1>1, <1>2 DEF FixtureInit, Fits
<1> QED BY <1>1, <1>2, <1>3, <1>4 DEF FixtureInit, FixtureInv, PostsFit, RunsFit, NoSubmit

(* A version is bound once: what is known of the others stays. *)
LEMMA BindingStays ==
  ASSUME FixtureAssumption, FixtureInv, NEW v \in SourceVersions, NEW i \in Inputs,
         MayBind(v, i), BindAt(v, i), UNCHANGED committed
  PROVE  /\ bindings' \in [SourceVersions -> Inputs \cup {NoInput}]
         /\ bindings'[v] = i
         /\ \A w \in SourceVersions : bindings[w] # NoInput => bindings'[w] = bindings[w]
         /\ \A run \in posted : Fits(run.version, run.input)'
<1> USE DEF RunsFit
<1>1. bindings' = [bindings EXCEPT ![v] = i] /\ bindings \in [SourceVersions -> Inputs \cup {NoInput}]
  BY DEF BindAt, FixtureInv, FixtureTypeOK
<1>2. /\ bindings' \in [SourceVersions -> Inputs \cup {NoInput}] /\ bindings'[v] = i
      /\ \A w \in SourceVersions : w # v => bindings'[w] = bindings[w]
  BY <1>1
<1>3. bindings[v] # NoInput => bindings[v] = i
  BY DEF MayBind
<1>4. ASSUME NEW run \in posted PROVE Fits(run.version, run.input)'
  <2>1. run.version \in SourceVersions /\ Fits(run.version, run.input)
    BY DEF FixtureInv, FixtureTypeOK
  <2>2. CASE bindings[run.version] = run.input /\ run.input # NoInput
    BY <1>2, <1>3, <2>1, <2>2 DEF Fits
  <2>3. CASE bindings[run.version] # run.input
    <3>1. /\ run.input = Legacy /\ run.version <= committed.version
          /\ run.version = committed.version =>
               bindings[run.version] = NoInput /\ committed.callback = Legacy
               /\ committed.preferences = Legacy
      BY <2>1, <2>3 DEF Fits
    <3>2. Legacy # NoInput
      BY FixtureAssumption DEF FixtureAssumption
    <3>3. run.version = committed.version => run.version # v
      BY <3>1, <3>2 DEF MayBind
    <3> QED BY <1>2, <2>1, <3>1, <3>3 DEF Fits
  <2>4. CASE run.input = NoInput
    BY <2>1, <2>4, FixtureAssumption DEF Fits, FixtureAssumption
  <2> QED BY <2>2, <2>3, <2>4
<1> QED BY <1>2, <1>3, <1>4

LEMMA FixtureStep ==
  ASSUME FixtureAssumption, FixtureInv, [FixtureNext]_fixtureVars
  PROVE  FixtureInv' /\ (GoesForward \/ UNCHANGED fixtureVars)
<1>1. CASE UNCHANGED fixtureVars
  BY <1>1 DEF fixtureVars, FixtureInv, FixtureTypeOK, OneInputContext, PostsFit, RunsFit, Fits
<1>2. committed.version \in Nat /\ NoInput \notin Inputs /\ Legacy # NoInput
  BY FixtureAssumption DEF FixtureInv, FixtureTypeOK, FixtureAssumption
<1>3. CASE Callback
  <2>1. PICK run \in posted : /\ MayCommit(run.version) /\ Commit(run.version, run.input)
                              /\ UNCHANGED <<inputs, submit, bindings, posted, delayed>>
    BY <1>3 DEF Callback
  <2>2. /\ run.version \in SourceVersions /\ run.input \in Inputs \cup {Legacy}
        /\ Fits(run.version, run.input) /\ run.version >= committed.version
        /\ run.version # committed.version => bindings[run.version] # NoInput
        /\ run.version \in Nat
    BY <2>1, FixtureAssumption DEF FixtureInv, FixtureTypeOK, RunsFit, MayCommit, FixtureAssumption
  <2>3. committed' = [version |-> run.version, callback |-> run.input,
                      preferences |-> IF bindings[run.version] # NoInput THEN bindings[run.version]
                                      ELSE committed.preferences]
    BY <2>1 DEF Commit
  <2>4. committed'.preferences = run.input
    <3>1. CASE bindings[run.version] = run.input /\ run.input # NoInput
      BY <2>3, <3>1
    <3>2. CASE /\ run.input = Legacy /\ run.version <= committed.version
               /\ run.version = committed.version =>
                    bindings[run.version] = NoInput /\ committed.callback = Legacy
                    /\ committed.preferences = Legacy
      BY <1>2, <2>2, <2>3, <3>2
    <3> QED BY <2>2, <3>1, <3>2 DEF Fits
  <2>5. /\ committed'.version = run.version /\ committed'.callback = run.input
        /\ committed' \in [version : SourceVersions, preferences : MaybeInput, callback : MaybeInput]
    BY <2>2, <2>3, <2>4 DEF FixtureInv, FixtureTypeOK, MaybeInput
  <2>6. ASSUME NEW other \in posted PROVE Fits(other.version, other.input)'
    <3>1. /\ other.version \in SourceVersions /\ Fits(other.version, other.input)
          /\ other.version \in Nat
      BY FixtureAssumption DEF FixtureInv, FixtureTypeOK, RunsFit, FixtureAssumption
    <3>2. CASE bindings[other.version] = other.input /\ other.input # NoInput
      BY <2>1, <3>2 DEF Fits
    <3>3. CASE /\ other.input = Legacy /\ other.version <= committed.version
               /\ other.version = committed.version =>
                    bindings[other.version] = NoInput /\ committed.callback = Legacy
                    /\ committed.preferences = Legacy
      <4>1. other.version <= committed'.version
        BY <1>2, <2>2, <2>5, <3>1, <3>3
      <4>2. other.version = committed'.version =>
              bindings[other.version] = NoInput /\ committed'.callback = Legacy
              /\ committed'.preferences = Legacy
        <5> SUFFICES ASSUME other.version = run.version
                     PROVE  bindings[other.version] = NoInput /\ run.input = Legacy
          BY <2>4, <2>5
        <5>1. run.version = committed.version /\ bindings[run.version] = NoInput
          BY <1>2, <2>2, <3>1, <3>3
        <5> QED BY <2>2, <5>1 DEF Fits
      <4> QED BY <2>1, <3>3, <4>1, <4>2 DEF Fits
    <3> QED BY <3>1, <3>2, <3>3 DEF Fits
  <2>7. GoesForward
    BY <2>2, <2>5 DEF GoesForward
  <2>8. FixtureTypeOK' /\ OneInputContext'
    BY <2>1, <2>4, <2>5 DEF FixtureInv, FixtureTypeOK, OneInputContext
  <2>9. committed'.preferences # NoInput
    BY <1>2, <2>2, <2>4
  <2> QED BY <2>1, <2>6, <2>7, <2>8, <2>9 DEF FixtureInv, PostsFit, RunsFit
<1>4. UNCHANGED committed => GoesForward
  BY <1>2 DEF GoesForward
<1>12. ASSUME UNCHANGED committed, FixtureTypeOK', PostsFit', RunsFit' PROVE FixtureInv'
  BY <1>12 DEF FixtureInv, OneInputContext
<1>5. ASSUME NEW v \in SourceVersions, NEW i \in Inputs, SubmitProfile(v, i)
      PROVE  FixtureInv'
  <2>1. FixtureTypeOK'
    BY <1>5 DEF SubmitProfile, FixtureInv, FixtureTypeOK
  <2>2. PostsFit' /\ RunsFit'
    BY <1>5 DEF SubmitProfile, FixtureInv, PostsFit, RunsFit, Fits
  <2> QED BY <1>5, <1>12, <2>1, <2>2 DEF SubmitProfile
<1>6. CASE Bound
  <2>1. /\ submit.at = "bind" /\ submit.version \in SourceVersions /\ submit.input \in Inputs
        /\ submit \in [at : {"bind", "post"}, version : SourceVersions, input : Inputs]
    BY <1>6 DEF Bound, FixtureInv, FixtureTypeOK, NoSubmit
  <2>2. /\ bindings' \in [SourceVersions -> Inputs \cup {NoInput}]
        /\ bindings'[submit.version] = submit.input
        /\ \A w \in SourceVersions : bindings[w] # NoInput => bindings'[w] = bindings[w]
        /\ \A run \in posted : Fits(run.version, run.input)'
    <3>1. PICK v \in SourceVersions, i \in Inputs : v = submit.version /\ i = submit.input
      BY <2>1
    <3>2. MayBind(v, i) /\ BindAt(v, i) /\ UNCHANGED committed
      BY <1>6, <3>1 DEF Bound
    <3> QED BY <3>1, <3>2, BindingStays
  <2>3. /\ submit' \in [at : {"bind", "post"}, version : SourceVersions, input : Inputs]
        /\ submit'.version = submit.version /\ submit'.input = submit.input
        /\ UNCHANGED <<inputs, committed, posted, delayed>>
    BY <1>6, <2>1 DEF Bound
  <2>4. \A letter \in delayed :
          letter.to = "profiler" => bindings'[letter.what.version] = letter.what.input
    BY <1>2, <2>2 DEF FixtureInv, FixtureTypeOK, PostsFit, Submission
  <2>5. FixtureTypeOK'
    BY <2>2, <2>3 DEF FixtureInv, FixtureTypeOK
  <2>6. PostsFit' /\ RunsFit'
    BY <2>2, <2>3, <2>4 DEF PostsFit, RunsFit
  <2> QED BY <1>4, <1>12, <2>3, <2>5, <2>6
<1>7. CASE NotBound \/ NotAccepted
  <2>1. /\ submit.at \in {"bind", "post"}
        /\ submit \in [at : {"bind", "post"}, version : SourceVersions, input : Inputs]
    BY <1>7 DEF NotBound, NotAccepted, FixtureInv, FixtureTypeOK, NoSubmit
  <2>2. PICK to \in {"fixture", "profiler"} :
          /\ submit' = NoSubmit /\ (to = "profiler" => submit.at = "post")
          /\ delayed' \in {delayed, delayed \cup {[to |-> to, what |-> Target]}}
          /\ UNCHANGED <<inputs, committed, bindings, posted>>
    BY <1>7 DEF NotBound, NotAccepted, Unanswered, EndSubmit
  <2>3. Target \in Submission /\ Target.version = submit.version /\ Target.input = submit.input
    BY <2>1 DEF Target, Submission
  <2>4. \A letter \in delayed' :
          /\ letter \in [to : {"fixture", "profiler"}, what : Submission]
          /\ letter.to = "profiler" => bindings[letter.what.version] = letter.what.input
    <3> HIDE DEF Target
    <3> QED BY <2>2, <2>3 DEF FixtureInv, FixtureTypeOK, PostsFit
  <2>5. FixtureTypeOK'
    BY <2>2, <2>4 DEF FixtureInv, FixtureTypeOK
  <2>6. PostsFit' /\ RunsFit'
    BY <2>2, <2>4 DEF FixtureInv, PostsFit, RunsFit, Fits, NoSubmit
  <2> QED BY <1>4, <1>12, <2>2, <2>5, <2>6
<1>8. CASE Accepted
  <2>1. /\ submit.at = "post"
        /\ submit \in [at : {"bind", "post"}, version : SourceVersions, input : Inputs]
    BY <1>8 DEF Accepted, FixtureInv, FixtureTypeOK, NoSubmit
  <2>2. /\ Target.version = submit.version /\ Target.input = submit.input
        /\ Target \in [version : SourceVersions, input : Inputs \cup {Legacy}]
    BY <2>1 DEF Target
  <2>3. Fits(Target.version, Target.input)
    BY <1>2, <2>1, <2>2 DEF Fits, FixtureInv, PostsFit
  <2>4. /\ submit' = NoSubmit /\ posted' = posted \cup {Target}
        /\ inputs' \in [SourceVersions -> Inputs \cup {NoInput}]
        /\ UNCHANGED <<committed, bindings, delayed>>
    BY <1>8, <2>1 DEF Accepted, EndSubmit, FixtureInv, FixtureTypeOK
  <2>5. /\ posted' \subseteq [version : SourceVersions, input : Inputs \cup {Legacy}]
        /\ \A run \in posted' : Fits(run.version, run.input)
    <3> HIDE DEF Target
    <3> QED BY <2>2, <2>3, <2>4 DEF FixtureInv, FixtureTypeOK, RunsFit
  <2>6. FixtureTypeOK'
    BY <2>4, <2>5 DEF FixtureInv, FixtureTypeOK
  <2>7. PostsFit' /\ RunsFit'
    BY <2>4, <2>5 DEF FixtureInv, PostsFit, RunsFit, Fits, NoSubmit
  <2> QED BY <1>4, <1>12, <2>4, <2>6, <2>7
<1>9. CASE Restart
  <2>1. FixtureTypeOK'
    BY <1>9 DEF Restart, EndSubmit, FixtureInv, FixtureTypeOK
  <2>2. PostsFit' /\ RunsFit'
    BY <1>9 DEF Restart, EndSubmit, FixtureInv, PostsFit, RunsFit, Fits, NoSubmit
  <2> QED BY <1>4, <1>9, <1>12, <2>1, <2>2 DEF Restart
<1>10. CASE Arrives
  <2>1. PICK letter \in delayed :
          /\ delayed' = delayed \ {letter} /\ UNCHANGED <<inputs, submit, committed>>
          /\ \/ /\ letter.to = "profiler"
                /\ posted' = posted \cup {letter.what}
                /\ UNCHANGED bindings
             \/ /\ letter.to = "fixture"
                /\ IF MayBind(letter.what.version, letter.what.input)
                     THEN BindAt(letter.what.version, letter.what.input)
                     ELSE UNCHANGED bindings
                /\ UNCHANGED posted
    BY <1>10 DEF Arrives
  <2>2. letter.what \in Submission
    BY DEF FixtureInv, FixtureTypeOK
  <2>3. CASE letter.to = "profiler"
    <3>1. /\ posted' = posted \cup {letter.what} /\ UNCHANGED bindings
          /\ bindings[letter.what.version] = letter.what.input
      BY <2>1, <2>3 DEF FixtureInv, PostsFit
    <3>2. Fits(letter.what.version, letter.what.input)
      BY <1>2, <2>2, <3>1 DEF Fits, Submission
    <3>3. /\ posted' \subseteq [version : SourceVersions, input : Inputs \cup {Legacy}]
          /\ \A run \in posted' : Fits(run.version, run.input)
      BY <2>2, <3>1, <3>2 DEF FixtureInv, FixtureTypeOK, RunsFit, Submission
    <3>4. FixtureTypeOK'
      BY <2>1, <3>1, <3>3 DEF FixtureInv, FixtureTypeOK
    <3>5. PostsFit' /\ RunsFit'
      BY <2>1, <3>1, <3>3 DEF FixtureInv, PostsFit, RunsFit, Fits
    <3> QED BY <1>4, <1>12, <2>1, <3>4, <3>5
  <2>4. CASE letter.to = "fixture" /\ MayBind(letter.what.version, letter.what.input)
    <3>1. PICK v \in SourceVersions, i \in Inputs : v = letter.what.version /\ i = letter.what.input
      BY <2>2 DEF Submission
    <3>2. MayBind(v, i) /\ BindAt(v, i) /\ UNCHANGED <<inputs, submit, committed, posted>>
      BY <2>1, <2>4, <3>1
    <3>3. /\ bindings' \in [SourceVersions -> Inputs \cup {NoInput}]
          /\ \A w \in SourceVersions : bindings[w] # NoInput => bindings'[w] = bindings[w]
          /\ \A run \in posted : Fits(run.version, run.input)'
      BY <3>2, BindingStays
    <3>4. submit.at = "post" => bindings'[submit.version] = submit.input
      BY <1>2, <3>3 DEF FixtureInv, FixtureTypeOK, PostsFit, NoSubmit
    <3>5. \A other \in delayed :
            other.to = "profiler" => bindings'[other.what.version] = other.what.input
      BY <1>2, <3>3 DEF FixtureInv, FixtureTypeOK, PostsFit, Submission
    <3>6. FixtureTypeOK'
      BY <2>1, <3>2, <3>3 DEF FixtureInv, FixtureTypeOK
    <3>7. PostsFit' /\ RunsFit'
      BY <2>1, <3>2, <3>3, <3>4, <3>5 DEF PostsFit, RunsFit
    <3> QED BY <1>4, <1>12, <3>2, <3>6, <3>7
  <2>5. CASE letter.to = "fixture" /\ ~MayBind(letter.what.version, letter.what.input)
    <3>1. UNCHANGED <<inputs, submit, committed, bindings, posted>> /\ delayed' = delayed \ {letter}
      BY <2>1, <2>5
    <3>2. FixtureTypeOK'
      BY <3>1 DEF FixtureInv, FixtureTypeOK
    <3>3. PostsFit' /\ RunsFit'
      BY <3>1 DEF FixtureInv, PostsFit, RunsFit, Fits
    <3> QED BY <1>4, <1>12, <3>1, <3>2, <3>3
  <2> QED BY <2>1, <2>3, <2>4, <2>5
<1>11. Bound \/ NotBound \/ Accepted \/ NotAccepted \/ Restart \/ Arrives
        \/ (\E v \in SourceVersions, i \in Inputs : SubmitProfile(v, i)) => UNCHANGED committed
  BY DEF Bound, NotBound, Accepted, NotAccepted, Restart, Arrives, SubmitProfile, Unanswered
<1> QED
  BY <1>1, <1>3, <1>4, <1>5, <1>6, <1>7, <1>8, <1>9, <1>10, <1>11 DEF FixtureNext

(* For any versions and inputs, whatever was lost, posted again, restarted *)
(* or called back late: the context Chat is given is made of one input, *)
(* and the recipient never goes back to an earlier version of its data *)
(* (integration/live_backend.py bind_profile_input, callback). *)
THEOREM ContextsAreOfOneInput ==
  ASSUME FixtureAssumption
  PROVE  FixtureSpec => [](FixtureTypeOK /\ OneInputContext) /\ ContextForward
<1>1. FixtureInit => FixtureInv
  BY FixtureStart
<1>2. FixtureInv /\ [FixtureNext]_fixtureVars => FixtureInv'
  BY FixtureStep
<1>3. FixtureInv /\ [FixtureNext]_fixtureVars => [GoesForward]_fixtureVars
  BY FixtureStep
<1>4. FixtureInv => FixtureTypeOK /\ OneInputContext
  BY DEF FixtureInv
<1> QED BY <1>1, <1>2, <1>3, <1>4, PTL DEF FixtureSpec, ContextForward

-----------------------------------------------------------------------------
(* The launcher of the fixture. *)

Phases == Setup \cup Stopping \cup Over \cup {"idle", "serving"}
Active(l) == phase[l] \notin {"idle", "gone"}
Listed(l, s) == \E i \in 1..Len(children[l]) : children[l][i] = s
Foreseen(s) == UnderWay(s) <= missed[s]
Unborn(l) == l \notin ready /\ children[l] = <<>> /\ \A s \in Service : l \notin alive[s]

LauncherTyped ==
  /\ phase \in [Launches -> Phases] /\ children \in [Launches -> Seq(Service)]
  /\ alive \in [Service -> SUBSET Launches] /\ cluster \in BOOLEAN
  /\ ready \subseteq Launches
  /\ work \in [JobPlace -> Nat] /\ missed \in [Workers -> Nat]

(* What is known of one launch: the cluster it started runs and nothing *)
(* runs but what it lists; once it was in use its console is down before *)
(* it drains, and before it stops anything what is at work is no more than *)
(* it could not see. *)
LaunchKnows(l) ==
  /\ phase[l] = "idle" => l \notin started /\ Unborn(l)
  /\ Active(l) /\ l \notin started =>
       /\ Unborn(l)
       /\ phase[l] \in {"initialise", "cluster", "closeUI", "stop", "stopCluster"}
  /\ Active(l) /\ l \in started =>
       cluster /\ \A s \in Service : alive[s] \subseteq {l} /\ (l \in alive[s] => Listed(l, s))
  /\ phase[l] = "start" => Len(children[l]) < Len(Services)
  /\ phase[l] \in {"console", "serving", "bounded", "boundedHealth"} => Listed(l, "console")
  /\ l \in ready /\ phase[l] \in {"drain", "drainHealth", "stop", "stopCluster"} =>
       alive["console"] = {}
  /\ l \in ready /\ phase[l] \in {"drainHealth", "stop", "stopCluster"} => Foreseen("chat")
  /\ l \in ready /\ phase[l] \in {"stop", "stopCluster"} => Foreseen("profiling")
  /\ phase[l] \in {"prepare", "check", "mark", "stopCluster"} => children[l] = <<>>

LauncherInv ==
  /\ LauncherTyped /\ OneLaunch
  /\ \A l, m \in Launches : Active(l) /\ Active(m) => l = m
  /\ \A l \in Launches : LaunchKnows(l)

LEMMA ServicesAre ==
  /\ Services \in Seq(Service) /\ Len(Services) = 5 /\ Services[5] = "console"
  /\ "console" \in Service /\ \A i \in 1..5 : Services[i] \in Service
<1>1. Len(Services) = 5 /\ Services[5] = "console" /\ DOMAIN Services = 1..5
  BY DEF Services
<1>2. \A i \in 1..5 : Services[i] \in Service
  BY <1>1 DEF Service
<1>3. Services \in Seq(Service)
  BY <1>2 DEF Services
<1> QED BY <1>1, <1>2, <1>3

LEMMA LauncherStart ==
  ASSUME LauncherInit
  PROVE  LauncherInv
<1>1. LauncherTyped
  <2>1. phase \in [Launches -> Phases]
    BY DEF LauncherInit, Phases
  <2>2. children \in [Launches -> Seq(Service)]
    BY DEF LauncherInit
  <2>3. alive \in [Service -> SUBSET Launches]
    BY DEF LauncherInit
  <2>4. ready \subseteq Launches /\ cluster \in BOOLEAN
        /\ work \in [JobPlace -> Nat] /\ missed \in [Workers -> Nat]
    BY DEF LauncherInit
  <2> QED BY <2>1, <2>2, <2>3, <2>4 DEF LauncherTyped
<1>2. OneLaunch
  BY DEF LauncherInit, OneLaunch
<1>3. \A l \in Launches : LaunchKnows(l) /\ ~Active(l)
  BY DEF LauncherInit, LaunchKnows, Active, Unborn
<1> QED BY <1>1, <1>2, <1>3 DEF LauncherInv

(* A step of the one launch that is active leaves the others at rest. *)
LEMMA OthersRest ==
  ASSUME LauncherInv, LauncherTyped', OneLaunch', NEW l \in Launches,
         \A m \in Launches \ {l} : ~Active(m), LaunchKnows(l)',
         \A m \in Launches \ {l} :
            /\ phase'[m] = phase[m] /\ children'[m] = children[m]
            /\ (m \in started' <=> m \in started) /\ (m \in ready' <=> m \in ready)
            /\ \A s \in Service : m \in alive'[s] => m \in alive[s]
  PROVE  LauncherInv'
<1>1. ASSUME NEW m \in Launches, m # l PROVE ~Active(m)' /\ LaunchKnows(m)'
  <2>1. phase[m] \in {"idle", "gone"} /\ phase'[m] = phase[m]
    BY <1>1 DEF Active
  <2>2. phase[m] = "idle" => m \notin started' /\ Unborn(m)'
    BY <1>1 DEF LauncherInv, LaunchKnows, Unborn
  <2> QED BY <2>1, <2>2 DEF LaunchKnows, Active
<1> QED BY <1>1 DEF LauncherInv

(* A step that starts no service and does not touch the cluster keeps all *)
(* the services of one launch. *)
LEMMA LaunchesStayOne ==
  ASSUME OneLaunch, UNCHANGED cluster, \A s \in Service : alive'[s] \subseteq alive[s]
  PROVE  OneLaunch'
BY DEF OneLaunch

(* What every launcher's step needs of the state before it. *)
LEMMA LaunchAlone ==
  ASSUME LauncherInv, NEW l \in Launches, Active(l)
  PROVE  /\ \A m \in Launches \ {l} : ~Active(m)
         /\ LaunchKnows(l) /\ LauncherTyped /\ OneLaunch
BY DEF LauncherInv

(* Where a launch goes on without a change of anything else. *)
LEMMA GoesOn ==
  ASSUME LauncherInv, NEW l \in Launches, Active(l), NEW p \in Phases, Go(l, p),
         UNCHANGED <<resumes, started, children, ready, cluster, alive, work>>,
         p # "idle", missed' \in [Workers -> Nat],
         p \in {"console", "serving", "bounded", "boundedHealth"} => Listed(l, "console"),
         p = "start" => Len(children[l]) < Len(Services),
         p \in {"initialise", "cluster", "closeUI", "stop", "stopCluster", "gone"} \/ l \in started,
         l \in ready /\ p \in {"drain", "drainHealth", "stop", "stopCluster"} =>
           alive["console"] = {},
         l \in ready /\ p \in {"drainHealth", "stop", "stopCluster"} => Foreseen("chat")',
         l \in ready /\ p \in {"stop", "stopCluster"} => Foreseen("profiling")',
         p \in {"prepare", "check", "mark", "stopCluster"} => children[l] = <<>>
  PROVE  LauncherInv'
<1>1. /\ \A m \in Launches \ {l} : ~Active(m)
      /\ LaunchKnows(l) /\ LauncherTyped /\ OneLaunch
  BY LaunchAlone
<1>2. phase' = [phase EXCEPT ![l] = p] /\ phase'[l] = p
  BY <1>1 DEF Go, LauncherTyped
<1>3. LauncherTyped' /\ OneLaunch'
  BY <1>1, <1>2 DEF LauncherTyped, OneLaunch
<1>4. LaunchKnows(l)'
  BY <1>1, <1>2 DEF LaunchKnows, Active, Unborn, Listed
<1>5. \A m \in Launches \ {l} :
            /\ phase'[m] = phase[m] /\ children'[m] = children[m]
            /\ (m \in started' <=> m \in started) /\ (m \in ready' <=> m \in ready)
            /\ \A s \in Service : m \in alive'[s] => m \in alive[s]
  BY <1>1, <1>2 DEF LauncherTyped
<1> QED BY <1>1, <1>3, <1>4, <1>5, OthersRest

(* With a process goes what only it knows of. *)
LEMMA DownLoses ==
  ASSUME LauncherTyped, NEW l \in Launches, NEW s \in Service, Down(l, s)
  PROVE  /\ work' \in [JobPlace -> Nat] /\ missed' = missed
         /\ \A t \in Workers : Foreseen(t) => Foreseen(t)'
         /\ alive' \in [Service -> SUBSET Launches] /\ alive'[s] = alive[s] \ {l}
         /\ \A t \in Service : alive'[t] \subseteq alive[t]
<1>1. \A p \in JobPlace : work[p] \in Nat /\ work'[p] \in {0, work[p]}
  BY DEF LauncherTyped, Down
<1>2. work' \in [JobPlace -> Nat] /\ missed' = missed /\ missed \in [Workers -> Nat]
  BY DEF LauncherTyped, Down
<1>3. ASSUME NEW t \in Workers PROVE Foreseen(t) => Foreseen(t)'
  BY <1>1, <1>2 DEF Foreseen, UnderWay, JobPlace, JobPlaces, Workers
<1> QED BY <1>2, <1>3 DEF LauncherTyped, Down

(* A step that is of no launcher: a service ends, a job comes or ends. *)
LEMMA ServicesMove ==
  ASSUME LauncherInv, UNCHANGED <<phase, started, children, ready, cluster>>,
         alive' \in [Service -> SUBSET Launches], work' \in [JobPlace -> Nat],
         missed' = missed,
         \A s \in Service : alive'[s] \subseteq alive[s],
         alive["console"] # {} \/ \A s \in Workers : Foreseen(s) => Foreseen(s)'
  PROVE  LauncherInv'
<1>1. LauncherTyped' /\ OneLaunch'
  BY DEF LauncherInv, LauncherTyped, OneLaunch
<1>2. ASSUME NEW l \in Launches PROVE LaunchKnows(l)'
  <2>1. LaunchKnows(l)
    BY DEF LauncherInv
  <2>2. "console" \in Service
    BY ServicesAre
  <2>3. l \in ready /\ phase[l] \in {"drain", "drainHealth", "stop", "stopCluster"} =>
          alive'["console"] = {}
    BY <2>1, <2>2 DEF LaunchKnows
  <2>4. /\ l \in ready /\ phase[l] \in {"drainHealth", "stop", "stopCluster"} => Foreseen("chat")'
        /\ l \in ready /\ phase[l] \in {"stop", "stopCluster"} => Foreseen("profiling")'
    BY <2>1 DEF LaunchKnows, Workers
  <2>5. /\ phase[l] = "idle" => l \notin started /\ Unborn(l)'
        /\ Active(l) /\ l \notin started => Unborn(l)'
    BY <2>1 DEF LaunchKnows, Unborn
  <2>6. Active(l) /\ l \in started =>
          cluster /\ \A s \in Service : alive'[s] \subseteq {l} /\ (l \in alive'[s] => Listed(l, s))
    BY <2>1 DEF LaunchKnows
  <2> QED BY <2>1, <2>3, <2>4, <2>5, <2>6 DEF LaunchKnows, Active, Listed
<1>3. \A l, m \in Launches : Active(l)' /\ Active(m)' => l = m
  BY DEF LauncherInv, Active
<1> QED BY <1>1, <1>2, <1>3 DEF LauncherInv

LEMMA LauncherStepKeeps ==
  ASSUME LauncherInv, NEW l \in Launches, LauncherStep(l)
  PROVE  LauncherInv'
<1>1. ASSUME NEW resume \in BOOLEAN, Launch(l, resume) PROVE LauncherInv'
  <2>1. /\ phase[l] = "idle" /\ \A m \in Launches : ~Active(m)
        /\ LaunchKnows(l) /\ LauncherTyped /\ OneLaunch
        /\ UNCHANGED <<cluster, alive, started, children, ready, asked, work, missed>>
    BY <1>1 DEF Launch, LeaseFree, Over, Active, LauncherInv
  <2>2. PICK p \in {"cluster", "initialise"} : phase' = [phase EXCEPT ![l] = p]
    BY <1>1 DEF Launch, Go
  <2>3. LauncherTyped' /\ OneLaunch' /\ phase'[l] = p
    BY <2>1, <2>2 DEF LauncherTyped, OneLaunch, Phases, Setup
  <2>4. LaunchKnows(l)'
    BY <2>1, <2>2, <2>3 DEF LaunchKnows, Active, Unborn
  <2>5. \A m \in Launches \ {l} : phase'[m] = phase[m]
    BY <2>1, <2>2 DEF LauncherTyped
  <2> QED BY <2>1, <2>3, <2>4, <2>5, OthersRest
<1>2. CASE Ask(l)
  BY <1>2, ServicesMove DEF Ask, LauncherInv, LauncherTyped, fixture, Foreseen, UnderWay
<1> SUFFICES ASSUME Active(l) PROVE LauncherInv'
  <2>1. Active(l) \/ Ask(l) \/ \E resume \in BOOLEAN : Launch(l, resume)
    BY DEF LauncherStep, Fails, Initialise, StartCluster, Prepare, CheckDatabase, Mark, StartNext,
           ConsoleReady, Watch, CountTurns, AskHealth, Refused, CloseUI, Preserved, Stop, StopCluster, Killed,
           Active, Setup, Over
  <2> QED BY <1>1, <1>2, <2>1
<1>3. /\ \A m \in Launches \ {l} : ~Active(m)
      /\ LaunchKnows(l) /\ LauncherTyped /\ OneLaunch
  BY LaunchAlone
<1> missed \in [Workers -> Nat]
  BY <1>3 DEF LauncherTyped
<1> USE DEF Phases, Setup, Draining, Stopping, Over, fixture, launch
<1>4. CASE Fails(l) \/ Initialise(l) \/ Prepare(l) \/ CheckDatabase(l)
  <2>1. CASE Fails(l)
    BY <2>1, GoesOn DEF Fails
  <2>2. CASE Initialise(l)
    BY <2>2, GoesOn DEF Initialise
  <2>3. CASE Prepare(l)
    <3>1. l \in started /\ children[l] = <<>>
      BY <1>3, <2>3 DEF Prepare, LaunchKnows
    <3> QED BY <2>3, <3>1, GoesOn DEF Prepare
  <2>4. CASE CheckDatabase(l)
    <3>1. l \in started /\ children[l] = <<>>
      BY <1>3, <2>4 DEF CheckDatabase, LaunchKnows
    <3> QED BY <2>4, <3>1, GoesOn DEF CheckDatabase
  <2> QED BY <1>4, <2>1, <2>2, <2>3, <2>4
<1>5. CASE StartCluster(l)
  <2>1. /\ phase[l] = "cluster" /\ ~cluster /\ cluster' = TRUE /\ started' = started \cup {l}
        /\ UNCHANGED <<children, ready, alive, work, missed>>
    BY <1>5 DEF StartCluster
  <2>2. PICK p \in {"check", "prepare"} : phase' = [phase EXCEPT ![l] = p]
    BY <1>5 DEF StartCluster, Go
  <2>3. phase'[l] = p /\ phase' \in [Launches -> Phases]
    BY <1>3, <2>2 DEF LauncherTyped
  <2>4. \A s \in Service : alive[s] = {}
    BY <1>3, <2>1 DEF OneLaunch, LauncherTyped
  <2>5. LauncherTyped' /\ OneLaunch'
    BY <1>3, <2>1, <2>3, <2>4 DEF LauncherTyped, OneLaunch
  <2>6. LaunchKnows(l)'
    <3>1. children[l] = <<>> /\ l \notin ready
      <4>1. l \notin started
        BY <1>3, <2>1 DEF LaunchKnows
      <4> QED BY <1>3, <2>1, <4>1 DEF LaunchKnows, Unborn
    <3> QED BY <2>1, <2>3, <2>4, <3>1 DEF LaunchKnows, Active
  <2>7. \A m \in Launches \ {l} : phase'[m] = phase[m] /\ (m \in started' <=> m \in started)
    BY <1>3, <2>1, <2>2 DEF LauncherTyped
  <2> QED BY <1>3, <2>1, <2>5, <2>6, <2>7, OthersRest
<1>6. CASE Mark(l)
  <2>1. l \in started /\ children[l] = <<>>
    BY <1>3, <1>6 DEF Mark, LaunchKnows
  <2>2. Len(children[l]) < Len(Services)
    BY <2>1, ServicesAre
  <2> QED BY <1>6, <2>1, <2>2, GoesOn DEF Mark
<1>7. CASE StartNext(l)
  <2> SUFFICES ASSUME NEW n, n = Len(children[l]) + 1, NEW s, s = Services[n],
                      NEW p, p = IF s = "console" THEN "console" ELSE "start"
               PROVE  LauncherInv'
    OBVIOUS
  <2>1. /\ phase[l] = "start" /\ l \in started /\ Len(children[l]) < Len(Services)
        /\ children[l] \in Seq(Service)
    BY <1>3, <1>7 DEF StartNext, LaunchKnows, Active, LauncherTyped
  <2>2. n \in 1..5 /\ s \in Service /\ (s # "console" => n < 5)
    BY <2>1, ServicesAre
  <2>3. /\ alive' = [alive EXCEPT ![s] = @ \cup {l}] /\ phase' = [phase EXCEPT ![l] = p]
        /\ children' = [children EXCEPT ![l] = Append(@, s)]
        /\ UNCHANGED <<started, ready, cluster, work, missed>>
    BY <1>7 DEF StartNext, Spawn, Go
  <2>4. /\ phase' \in [Launches -> Phases] /\ phase'[l] = p /\ p \in {"console", "start"}
        /\ \A m \in Launches \ {l} : phase'[m] = phase[m]
    BY <1>3, <2>3 DEF LauncherTyped
  <2>5. /\ alive' \in [Service -> SUBSET Launches] /\ alive'[s] = alive[s] \cup {l}
        /\ \A t \in Service : t # s => alive'[t] = alive[t]
    BY <1>3, <2>2, <2>3 DEF LauncherTyped
  <2>6. /\ children' \in [Launches -> Seq(Service)] /\ children'[l] = Append(children[l], s)
        /\ \A m \in Launches \ {l} : children'[m] = children[m]
    BY <1>3, <2>2, <2>3 DEF LauncherTyped
  <2>7. /\ Len(children'[l]) = n /\ children'[l][n] = s
        /\ \A i \in 1..Len(children[l]) : children'[l][i] = children[l][i]
    BY <2>1, <2>6
  <2>8. n \in 1..Len(children'[l]) /\ \A i \in 1..Len(children[l]) : i \in 1..Len(children'[l])
    BY <2>1, <2>2, <2>7
  <2>9. Listed(l, s)' /\ \A t \in Service : Listed(l, t) => Listed(l, t)'
    <3>1. Listed(l, s)'
      BY <2>7, <2>8 DEF Listed
    <3>2. ASSUME NEW t \in Service, Listed(l, t) PROVE Listed(l, t)'
      BY <2>7, <2>8, <3>2 DEF Listed
    <3> QED BY <3>1, <3>2
  <2>10. cluster /\ \A t \in Service : alive[t] \subseteq {l} /\ (l \in alive[t] => Listed(l, t))
    BY <1>3, <2>1 DEF LaunchKnows, Active
  <2>11. \A t \in Service : alive'[t] \subseteq {l} /\ (l \in alive'[t] => Listed(l, t)')
    BY <2>5, <2>9, <2>10
  <2>12. LauncherTyped' /\ OneLaunch'
    BY <1>3, <2>3, <2>4, <2>5, <2>6, <2>10, <2>11 DEF LauncherTyped, OneLaunch
  <2>13. LaunchKnows(l)'
    <3>1. phase'[l] = "start" => Len(children'[l]) < Len(Services)
      BY <2>2, <2>4, <2>7, ServicesAre
    <3>2. phase'[l] = "console" => Listed(l, "console")'
      BY <2>4, <2>9
    <3> QED BY <2>1, <2>3, <2>4, <2>10, <2>11, <3>1, <3>2 DEF LaunchKnows, Active
  <2> QED BY <1>3, <2>3, <2>4, <2>5, <2>6, <2>12, <2>13, OthersRest
<1>8. CASE ConsoleReady(l)
  <2>1. /\ phase[l] = "console" /\ phase' = [phase EXCEPT ![l] = "serving"] /\ ready' = ready \cup {l}
        /\ UNCHANGED <<started, children, cluster, alive, work, missed>>
    BY <1>8 DEF ConsoleReady, Go
  <2>2. phase' \in [Launches -> Phases] /\ phase'[l] = "serving"
        /\ \A m \in Launches \ {l} : phase'[m] = phase[m]
    BY <1>3, <2>1 DEF LauncherTyped
  <2>3. LauncherTyped' /\ OneLaunch'
    BY <1>3, <2>1, <2>2 DEF LauncherTyped, OneLaunch
  <2>4. LaunchKnows(l)'
    BY <1>3, <2>1, <2>2 DEF LaunchKnows, Active, Listed
  <2> QED BY <1>3, <2>1, <2>2, <2>3, <2>4, OthersRest
<1>9. ASSUME NEW p \in {"bounded", "drain"}, NEW s \in Service, Go(l, p), Down(l, s), l \in started,
             p = "bounded" => Listed(l, "console"), p = "drain" => s = "console",
             UNCHANGED <<started, children, ready, cluster>>
      PROVE  LauncherInv'
  <2>1. /\ phase' \in [Launches -> Phases] /\ phase'[l] = p
        /\ \A m \in Launches \ {l} : phase'[m] = phase[m]
    BY <1>3, <1>9 DEF LauncherTyped, Go
  <2>2. /\ alive' \in [Service -> SUBSET Launches] /\ alive'[s] = alive[s] \ {l}
        /\ \A t \in Service : alive'[t] \subseteq alive[t]
        /\ work' \in [JobPlace -> Nat] /\ missed' = missed
    BY <1>3, <1>9, DownLoses
  <2>3. LauncherTyped' /\ OneLaunch'
    BY <1>3, <1>9, <2>1, <2>2 DEF LauncherTyped, OneLaunch
  <2>4. cluster /\ \A t \in Service : alive[t] \subseteq {l} /\ (l \in alive[t] => Listed(l, t))
    BY <1>3, <1>9 DEF LaunchKnows
  <2>5. p = "drain" => alive'["console"] = {}
    BY <1>9, <2>2, <2>4
  <2>6. LaunchKnows(l)'
    BY <1>9, <2>1, <2>2, <2>4, <2>5 DEF LaunchKnows, Active, Listed
  <2> QED BY <1>3, <1>9, <2>1, <2>2, <2>3, <2>6, OthersRest
<1>10. CASE Watch(l)
  <2>1. /\ phase[l] = "serving" /\ l \in started /\ Listed(l, "console")
        /\ children[l] \in Seq(Service)
    BY <1>3, <1>10 DEF Watch, LaunchKnows, Active, LauncherTyped
  <2>2. CASE Go(l, "closeUI") /\ Keep
    BY <1>10, <2>1, <2>2, GoesOn DEF Watch, Keep
  <2>3. CASE Down(l, LastChild(l)) /\ Go(l, "bounded")
    <3>1. LastChild(l) \in Service
      <4>1. children[l] # <<>> /\ Len(children[l]) \in 1..Len(children[l])
        BY <2>1 DEF Listed
      <4> QED BY <2>1, <4>1 DEF LastChild
    <3> QED BY <1>9, <1>10, <2>1, <2>3, <3>1 DEF Watch
  <2> QED BY <1>10, <2>2, <2>3 DEF Watch
<1>11. CASE CountTurns(l)
  <2>1. /\ UNCHANGED <<resumes, started, children, ready, cluster, alive, work>>
        /\ missed' = [missed EXCEPT !["chat"] = work["starting"]] /\ work["stored"] = 0
    BY <1>11 DEF CountTurns
  <2>2. "chat" \in Workers /\ \A p \in JobPlace : work[p] \in Nat
    BY <1>3 DEF LauncherTyped, Workers
  <2>3. missed' \in [Workers -> Nat] /\ Foreseen("chat")'
    <3>1. work["starting"] \in Nat /\ work'["starting"] = work["starting"] /\ work'["stored"] = 0
      BY <2>1, <2>2 DEF JobPlace, JobPlaces
    <3>2. missed' \in [Workers -> Nat] /\ missed'["chat"] = work["starting"]
      BY <2>1, <2>2, <3>1
    <3> QED BY <3>1, <3>2 DEF Foreseen, UnderWay
  <2>4. CASE phase[l] = "drain" /\ Go(l, "drainHealth")
    BY <1>3, <2>1, <2>3, <2>4, GoesOn DEF LaunchKnows, Active
  <2>5. CASE phase[l] = "bounded" /\ Go(l, "boundedHealth")
    BY <1>3, <2>1, <2>3, <2>5, GoesOn DEF LaunchKnows, Active
  <2> QED BY <1>11, <2>4, <2>5 DEF CountTurns
<1>12. CASE Refused(l)
  <2>1. /\ phase[l] \in {"bounded", "boundedHealth"} /\ l \in started /\ Listed(l, "console")
        /\ phase' = [phase EXCEPT ![l] = "serving"]
        /\ alive' = [alive EXCEPT !["console"] = @ \cup {l}]
        /\ UNCHANGED <<started, children, ready, cluster, work, missed>>
    BY <1>3, <1>12 DEF Refused, Go, LaunchKnows, Active
  <2>2. /\ phase' \in [Launches -> Phases] /\ phase'[l] = "serving"
        /\ \A m \in Launches \ {l} : phase'[m] = phase[m]
    BY <1>3, <2>1 DEF LauncherTyped
  <2>3. /\ alive' \in [Service -> SUBSET Launches]
        /\ alive'["console"] = alive["console"] \cup {l}
        /\ \A t \in Service : t # "console" => alive'[t] = alive[t]
    BY <1>3, <2>1, ServicesAre DEF LauncherTyped
  <2>4. cluster /\ \A t \in Service : alive[t] \subseteq {l} /\ (l \in alive[t] => Listed(l, t))
    BY <1>3, <2>1 DEF LaunchKnows, Active
  <2>5. \A t \in Service : alive'[t] \subseteq {l} /\ (l \in alive'[t] => Listed(l, t))
    BY <2>1, <2>3, <2>4
  <2>6. LauncherTyped' /\ OneLaunch'
    BY <1>3, <2>1, <2>2, <2>3, <2>4, <2>5 DEF LauncherTyped, OneLaunch
  <2>7. LaunchKnows(l)'
    BY <2>1, <2>2, <2>4, <2>5 DEF LaunchKnows, Active, Listed
  <2> QED BY <1>3, <2>1, <2>2, <2>3, <2>6, <2>7, OthersRest
<1>13. CASE CloseUI(l)
  <2>1. phase[l] = "closeUI" /\ UNCHANGED <<resumes, started, children, ready, cluster>>
    BY <1>13 DEF CloseUI
  <2>2. CASE l \notin ready
    BY <1>13, <2>1, <2>2, GoesOn DEF CloseUI, Keep
  <2>3. CASE l \in ready
    <3>1. l \in started
      BY <1>3, <2>3 DEF LaunchKnows, Unborn
    <3>2. CASE Down(l, "console") /\ Go(l, "drain")
      BY <1>9, <2>1, <3>1, <3>2, ServicesAre
    <3>3. CASE Keep /\ Go(l, "gone")
      BY <2>1, <3>3, GoesOn DEF Keep
    <3> QED BY <1>13, <2>3, <3>2, <3>3 DEF CloseUI
  <2> QED BY <2>2, <2>3
<1>14. CASE AskHealth(l)
  <2>1. /\ phase[l] \in {"boundedHealth", "drainHealth"}
        /\ UNCHANGED <<resumes, started, children, ready, cluster, alive, work>>
    BY <1>14 DEF AskHealth
  <2>2. Listed(l, "console") \/ (phase[l] = "drainHealth" /\ (l \in ready => alive["console"] = {}))
    BY <1>3, <2>1 DEF LaunchKnows
  <2>3. l \in started
    BY <1>3, <2>1 DEF LaunchKnows, Active
  <2>4. CASE ~(work["queued"] = 0 /\ work["running"] = 0)
    <3>1. missed' = missed /\ Go(l, IF phase[l] = "drainHealth" THEN "drain" ELSE "bounded")
      BY <1>14, <2>4 DEF AskHealth
    <3>2. CASE phase[l] = "drainHealth"
      BY <1>3, <2>1, <2>3, <3>1, <3>2, GoesOn DEF LaunchKnows
    <3>3. CASE phase[l] = "boundedHealth"
      BY <1>3, <2>1, <2>3, <3>1, <3>3, GoesOn DEF LaunchKnows
    <3> QED BY <2>1, <3>2, <3>3
  <2>5. CASE work["queued"] = 0 /\ work["running"] = 0
    <3>1. /\ missed' = [missed EXCEPT !["profiling"] = work["posted"] + work["hand"]]
          /\ Go(l, IF phase[l] = "drainHealth" THEN "stop" ELSE "closeUI")
      BY <1>14, <2>5 DEF AskHealth
    <3>2. /\ work["posted"] \in Nat /\ work["hand"] \in Nat
          /\ "profiling" \in Workers
      BY <1>3 DEF LauncherTyped, JobPlace, JobPlaces, Workers
    <3>3. /\ missed' \in [Workers -> Nat] /\ missed'["chat"] = missed["chat"]
          /\ missed'["profiling"] = work["posted"] + work["hand"]
      BY <3>1, <3>2 DEF Workers
    <3>4. Foreseen("profiling")' /\ (Foreseen("chat") => Foreseen("chat")')
      BY <2>1, <2>5, <3>2, <3>3 DEF Foreseen, UnderWay
    <3>5. CASE phase[l] = "drainHealth"
      <4>1. l \in ready => alive["console"] = {} /\ Foreseen("chat")
        BY <1>3, <3>5 DEF LaunchKnows
      <4> QED BY <2>1, <2>3, <3>1, <3>3, <3>4, <3>5, <4>1, GoesOn
    <3>6. CASE phase[l] = "boundedHealth"
      BY <2>1, <3>1, <3>3, <3>6, GoesOn
    <3> QED BY <2>1, <3>5, <3>6
  <2> QED BY <2>4, <2>5
<1>15. CASE Stop(l)
  <2>1. phase[l] = "stop" /\ UNCHANGED <<resumes, started, ready, cluster>>
    BY <1>15 DEF Stop
  <2>2. CASE children[l] = <<>>
    <3>1. Go(l, "stopCluster") /\ UNCHANGED <<alive, children, work, missed>>
      BY <1>15, <2>2 DEF Stop, Keep
    <3>2. l \in ready => alive["console"] = {} /\ Foreseen("chat")' /\ Foreseen("profiling")'
      BY <1>3, <2>1, <3>1 DEF LaunchKnows, Foreseen, UnderWay
    <3> QED BY <2>1, <2>2, <3>1, <3>2, GoesOn
  <2>3. CASE Go(l, "gone") /\ Keep /\ UNCHANGED children
    BY <2>1, <2>3, GoesOn DEF Keep
  <2>4. CASE /\ children[l] # <<>> /\ Down(l, LastChild(l))
             /\ children' = [children EXCEPT ![l] = SubSeq(@, 1, Len(@) - 1)]
             /\ UNCHANGED phase
    <3> DEFINE s == LastChild(l)
               n == Len(children[l])
    <3>1. children[l] \in Seq(Service) /\ n \in Nat /\ n > 0 /\ s = children[l][n] /\ s \in Service
      BY <1>3, <2>4 DEF LauncherTyped, LastChild
    <3> HIDE DEF s
    <3>2. /\ alive' \in [Service -> SUBSET Launches] /\ alive'[s] = alive[s] \ {l}
          /\ \A t \in Service : alive'[t] \subseteq alive[t]
          /\ work' \in [JobPlace -> Nat] /\ missed' = missed
          /\ \A t \in Workers : Foreseen(t) => Foreseen(t)'
      BY <1>3, <2>4, <3>1, DownLoses DEF s
    <3>3. /\ children'[l] = SubSeq(children[l], 1, n - 1)
          /\ \A m \in Launches \ {l} : children'[m] = children[m]
      BY <1>3, <2>4 DEF LauncherTyped
    <3>4. /\ children'[l] \in Seq(Service) /\ Len(children'[l]) = n - 1
          /\ \A i \in 1..(n - 1) : children'[l][i] = children[l][i]
      <4>1. n - 1 \in 0..n /\ \A i \in 1..(n - 1) : children[l][i] \in Service
        BY <3>1, ElementOfSeq
      <4>2. /\ SubSeq(children[l], 1, n - 1) \in Seq(Service)
            /\ Len(SubSeq(children[l], 1, n - 1)) = n - 1
            /\ \A i \in 1..(n - 1) : SubSeq(children[l], 1, n - 1)[i] = children[l][i]
        BY <3>1, <4>1
      <4> QED BY <3>3, <4>2
    <3>5. children' \in [Launches -> Seq(Service)]
      BY <1>3, <2>4, <3>3, <3>4 DEF LauncherTyped
    <3>6. LauncherTyped' /\ OneLaunch'
      BY <1>3, <2>1, <2>4, <3>2, <3>5 DEF LauncherTyped, OneLaunch
    <3>7. l \in started
      BY <1>3, <2>4 DEF LaunchKnows, Unborn
    <3>8. cluster /\ \A t \in Service : alive[t] \subseteq {l} /\ (l \in alive[t] => Listed(l, t))
      BY <1>3, <3>7 DEF LaunchKnows
    <3>9. ASSUME NEW t \in Service, l \in alive'[t] PROVE Listed(l, t)'
      <4>1. t # s /\ l \in alive[t]
        BY <3>2, <3>9
      <4>2. PICK i \in 1..n : children[l][i] = t
        BY <3>8, <4>1 DEF Listed
      <4>3. i \in 1..(n - 1)
        BY <3>1, <4>1, <4>2
      <4> QED BY <3>4, <4>2, <4>3 DEF Listed
    <3>10. alive["console"] = {} => alive'["console"] = {}
      BY <3>2, ServicesAre
    <3>11. LaunchKnows(l)'
      BY <1>3, <2>1, <2>4, <3>2, <3>7, <3>8, <3>9, <3>10 DEF LaunchKnows, Active, Workers
    <3> QED BY <1>3, <2>1, <2>4, <3>2, <3>3, <3>6, <3>11, OthersRest
  <2> QED BY <1>15, <2>2, <2>3, <2>4 DEF Stop
<1>16. CASE StopCluster(l)
  <2>1. /\ phase[l] = "stopCluster" /\ phase' = [phase EXCEPT ![l] = "gone"]
        /\ cluster' \in IF l \in started THEN {FALSE, cluster} ELSE {cluster}
        /\ children[l] = <<>>
        /\ UNCHANGED <<started, children, ready, alive, work, missed>>
    BY <1>3, <1>16 DEF StopCluster, Go, LaunchKnows
  <2>2. /\ phase' \in [Launches -> Phases] /\ phase'[l] = "gone"
        /\ \A m \in Launches \ {l} : phase'[m] = phase[m]
    BY <1>3, <2>1 DEF LauncherTyped
  <2>3. l \in started => \A s \in Service : alive[s] = {}
    BY <1>3, <2>1 DEF LaunchKnows, Listed
  <2>4. LauncherTyped'
    BY <1>3, <2>1, <2>2 DEF LauncherTyped
  <2>5. OneLaunch'
    BY <1>3, <2>1, <2>3 DEF OneLaunch
  <2>6. LaunchKnows(l)'
    BY <2>2 DEF LaunchKnows, Active
  <2> QED BY <1>3, <2>1, <2>2, <2>4, <2>5, <2>6, OthersRest
<1>17. CASE Killed(l)
  BY <1>17, GoesOn DEF Killed
<1>18. CASE Preserved(l)
  BY <1>18, GoesOn DEF Preserved
<1> QED
  BY <1>1, <1>4, <1>5, <1>6, <1>7, <1>8, <1>10, <1>11, <1>12, <1>13, <1>14, <1>15, <1>16, <1>17,
     <1>18, <1>2 DEF LauncherStep

(* What happens to a job leaves a launch what it knows: while there is no *)
(* console none comes, and the places it goes through are of one service. *)
LEMMA JobsMove ==
  ASSUME LauncherTyped, NEW s \in Workers, NEW p \in JobPlace,
         Submit(s) \/ Proceed(s, p) \/ Finish(s, p)
  PROVE  /\ work' \in [JobPlace -> Nat] /\ missed' = missed
         /\ Submit(s) \/ \A t \in Workers : UnderWay(t)' <= UnderWay(t)
         /\ \A t \in Workers : \/ UnderWay(t)' <= UnderWay(t)
                               \/ UnderWay(t) < MaxWork /\ UnderWay(t)' = UnderWay(t) + 1
         /\ \A t \in Workers : UnderWay(t) \in Nat /\ UnderWay(t)' \in Nat
<1> USE DEF JobPlace, JobPlaces, Workers
<1>1. missed' = missed /\ \A q \in JobPlace : work[q] \in Nat
  BY DEF LauncherTyped, Submit, Proceed, Finish, others
<1>2. CASE Submit(s)
  <2> DEFINE q == IF s = "chat" THEN "starting" ELSE "posted"
  <2>1. work' = [work EXCEPT ![q] = @ + 1] /\ q \in JobPlace /\ UnderWay(s) < MaxWork
    BY <1>2 DEF Submit
  <2>2. work' \in [JobPlace -> Nat] /\ work'[q] = work[q] + 1
        /\ \A r \in JobPlace : r # q => work'[r] = work[r]
    BY <1>1, <2>1 DEF LauncherTyped
  <2>3. CASE s = "chat"
    BY <1>1, <1>2, <2>1, <2>2, <2>3 DEF UnderWay
  <2>4. CASE s = "profiling"
    BY <1>1, <1>2, <2>1, <2>2, <2>4 DEF UnderWay
  <2> QED BY <2>3, <2>4
<1>3. CASE Proceed(s, p)
  <2>1. PICK q \in JobPlace : q = MovesTo[p] /\ q # p /\ p \in JobPlaces[s] /\ q \in JobPlaces[s]
    BY <1>3 DEF Proceed, MovesTo
  <2>2. work' = [work EXCEPT ![p] = @ - 1, ![q] = @ + 1] /\ work[p] > 0
    BY <1>3, <2>1 DEF Proceed
  <2>3. /\ work' \in [JobPlace -> Nat] /\ work'[p] = work[p] - 1 /\ work'[q] = work[q] + 1
        /\ \A r \in JobPlace : r # p /\ r # q => work'[r] = work[r]
    <3>1. q # p /\ work[p] \in Nat /\ work[q] \in Nat /\ work \in [JobPlace -> Nat]
      BY <1>1, <2>1 DEF LauncherTyped
    <3> HIDE DEF JobPlace, JobPlaces
    <3> QED BY <2>2, <3>1
  <2>4. CASE s = "chat"
    BY <1>1, <2>1, <2>3, <2>4 DEF UnderWay
  <2>5. CASE s = "profiling"
    BY <1>1, <2>1, <2>3, <2>5 DEF UnderWay
  <2> QED BY <2>4, <2>5
<1>4. CASE Finish(s, p)
  <2>1. work' = [work EXCEPT ![p] = @ - 1] /\ work[p] > 0
    BY <1>4 DEF Finish
  <2>2. /\ work' \in [JobPlace -> Nat] /\ work'[p] = work[p] - 1
        /\ \A r \in JobPlace : r # p => work'[r] = work[r]
    BY <1>1, <2>1 DEF LauncherTyped
  <2> QED BY <1>1, <2>2 DEF UnderWay
<1> QED BY <1>2, <1>3, <1>4

LEMMA LauncherKeeps ==
  ASSUME LauncherInv, [LauncherNext]_launcherVars
  PROVE  LauncherInv'
<1> LauncherTyped
  BY DEF LauncherInv
<1>1. CASE UNCHANGED launcherVars
  BY <1>1, ServicesMove DEF launcherVars, LauncherTyped, Foreseen, UnderWay
<1>2. ASSUME NEW l \in Launches, NEW s \in Service, Stops(l, s) PROVE LauncherInv'
  BY <1>2, DownLoses, ServicesMove DEF Stops, launch
<1>3. ASSUME NEW s \in Workers, NEW p \in JobPlace, Submit(s) \/ Proceed(s, p) \/ Finish(s, p)
      PROVE  LauncherInv'
  <2>1. /\ UNCHANGED <<phase, started, children, ready, cluster, alive>>
        /\ Submit(s) => alive["console"] # {}
    BY <1>3 DEF Submit, Proceed, Finish, others, launch, Answers
  <2>2. ~Submit(s) => \A t \in Workers : Foreseen(t) => Foreseen(t)'
    <3>1. \A t \in Workers : missed[t] \in Nat
      BY DEF LauncherTyped
    <3> QED BY <1>3, <3>1, JobsMove DEF Foreseen
  <2> QED BY <1>3, <2>1, <2>2, JobsMove, ServicesMove DEF LauncherTyped
<1> QED
  <2>1. "stored" \in JobPlace
    BY DEF JobPlace, JobPlaces
  <2> QED BY <1>1, <1>2, <1>3, <2>1, LauncherStepKeeps DEF LauncherNext

(* For any launches of one state directory, killed, refused or failed at *)
(* any step: what runs belongs to one launch and to a cluster that runs, *)
(* and a launch that was in use stops no service while a job is under way *)
(* but those that could not be counted when it looked (console/ *)
(* launch_fixture.py wait_for_idle, profiling supervisor.py _worker). *)
THEOREM OneLaunchAtATime ==
  LauncherSpec => []OneLaunch /\ NoWorkCut
<1>1. LauncherInit => LauncherInv
  BY LauncherStart
<1>2. LauncherInv /\ [LauncherNext]_launcherVars => LauncherInv'
  BY LauncherKeeps
<1>3. LauncherInv => OneLaunch
  BY DEF LauncherInv
<1>4. LauncherInv /\ [LauncherNext]_launcherVars => [CutsNoWork]_launcherVars
  <2> SUFFICES ASSUME LauncherInv
               PROVE  CutsNoWork
    OBVIOUS
  <2> QED BY DEF LauncherInv, LauncherTyped, LaunchKnows, CutsNoWork, Foreseen, Workers
<1> QED BY <1>1, <1>2, <1>3, <1>4, PTL DEF LauncherSpec, NoWorkCut

(* What else a launcher keeps: its services are the first ones of the *)
(* list, in its order, and what it counts and makes is of few kinds. *)
InDirectory == {"made", "cluster", "prepared", "staged", "marker"}
InOrder(c) == Len(c) <= Len(Services) /\ \A i \in 1..Len(c) : c[i] = Services[i]
LauncherFits ==
  /\ resumes \subseteq Launches /\ started \subseteq Launches /\ asked \subseteq Launches
  /\ directory \subseteq InDirectory
  /\ \A s \in Workers : UnderWay(s) <= MaxWork /\ missed[s] <= MaxWork
  /\ \A l \in Launches : InOrder(children[l])

LEMMA LauncherFitsStep ==
  ASSUME LauncherAssumption, LauncherInv, LauncherFits, [LauncherNext]_launcherVars
  PROVE  LauncherFits'
<1> USE DEF InDirectory
<1> LauncherTyped
  BY DEF LauncherInv
<1>1. CASE UNCHANGED launcherVars
  BY <1>1 DEF launcherVars, LauncherFits, UnderWay
<1>5. \A l \in Launches, s \in Service : Down(l, s) =>
        \A t \in Workers : UnderWay(t)' <= MaxWork /\ missed'[t] <= MaxWork
  <2> SUFFICES ASSUME NEW l \in Launches, NEW s \in Service, Down(l, s), NEW t \in Workers
               PROVE  UnderWay(t)' <= MaxWork /\ missed'[t] <= MaxWork
    OBVIOUS
  <2>1. \A p \in JobPlace : work[p] \in Nat /\ work'[p] \in {0, work[p]}
    BY DEF LauncherTyped, Down
  <2>2. UnderWay(t) <= MaxWork /\ missed'[t] <= MaxWork
    BY DEF LauncherFits, Down
  <2> QED BY <2>1, <2>2 DEF UnderWay, JobPlace, JobPlaces, Workers, LauncherAssumption
<1>2. ASSUME NEW l \in Launches, NEW s \in Service, Stops(l, s) PROVE LauncherFits'
  BY <1>2, <1>5 DEF Stops, launch, LauncherFits
<1>3. ASSUME NEW s \in Workers, NEW p \in JobPlace, Submit(s) \/ Proceed(s, p) \/ Finish(s, p)
      PROVE  LauncherFits'
  <2>1. \A t \in Workers : UnderWay(t)' <= MaxWork /\ missed'[t] <= MaxWork
    BY <1>3, JobsMove DEF LauncherFits, LauncherAssumption
  <2> QED BY <1>3, <2>1 DEF Submit, Proceed, Finish, others, launch, LauncherFits
<1>4. ASSUME NEW l \in Launches, LauncherStep(l) PROVE LauncherFits'
  <2>1. resumes' \subseteq Launches /\ started' \subseteq Launches /\ asked' \subseteq Launches
    BY <1>4 DEF LauncherStep, Launch, Fails, Initialise, StartCluster, Prepare, CheckDatabase,
           Mark, StartNext, ConsoleReady, Ask, Watch, CountTurns, AskHealth,
           Refused, CloseUI, Preserved, Stop, StopCluster, Killed, launch, LauncherFits
  <2>2. directory' \subseteq InDirectory
    BY <1>4 DEF LauncherStep, Launch, Fails, Initialise, StartCluster, Prepare, CheckDatabase,
           Mark, StartNext, ConsoleReady, Ask, Watch, CountTurns, AskHealth,
           Refused, CloseUI, Preserved, Stop, StopCluster, Killed, fixture, LauncherFits
  <2>3. \A t \in Workers : UnderWay(t)' <= MaxWork /\ missed'[t] <= MaxWork
    <3>1. CASE work' = work /\ missed' = missed
      BY <3>1 DEF LauncherFits, UnderWay
    <3>2. CASE CountTurns(l) \/ AskHealth(l)
      <4>1. \A p \in JobPlace : work[p] \in Nat
        BY DEF LauncherTyped
      <4>2. /\ work' = work
            /\ \A t \in Workers : missed'[t] \in {missed[t], UnderWay(t)}
        BY <3>2, <4>1 DEF CountTurns, AskHealth, LauncherTyped, UnderWay, JobPlace, JobPlaces, Workers
      <4> QED BY <4>2 DEF LauncherFits, UnderWay
    <3>3. CASE \E s \in Service : Down(l, s)
      BY <1>5, <3>3
    <3>4. CASE Watch(l)
      <4>1. phase[l] = "serving" /\ (Keep \/ Down(l, LastChild(l)))
        BY <3>4 DEF Watch
      <4>2. LastChild(l) \in Service
        <5>1. Listed(l, "console") /\ children[l] \in Seq(Service)
          BY <4>1 DEF LauncherInv, LauncherTyped, LaunchKnows
        <5> QED BY <5>1 DEF Listed, LastChild
      <4> QED BY <3>1, <3>3, <4>1, <4>2 DEF Keep
    <3>5. CASE Stop(l)
      <4>1. Keep \/ (children[l] # <<>> /\ Down(l, LastChild(l)))
        BY <3>5 DEF Stop
      <4>2. children[l] # <<>> => LastChild(l) \in Service
        BY DEF LauncherTyped, LastChild
      <4> QED BY <3>1, <3>3, <4>1, <4>2 DEF Keep
    <3>6. CASE CloseUI(l)
      BY <3>1, <3>3, <3>6, ServicesAre DEF CloseUI, Keep
    <3> QED BY <1>4, <3>1, <3>2, <3>4, <3>5, <3>6 DEF LauncherStep, Launch, Fails, Initialise,
           StartCluster, Prepare, CheckDatabase, Mark, StartNext, ConsoleReady, Ask, Refused,
           Preserved, StopCluster, Killed, fixture
  <2>4. children' = children \/ StartNext(l) \/ Stop(l)
    BY <1>4 DEF LauncherStep, Launch, Fails, Initialise, StartCluster, Prepare, CheckDatabase,
           Mark, ConsoleReady, Ask, Watch, CountTurns, AskHealth,
           Refused, CloseUI, Preserved, StopCluster, Killed, launch
  <2>5. \A m \in Launches : InOrder(children'[m])
    <3>1. CASE children' = children
      BY <3>1 DEF LauncherFits
    <3> children \in [Launches -> Seq(Service)] /\ children[l] \in Seq(Service)
      BY DEF LauncherInv, LauncherTyped
    <3> DEFINE n == Len(children[l])
    <3>2. CASE StartNext(l)
      <4>1. n < Len(Services) /\ n \in Nat
        BY <3>2 DEF StartNext, LauncherInv, LaunchKnows
      <4>2. children' = [children EXCEPT ![l] = Append(@, Services[n + 1])]
        BY <3>2 DEF StartNext, Spawn
      <4>3. Services[n + 1] \in Service /\ Len(Services) = 5
        BY <4>1, ServicesAre
      <4>4. children'[l] = Append(children[l], Services[n + 1])
        BY <4>2
      <4>5. /\ Len(children'[l]) = n + 1 /\ children'[l][n + 1] = Services[n + 1]
            /\ \A i \in 1..n : children'[l][i] = children[l][i]
        BY <4>3, <4>4
      <4>6. \A i \in 1..n : children[l][i] = Services[i]
        BY DEF LauncherFits, InOrder
      <4>7. InOrder(children'[l])
        BY <4>1, <4>3, <4>5, <4>6 DEF InOrder
      <4> QED BY <4>2, <4>7 DEF LauncherFits
    <3>3. CASE Stop(l) /\ children' # children
      <4>1. children' = [children EXCEPT ![l] = SubSeq(@, 1, Len(@) - 1)] /\ children[l] # <<>>
        BY <3>3 DEF Stop
      <4>2. n \in Nat /\ n > 0
        BY <4>1
      <4>3. children'[l] = SubSeq(children[l], 1, n - 1)
        BY <4>1
      <4>4. Len(children'[l]) = n - 1 /\ \A i \in 1..(n - 1) : children'[l][i] = children[l][i]
        <5>1. \A i \in 1..(n - 1) : children[l][i] \in Service
          BY <4>2
        <5> HIDE DEF n
        <5>2. /\ Len(SubSeq(children[l], 1, n - 1)) = n - 1
              /\ \A i \in 1..(n - 1) : SubSeq(children[l], 1, n - 1)[i] = children[l][i]
          BY <4>2, <5>1, SubSeqProperties
        <5> QED BY <4>3, <5>2
      <4>5. InOrder(children[l]) /\ Len(Services) = 5
        BY ServicesAre DEF LauncherFits
      <4>6. InOrder(children'[l])
        BY <4>2, <4>4, <4>5 DEF InOrder
      <4> QED BY <4>1, <4>6 DEF LauncherFits
    <3> QED BY <2>4, <3>1, <3>2, <3>3
  <2> QED BY <2>1, <2>2, <2>3, <2>5 DEF LauncherFits
<1> QED
  <2>1. "stored" \in JobPlace
    BY DEF JobPlace, JobPlaces
  <2> QED BY <1>1, <1>2, <1>3, <1>4, <2>1 DEF LauncherNext

(* For any launches: a launcher's services are a beginning of the list, in *)
(* its order, and everything else of it keeps its type (launch_fixture *)
(* .py). *)
THEOREM LauncherTypes ==
  ASSUME LauncherAssumption
  PROVE  LauncherSpec => []LauncherTypeOK
<1>1. LauncherInit => LauncherInv /\ LauncherFits
  <2> SUFFICES ASSUME LauncherInit
               PROVE  LauncherFits
    BY LauncherStart
  <2>1. \A l \in Launches : children[l] = <<>>
    BY DEF LauncherInit
  <2>2. \A l \in Launches : InOrder(children[l])
    BY <2>1, ServicesAre DEF InOrder
  <2>3. \A s \in Workers : UnderWay(s) <= MaxWork /\ missed[s] <= MaxWork
    BY DEF LauncherInit, LauncherAssumption, UnderWay, JobPlace, JobPlaces
  <2> QED BY <2>2, <2>3 DEF LauncherInit, LauncherFits
<1>2. LauncherInv /\ LauncherFits /\ [LauncherNext]_launcherVars => (LauncherInv /\ LauncherFits)'
  BY LauncherKeeps, LauncherFitsStep
<1>3. LauncherInv /\ LauncherFits => LauncherTypeOK
  <2> SUFFICES ASSUME LauncherInv, LauncherFits
               PROVE  LauncherTypeOK
    OBVIOUS
  <2>1. ASSUME NEW l \in Launches
        PROVE  children[l] = SubSeq(Services, 1, Len(children[l]))
    <3> DEFINE c == children[l]
               n == Len(c)
    <3>1. c \in Seq(Service) /\ n \in Nat
      BY DEF LauncherInv, LauncherTyped
    <3>2. n <= 5 /\ \A i \in 1..n : c[i] = Services[i]
      BY ServicesAre DEF LauncherFits, InOrder
    <3>3. /\ SubSeq(Services, 1, n) \in Seq(Service) /\ Len(SubSeq(Services, 1, n)) = n
          /\ \A i \in 1..n : SubSeq(Services, 1, n)[i] = Services[i]
      BY <3>1, <3>2, ServicesAre
    <3> QED BY <3>1, <3>2, <3>3, SeqEqual
  <2>2. work \in [JobPlace -> 0..MaxWork] /\ missed \in [Workers -> 0..MaxWork]
    <3>1. work \in [JobPlace -> Nat] /\ missed \in [Workers -> Nat]
      BY DEF LauncherInv, LauncherTyped
    <3>2. UnderWay("chat") <= MaxWork /\ UnderWay("profiling") <= MaxWork
      BY DEF LauncherFits, Workers
    <3>3. \A p \in JobPlace : work[p] <= MaxWork
      BY <3>1, <3>2 DEF UnderWay, JobPlace, JobPlaces, LauncherAssumption
    <3> QED BY <3>1, <3>3 DEF LauncherFits, LauncherAssumption
  <2>3. \A l \in Launches : phase[l] \in
          Setup \cup Stopping \cup Over \cup {"idle", "serving"}
    BY DEF LauncherInv, LauncherTyped, Phases
  <2> QED BY <2>1, <2>2, <2>3 DEF LauncherTypeOK, LauncherInv, LauncherTyped, LauncherFits, InDirectory
<1> QED BY <1>1, <1>2, <1>3, PTL DEF LauncherSpec


-----------------------------------------------------------------------------
(* The page: a question is in the conversation its delivery names, and a *)
(* page that waits without a button has a callback to come. *)

PageViews == [auth : BOOLEAN, cid : Threads \cup {Nobody}, url : Threads \cup {Nobody},
              busy : BOOLEAN, recover : BOOLEAN, pending : Questions \cup {Nobody},
              active : Questions \cup {Nobody}, visits : 0..MaxVisits]
Delivery == {"snapshot", "put"}
OfTurns == {"snapshot", "put", "stream", "reveal", "stop"}
Errands == [kind : OfTurns \cup {"open"}, q : Questions \cup {Nobody}, talk : Threads \cup {Nobody},
            chain : {"none", "deliver", "pending"}, fresh : BOOLEAN]
ChatStates == [known : SUBSET Threads, turn : [Questions -> {"none", "processing", "finished"}],
               late : SUBSET Questions]

PageTyped ==
  /\ site \in PageViews
  /\ chat \in ChatStates
  /\ askedIn \in [Questions -> Threads \cup {Nobody}]

(* An errand about a turn has one, a delivery goes where the question was *)
(* asked, and what opens is a conversation. *)
ErrandFits(e) ==
  /\ e \in Errands
  /\ e.kind \in OfTurns => e.q \in Questions
  /\ e.kind \in Delivery => e.talk \in Threads /\ e.talk = askedIn[e.q]
  /\ e.kind = "open" => e.talk \in Threads

ErrandsFit == \A e \in errands : ErrandFits(e)

PendingWasAsked == site.pending # Nobody => askedIn[site.pending] \in Threads

(* A callback that will free the page or show the button. *)
Comes(p, e) ==
  \/ e.kind \in {"stream", "reveal"}
  \/ e.kind = "open" /\ e.fresh
  \/ e.kind \in Delivery /\ e.q = p.pending /\ e.talk = p.cid

Elsewhere(p) == p.pending # Nobody /\ askedIn[p.pending] # p.cid

Waits(p) == p.auth /\ p.busy /\ ~p.recover

SomethingComes == Waits(site) => Elsewhere(site) \/ \E e \in errands : Comes(site, e)

PageInv == PageTyped /\ ErrandsFit /\ PendingWasAsked /\ QuestionsAreKept /\ SomethingComes

LEMMA PageStart ==
  ASSUME PageAssumption, PageInit
  PROVE  PageInv
<1>1. MaxVisits \in Nat /\ 0 \in 0..MaxVisits
  BY DEF PageAssumption
<1> QED
  BY <1>1 DEF PageInit, PageInv, PageTyped, PageViews, ChatStates, ErrandsFit, PendingWasAsked,
              QuestionsAreKept, SomethingComes, Waits

(* The steps after which every question is where it was asked. *)
LEMMA PageMoves ==
  ASSUME PageInv, UNCHANGED askedIn, NEW p \in PageViews, site' = p,
         NEW c \in ChatStates, chat' = c,
         \A q \in Questions : chat.turn[q] # "none" => c.turn[q] # "none",
         \A e \in errands' : ErrandFits(e),
         declined \subseteq declined',
         \/ p.pending = site.pending
         \/ /\ p.pending = Nobody
            /\ site.pending # Nobody =>
                 site.pending \in declined' \/ c.turn[site.pending] # "none",
         Waits(p) => Elsewhere(p) \/ \E e \in errands' : Comes(p, e)
  PROVE  PageInv'
<1>1. PageTyped' /\ PendingWasAsked'
  BY DEF PageInv, PageTyped, PendingWasAsked
<1>2. ErrandsFit'
  BY DEF ErrandsFit, ErrandFits
<1>3. QuestionsAreKept'
  BY DEF PageInv, QuestionsAreKept
<1>4. SomethingComes'
  BY DEF SomethingComes, Waits, Elsewhere, Comes
<1> QED BY <1>1, <1>2, <1>3, <1>4 DEF PageInv

LEMMA AnErrand ==
  ASSUME PageInv, NEW kind \in OfTurns, NEW q \in Questions,
         NEW k \in Threads \cup {Nobody}, kind \in Delivery => k \in Threads /\ k = askedIn[q]
  PROVE  /\ ErrandFits(Errand(kind, q, k, "none"))
         /\ Errand(kind, q, k, "none").kind = kind
         /\ Errand(kind, q, k, "none").q = q
         /\ Errand(kind, q, k, "none").talk = k
  BY DEF ErrandFits, Errands, Errand, OfTurns

LEMMA Outdated ==
  ASSUME PageInv
  PROVE  \A e \in Stale(errands) : ErrandFits(e)
<1> SUFFICES ASSUME NEW e \in Stale(errands) PROVE ErrandFits(e)
  OBVIOUS
<1>1. PICK x \in errands : e = [x EXCEPT !.fresh = FALSE]
  BY DEF Stale
<1> QED BY <1>1 DEF PageInv, ErrandsFit, ErrandFits, Errands

LEMMA OnTheWay ==
  ASSUME PageInv
  PROVE  /\ OnTheirWay(errands) \subseteq Questions
         /\ [chat EXCEPT !.late = @ \cup OnTheirWay(errands)] \in ChatStates
         /\ [chat EXCEPT !.late = @ \cup OnTheirWay(errands)].turn = chat.turn
<1>1. OnTheirWay(errands) \subseteq Questions
  BY DEF OnTheirWay, PageInv, ErrandsFit, ErrandFits, OfTurns
<1> QED BY <1>1 DEF PageInv, PageTyped, ChatStates

(* A turn that is followed or ends brings a callback. *)
LEMMA Following ==
  ASSUME PageInv, UNCHANGED askedIn, NEW p \in PageViews, NEW es, NEW q \in Questions,
         NEW k \in Threads \cup {Nobody}, NEW c \in ChatStates, chat' = c,
         Subscribe(p, es, q, k) \/ FinishTurn(p, es, q, k),
         es \subseteq errands, declined \subseteq declined',
         \A r \in Questions : chat.turn[r] # "none" => c.turn[r] # "none",
         \/ p.pending = site.pending
         \/ p.pending = Nobody /\ (site.pending # Nobody => c.turn[site.pending] # "none")
  PROVE  PageInv'
<1>1. CASE Subscribe(p, es, q, k)
  <2>1. PICK x : x = Subscribed(p, q)
    OBVIOUS
  <2>2. x \in PageViews /\ x.pending = p.pending
    BY <2>1 DEF Subscribed, PageViews
  <2>3. site' = x /\ errands' = Unfollowed(es) \cup {Errand("stream", q, k, "none")}
    BY <1>1, <2>1 DEF Subscribe
  <2>4. \A e \in errands' : ErrandFits(e)
    BY <2>3, AnErrand DEF Unfollowed, PageInv, ErrandsFit, OfTurns, Delivery
  <2>5. Comes(x, Errand("stream", q, k, "none"))
    BY AnErrand DEF Comes, OfTurns, Delivery
  <2> QED BY <2>2, <2>3, <2>4, <2>5, PageMoves
<1>2. CASE FinishTurn(p, es, q, k)
  <2>1. PICK x : x = Finished(p)
    OBVIOUS
  <2>2. x \in PageViews /\ x.pending = p.pending
    BY <2>1 DEF Finished, PageViews
  <2>3. site' = x /\ errands' = Unfollowed(es) \cup {Errand("reveal", q, k, "none")}
    BY <1>2, <2>1 DEF FinishTurn
  <2>4. \A e \in errands' : ErrandFits(e)
    BY <2>3, AnErrand DEF Unfollowed, PageInv, ErrandsFit, OfTurns, Delivery
  <2>5. Comes(x, Errand("reveal", q, k, "none"))
    BY AnErrand DEF Comes, OfTurns, Delivery
  <2> QED BY <2>2, <2>3, <2>4, <2>5, PageMoves
<1> QED BY <1>1, <1>2

LEMMA DeliveredKeeps ==
  ASSUME PageInv, UNCHANGED <<askedIn, declined>>, NEW es, NEW q \in Questions,
         NEW k \in Threads \cup {Nobody}, NEW c \in ChatStates, chat' = c,
         Delivered(site, es, q, k), es \subseteq errands, c.turn[q] # "none",
         \A r \in Questions : chat.turn[r] # "none" => c.turn[r] # "none"
  PROVE  PageInv'
<1>1. PICK p : p = Settled(site, q)
  OBVIOUS
<1>2. p \in PageViews /\ p.pending = IF site.pending = q THEN Nobody ELSE site.pending
  BY <1>1 DEF Settled, PageInv, PageTyped, PageViews
<1>3. Subscribe(p, es, q, k) \/ FinishTurn(p, es, q, k)
  BY <1>1 DEF Delivered
<1> QED BY <1>2, <1>3, Following

(* A request that failed shows the button of a pending question. *)
LEMMA UncertainKeeps ==
  ASSUME PageAssumption, PageInv, UNCHANGED <<askedIn, declined>>, NEW e \in errands, e.kind \in Delivery,
         Uncertain(e), NEW c \in ChatStates, chat' = c,
         \A r \in Questions : chat.turn[r] # "none" => c.turn[r] # "none"
  PROVE  PageInv'
<1>1. ErrandFits(e) /\ errands' = errands \ {e} /\ \A x \in errands' : ErrandFits(x)
  BY DEF Uncertain, PageInv, ErrandsFit
<1>2. CASE site.cid # e.talk \/ PendingTalk(site) # site.cid
  <2>1. site' = site
    BY <1>2 DEF Uncertain
  <2>2. Comes(site, e) => Elsewhere(site)
    BY <1>1, <1>2 DEF Comes, Elsewhere, PendingTalk, ErrandFits, Delivery, OfTurns, PageAssumption
  <2>3. Waits(site) => Elsewhere(site) \/ \E x \in errands' : Comes(site, x)
    BY <1>1, <2>2 DEF PageInv, SomethingComes
  <2> QED BY <1>1, <2>1, <2>3, PageMoves DEF PageInv, PageTyped
<1>3. CASE ~(site.cid # e.talk \/ PendingTalk(site) # site.cid)
  <2>1. PICK p : p = ShowPending(site)
    OBVIOUS
  <2>2. p \in PageViews /\ p.pending = site.pending /\ p.recover
    BY <2>1 DEF ShowPending, PageInv, PageTyped, PageViews
  <2> QED BY <1>1, <1>3, <2>1, <2>2, PageMoves DEF Uncertain, Waits
<1> QED BY <1>2, <1>3

(* What follows an opening. *)
LEMMA ThenKeeps ==
  ASSUME PageAssumption, PageInv, UNCHANGED <<chat, askedIn, declined>>,
         NEW p \in PageViews, NEW es, NEW chain \in {"none", "deliver", "pending"},
         Then(p, es, chain), \A e \in es : ErrandFits(e),
         \/ p.pending = site.pending
         \/ p.pending = Nobody /\ (site.pending # Nobody => chat.turn[site.pending] # "none"),
         Waits(p) => Elsewhere(p) \/ \E e \in es : Comes(p, e)
  PROVE  PageInv'
<1>1. chat \in ChatStates
  BY DEF PageInv, PageTyped
<1>2. p.pending # Nobody => p.pending \in Questions /\ askedIn[p.pending] \in Threads
  BY DEF PageInv, PendingWasAsked, PageViews
<1>3. CASE site' = p /\ errands' = es
  BY <1>1, <1>3, PageMoves
<1>4. CASE chain = "deliver" /\ p.auth /\ p.pending # Nobody
  <2>1. PICK x : x = Delivering(p)
    OBVIOUS
  <2>2. x \in PageViews /\ x.pending = p.pending /\ x.cid = p.cid
    BY <2>1 DEF Delivering, PageViews
  <2>3. PICK e : e = Errand("snapshot", p.pending, PendingTalk(p), "none")
    OBVIOUS
  <2>4. PendingTalk(p) = askedIn[p.pending]
    BY <1>4 DEF PendingTalk
  <2>5. ErrandFits(e) /\ e.kind = "snapshot" /\ e.q = p.pending /\ e.talk = askedIn[p.pending]
    BY <1>2, <1>4, <2>3, <2>4, AnErrand DEF OfTurns
  <2>6. site' = x /\ errands' = es \cup {e}
    BY <1>4, <2>1, <2>3 DEF Then, Deliver
  <2>7. Elsewhere(x) \/ Comes(x, e)
    BY <1>4, <2>2, <2>5 DEF Elsewhere, Comes, Delivery
  <2> QED BY <1>1, <2>2, <2>5, <2>6, <2>7, PageMoves
<1>5. CASE chain = "pending" /\ p.pending # Nobody /\ p.cid # PendingTalk(p)
  <2>1. PICK x : x = ShowPending(p)
    OBVIOUS
  <2>2. x \in PageViews /\ x.pending = p.pending /\ x.recover
    BY <2>1 DEF ShowPending, PageViews
  <2>3. site' = x /\ errands' = es
    BY <1>5, <2>1 DEF Then, Afterwards
  <2> QED BY <1>1, <2>2, <2>3, PageMoves DEF Waits
<1> QED BY <1>3, <1>4, <1>5 DEF Then, Deliver, Afterwards

(* The page turns to a conversation. *)
LEMMA OpeningKeeps ==
  ASSUME PageInv, UNCHANGED <<askedIn, declined>>, NEW p \in PageViews,
         p.pending = site.pending, NEW k \in Threads, NEW chain \in {"none", "deliver", "pending"},
         Opening(p, k, chain)
  PROVE  PageInv'
<1>1. PICK x : x = [p EXCEPT !.active = Nobody, !.busy = TRUE, !.recover = FALSE]
  OBVIOUS
<1>2. x \in PageViews /\ x.pending = p.pending
  BY <1>1 DEF PageViews
<1>3. PICK e : e = Errand("open", Nobody, k, chain)
  OBVIOUS
<1>4. ErrandFits(e) /\ Comes(x, e)
  BY <1>3 DEF Errand, ErrandFits, Errands, Comes, OfTurns, Delivery
<1>5. site' = x /\ errands' = Stale(errands) \cup {e}
  BY <1>1, <1>3 DEF Opening
<1>6. \A y \in errands' : ErrandFits(y)
  BY <1>4, <1>5, Outdated
<1>7. PICK c \in ChatStates : chat' = c /\ c.turn = chat.turn
  BY OnTheWay DEF Opening
<1> QED BY <1>2, <1>4, <1>5, <1>6, <1>7, PageMoves

-----------------------------------------------------------------------------
LEMMA AskKeeps ==
  ASSUME PageAssumption, PageInv, NEW q \in Questions, AskQuestion(q)
  PROVE  PageInv'
<1>1. PICK k \in Threads :
        /\ IF site.cid = Nobody
           THEN k \notin chat.known /\ \A r \in Questions : askedIn[r] # k
           ELSE k = site.cid
        /\ site' = [Delivering(site) EXCEPT !.cid = k, !.url = k, !.pending = q]
        /\ askedIn' = [askedIn EXCEPT ![q] = k]
        /\ errands' = errands \cup {Errand("snapshot", q, k, "none")}
  BY DEF AskQuestion
<1>2. site.auth /\ site.pending = Nobody /\ askedIn[q] = Nobody /\ UNCHANGED <<chat, declined>>
  BY DEF AskQuestion
<1>3. PICK p : p = [Delivering(site) EXCEPT !.cid = k, !.url = k, !.pending = q]
  OBVIOUS
<1>4. p \in PageViews /\ site' = p /\ p.pending = q /\ p.cid = k
  BY <1>1, <1>3 DEF Delivering, PageInv, PageTyped, PageViews
<1>5. PICK e : e = Errand("snapshot", q, k, "none")
  OBVIOUS
<1>6. e \in Errands /\ e.kind = "snapshot" /\ e.q = q /\ e.talk = k
  BY <1>5 DEF Errand, Errands, OfTurns
<1>7. /\ askedIn' \in [Questions -> Threads \cup {Nobody}] /\ askedIn'[q] = k
      /\ \A r \in Questions \ {q} : askedIn'[r] = askedIn[r]
  BY <1>1 DEF PageInv, PageTyped
<1>8. PageTyped' /\ PendingWasAsked'
  BY <1>2, <1>4, <1>7 DEF PageInv, PageTyped, PendingWasAsked
<1>9. ErrandsFit'
  <2> SUFFICES ASSUME NEW x \in errands' PROVE ErrandFits(x)'
    BY DEF ErrandsFit
  <2>1. CASE x = e
    BY <1>6, <1>7, <2>1 DEF ErrandFits, OfTurns
  <2>2. CASE x \in errands
    <3>1. ErrandFits(x)
      BY <2>2 DEF PageInv, ErrandsFit
    <3> QED BY <1>2, <1>7, <3>1 DEF ErrandFits, Delivery, OfTurns, PageAssumption
  <2> QED BY <1>1, <1>5, <2>1, <2>2
<1>10. QuestionsAreKept'
  BY <1>2, <1>4, <1>7 DEF PageInv, QuestionsAreKept, PageAssumption
<1>11. SomethingComes'
  BY <1>1, <1>4, <1>6, <1>5 DEF SomethingComes, Comes, Delivery
<1> QED BY <1>8, <1>9, <1>10, <1>11 DEF PageInv

LEMMA RefusedKeeps ==
  ASSUME PageInv, NEW e \in errands, Decline(e)
  PROVE  PageInv'
<1>1. /\ ErrandFits(e) /\ e.kind \in Delivery /\ e.q \in Questions
      /\ errands' = errands \ {e} /\ UNCHANGED <<chat, askedIn>>
  BY DEF Decline, RefusedQuestion, PageInv, ErrandsFit, ErrandFits, Delivery, OfTurns
<1>2. (\A x \in errands' : ErrandFits(x)) /\ chat \in ChatStates
  BY <1>1 DEF PageInv, PageTyped, ErrandsFit
<1>3. CASE site.cid # e.talk
  <2>1. site' = site /\ declined' = declined
    BY <1>3 DEF Decline, RefusedQuestion
  <2>2. ~Comes(site, e)
    BY <1>1, <1>3 DEF Comes, Delivery
  <2> QED BY <1>1, <1>2, <2>1, <2>2, PageMoves DEF PageInv, PageTyped, SomethingComes
<1>4. CASE site.cid = e.talk
  <2>1. PICK p : p = [Settled(site, e.q) EXCEPT !.busy = FALSE, !.recover = FALSE]
    OBVIOUS
  <2>2. /\ p \in PageViews /\ p.busy = FALSE
        /\ p.pending = IF site.pending = e.q THEN Nobody ELSE site.pending
    BY <2>1 DEF Settled, PageInv, PageTyped, PageViews
  <2>3. site' = p /\ declined' = declined \cup {e.q}
    BY <1>4, <2>1 DEF Decline, RefusedQuestion
  <2> QED BY <1>1, <1>2, <2>2, <2>3, PageMoves DEF Waits
<1> QED BY <1>3, <1>4

LEMMA SnapshotKeeps ==
  ASSUME PageAssumption, PageInv, NEW e \in errands, Snapshot(e)
  PROVE  PageInv'
<1>1. /\ ErrandFits(e) /\ e.kind \in Delivery /\ e.kind = "snapshot" /\ e.q \in Questions
      /\ e.talk \in Threads /\ e.talk = askedIn[e.q] /\ UNCHANGED <<askedIn, declined>>
  BY DEF Snapshot, PageInv, ErrandsFit, ErrandFits, Delivery, OfTurns
<1>2. chat \in ChatStates /\ \A x \in errands : ErrandFits(x)
  BY DEF PageInv, PageTyped, ErrandsFit
<1>3. PICK c : c = [chat EXCEPT !.known = @ \cup {e.talk}]
  OBVIOUS
<1>4. /\ c = [chat EXCEPT !.known = @ \cup {e.talk}] /\ c \in ChatStates /\ c.turn = chat.turn
      /\ \A r \in Questions : chat.turn[r] # "none" => c.turn[r] # "none"
  BY <1>1, <1>2, <1>3 DEF ChatStates
<1>5. CASE chat' = c /\ site.cid # e.talk /\ errands' = errands \ {e} /\ UNCHANGED site
  <2>1. ~Comes(site, e)
    BY <1>1, <1>5 DEF Comes, Delivery
  <2> QED BY <1>1, <1>2, <1>4, <1>5, <2>1, PageMoves DEF PageInv, PageTyped, SomethingComes
<1>6. CASE chat' = c /\ chat.turn[e.q] # "none" /\ Delivered(site, errands \ {e}, e.q, e.talk)
  BY <1>1, <1>4, <1>6, DeliveredKeeps
<1>7. CASE /\ chat' = c /\ site.cid = e.talk
           /\ errands' = (errands \ {e}) \cup {Errand("put", e.q, e.talk, "none")} /\ UNCHANGED site
  <2>1. PICK x : x = Errand("put", e.q, e.talk, "none")
    OBVIOUS
  <2>2. ErrandFits(x) /\ x.kind = "put" /\ x.q = e.q /\ x.talk = e.talk
    BY <1>1, <2>1, AnErrand DEF OfTurns
  <2>3. Comes(site, e) => Comes(site, x)
    BY <1>1, <2>2 DEF Comes, Delivery
  <2> QED BY <1>1, <1>2, <1>4, <1>7, <2>1, <2>2, <2>3, PageMoves DEF PageInv, PageTyped, SomethingComes
<1>8. CASE chat' \in {chat, c} /\ Uncertain(e)
  BY <1>1, <1>2, <1>4, <1>8, UncertainKeeps
<1> QED BY <1>4, <1>5, <1>6, <1>7, <1>8 DEF Snapshot

LEMMA TakenTurn ==
  ASSUME PageInv, NEW q \in Questions
  PROVE  /\ TurnTaken(q) \in ChatStates /\ TurnTaken(q).turn[q] # "none"
         /\ \A r \in Questions : chat.turn[r] # "none" => TurnTaken(q).turn[r] # "none"
  BY DEF TurnTaken, PageInv, PageTyped, ChatStates

LEMMA PutKeeps ==
  ASSUME PageAssumption, PageInv, NEW e \in errands, Put(e)
  PROVE  PageInv'
<1>1. /\ ErrandFits(e) /\ e.kind \in Delivery /\ e.kind = "put" /\ e.q \in Questions
      /\ e.talk \in Threads /\ e.talk = askedIn[e.q] /\ UNCHANGED <<askedIn, declined>>
  BY DEF Put, PageInv, ErrandsFit, ErrandFits, Delivery, OfTurns
<1>2. chat \in ChatStates /\ \A x \in errands : ErrandFits(x)
  BY DEF PageInv, PageTyped, ErrandsFit
<1>3. PICK c \in ChatStates : /\ c = TurnTaken(e.q) /\ c.turn[e.q] # "none"
                              /\ \A r \in Questions : chat.turn[r] # "none" => c.turn[r] # "none"
  BY <1>1, TakenTurn
<1>4. PICK l : l = [chat EXCEPT !.late = @ \cup {e.q}]
  OBVIOUS
<1>5. l = [chat EXCEPT !.late = @ \cup {e.q}] /\ l \in ChatStates /\ l.turn = chat.turn
  BY <1>1, <1>2, <1>4 DEF ChatStates
<1>6. CASE chat' = c /\ site.cid # e.talk /\ errands' = errands \ {e} /\ UNCHANGED site
  <2>1. ~Comes(site, e)
    BY <1>1, <1>6 DEF Comes, Delivery
  <2> QED BY <1>1, <1>2, <1>3, <1>6, <2>1, PageMoves DEF PageInv, PageTyped, SomethingComes
<1>7. CASE chat' = c /\ Delivered(site, errands \ {e}, e.q, e.talk)
  BY <1>1, <1>3, <1>7, DeliveredKeeps
<1>8. CASE chat' \in {chat, l, c} /\ Uncertain(e)
  BY <1>1, <1>2, <1>3, <1>5, <1>8, UncertainKeeps
<1>9. \/ chat' = c /\ site.cid # e.talk /\ errands' = errands \ {e} /\ UNCHANGED site
      \/ chat' = c /\ Delivered(site, errands \ {e}, e.q, e.talk)
      \/ chat' \in {chat, l, c} /\ Uncertain(e)
  BY <1>3, <1>5 DEF Put
<1> QED BY <1>6, <1>7, <1>8, <1>9

LEMMA ServerMoves ==
  ASSUME PageInv, NEW q \in Questions, LateQuestion(q) \/ TurnEnds(q)
  PROVE  PageInv'
<1>1. site \in PageViews /\ chat \in ChatStates /\ UNCHANGED <<site, errands, askedIn, declined>>
  BY DEF LateQuestion, TurnEnds, PageInv, PageTyped
<1>2. \E c \in ChatStates : /\ chat' = c
                            /\ \A r \in Questions : chat.turn[r] # "none" => c.turn[r] # "none"
  <2>1. CASE chat' = TurnTaken(q)
    BY <2>1, TakenTurn
  <2>2. CASE chat' = [chat EXCEPT !.late = @ \ {q}]
    BY <1>1, <2>2 DEF ChatStates
  <2>3. CASE chat' = [chat EXCEPT !.turn[q] = "finished"]
    BY <1>1, <2>3 DEF ChatStates
  <2> QED BY <2>1, <2>2, <2>3 DEF LateQuestion, TurnEnds
<1> QED BY <1>1, <1>2, PageMoves DEF PageInv, ErrandsFit, SomethingComes

LEMMA FollowKeeps ==
  ASSUME PageInv, NEW e \in errands, Follow(e) \/ Revealed(e)
  PROVE  PageInv'
<1>1. /\ site \in PageViews /\ chat \in ChatStates /\ UNCHANGED <<chat, askedIn, declined>>
      /\ \A x \in errands : ErrandFits(x)
  BY DEF Follow, Revealed, PageInv, PageTyped, ErrandsFit
<1>2. CASE Follow(e) /\ FinishTurn(site, errands \ {e}, e.q, e.talk)
  <2>1. e.q \in Questions /\ e.talk \in Threads \cup {Nobody}
    BY <1>1, <1>2 DEF Follow, ErrandFits, Errands, OfTurns
  <2> QED BY <1>1, <1>2, <2>1, Following
<1>3. CASE errands' = errands \ {e} /\ site' = [site EXCEPT !.recover = TRUE]
  <2>1. PICK p : p = [site EXCEPT !.recover = TRUE]
    OBVIOUS
  <2>2. p \in PageViews /\ site' = p /\ p.pending = site.pending /\ p.recover
    BY <1>1, <1>3, <2>1 DEF PageViews
  <2> QED BY <1>1, <1>3, <2>2, PageMoves DEF Waits
<1>4. CASE Revealed(e)
  <2>1. PICK p : p = [site EXCEPT !.busy = FALSE, !.recover = FALSE]
    OBVIOUS
  <2>2. p \in PageViews /\ site' = p /\ p.pending = site.pending /\ ~p.busy
    BY <1>1, <1>4, <2>1 DEF Revealed, PageViews
  <2> QED BY <1>1, <1>4, <2>2, PageMoves DEF Waits, Revealed
<1> QED BY <1>2, <1>3, <1>4 DEF Follow

LEMMA StopKeeps ==
  ASSUME PageInv, StopTurn
  PROVE  PageInv'
<1>1. PICK e : e = Errand("stop", site.active, site.cid, "none")
  OBVIOUS
<1>2. site \in PageViews /\ site.active \in Questions
  BY DEF StopTurn, PageInv, PageTyped, PageViews
<1>3. ErrandFits(e) /\ errands' = errands \cup {e}
  BY <1>1, <1>2, AnErrand DEF StopTurn, OfTurns, Delivery, PageViews
<1> QED BY <1>2, <1>3, PageMoves DEF StopTurn, PageInv, PageTyped, ErrandsFit, SomethingComes

LEMMA StoppedKeeps ==
  ASSUME PageInv, NEW e \in errands, Stopped(e)
  PROVE  PageInv'
<1>1. /\ site \in PageViews /\ chat \in ChatStates /\ UNCHANGED <<askedIn, declined>>
      /\ \A x \in errands : ErrandFits(x)
  BY DEF Stopped, PageInv, PageTyped, ErrandsFit
<1>2. e.kind = "stop" /\ e.q \in Questions /\ e.talk \in Threads \cup {Nobody}
  BY <1>1 DEF Stopped, ErrandFits, Errands, OfTurns
<1>3. PICK c : c = [chat EXCEPT !.turn[e.q] = "finished"]
  OBVIOUS
<1>4. /\ c = [chat EXCEPT !.turn[e.q] = "finished"] /\ c \in ChatStates
      /\ \A r \in Questions : chat.turn[r] # "none" => c.turn[r] # "none"
  BY <1>1, <1>2, <1>3 DEF ChatStates
<1>5. CASE chat' = c /\ errands' = errands \ {e} /\ UNCHANGED site
  <2>1. ~Comes(site, e)
    BY <1>2 DEF Comes, Delivery
  <2> QED BY <1>1, <1>4, <1>5, <2>1, PageMoves DEF PageInv, SomethingComes
<1>6. CASE chat' = c /\ FinishTurn(site, errands \ {e}, e.q, e.talk)
  BY <1>1, <1>2, <1>4, <1>6, Following
<1>7. CASE /\ chat' \in {chat, c} /\ errands' = errands \ {e}
           /\ site' = [site EXCEPT !.recover = TRUE]
  <2>1. PICK p : p = [site EXCEPT !.recover = TRUE]
    OBVIOUS
  <2>2. p \in PageViews /\ site' = p /\ p.pending = site.pending /\ p.recover
    BY <1>1, <1>7, <2>1 DEF PageViews
  <2> QED BY <1>1, <1>4, <1>7, <2>2, PageMoves DEF Waits
<1> QED BY <1>4, <1>5, <1>6, <1>7 DEF Stopped

-----------------------------------------------------------------------------
LEMMA OpenedKeeps ==
  ASSUME PageAssumption, PageInv, NEW e \in errands, Opened(e)
  PROVE  PageInv'
<1>1. /\ site \in PageViews /\ chat \in ChatStates /\ UNCHANGED <<chat, askedIn, declined>>
      /\ \A x \in errands : ErrandFits(x)
  BY DEF Opened, PageInv, PageTyped, ErrandsFit
<1>2. e.talk \in Threads /\ e.chain \in {"none", "deliver", "pending"} /\ e.talk # Nobody
  BY <1>1 DEF Opened, ErrandFits, Errands, PageAssumption
<1>3. PICK p : p = FoundTalk(site, e.talk)
  OBVIOUS
<1>4. /\ p \in PageViews /\ p.cid = e.talk
      /\ \/ p.pending = site.pending
         \/ p.pending = Nobody /\ (site.pending # Nobody => chat.turn[site.pending] # "none")
  BY <1>1, <1>2, <1>3 DEF FoundTalk, PageViews
<1>5. PICK es : es = errands \ {e}
  OBVIOUS
<1>6. CASE PendingTalk(p) = e.talk /\ Then(ShowPending(p), es, e.chain)
  <2>1. PICK x : x = ShowPending(p)
    OBVIOUS
  <2>2. x \in PageViews /\ x.pending = p.pending /\ x.recover
    BY <1>4, <2>1 DEF ShowPending, PageViews
  <2>3. ~Waits(x)
    BY <2>2 DEF Waits
  <2>4. Then(x, es, e.chain)
    BY <1>6, <2>1
  <2> QED BY ONLY PageAssumption, PageInv, <1>1, <1>2, <1>4, <1>5, <2>2, <2>3, <2>4, ThenKeeps
<1>7. ASSUME NEW q \in Running(e.talk),
             Then(Subscribed(p, q), Unfollowed(es) \cup {Errand("stream", q, e.talk, "none")}, e.chain)
      PROVE  PageInv'
  <2>1. q \in Questions
    BY <1>7 DEF Running
  <2>2. PICK x : x = Subscribed(p, q)
    OBVIOUS
  <2>3. x \in PageViews /\ x.pending = p.pending
    BY <1>4, <2>1, <2>2 DEF Subscribed, PageViews
  <2>4. PICK s : s = Errand("stream", q, e.talk, "none")
    OBVIOUS
  <2>5. ErrandFits(s) /\ Comes(x, s)
    BY <1>2, <2>1, <2>4, AnErrand DEF OfTurns, Delivery, Comes
  <2>6. PICK fs : fs = Unfollowed(es) \cup {s} /\ \A y \in fs : ErrandFits(y)
    BY <1>1, <1>5, <2>5 DEF Unfollowed
  <2> QED BY <1>1, <1>2, <1>4, <1>7, <2>2, <2>3, <2>4, <2>5, <2>6, ThenKeeps
<1>8. CASE PendingTalk(p) # e.talk /\ Then([p EXCEPT !.busy = FALSE], es, e.chain)
  <2>1. PICK x : x = [p EXCEPT !.busy = FALSE]
    OBVIOUS
  <2>2. x \in PageViews /\ x.pending = p.pending /\ ~x.busy
    BY <1>4, <2>1 DEF PageViews
  <2>3. ~Waits(x)
    BY <2>2 DEF Waits
  <2>4. Then(x, es, e.chain)
    BY <1>8, <2>1
  <2> QED BY ONLY PageAssumption, PageInv, <1>1, <1>2, <1>4, <1>5, <2>2, <2>3, <2>4, ThenKeeps
<1>9. \/ PendingTalk(p) = e.talk /\ Then(ShowPending(p), es, e.chain)
      \/ \E q \in Running(e.talk) :
           Then(Subscribed(p, q), Unfollowed(es) \cup {Errand("stream", q, e.talk, "none")}, e.chain)
      \/ PendingTalk(p) # e.talk /\ Then([p EXCEPT !.busy = FALSE], es, e.chain)
  BY <1>3, <1>5 DEF Opened
<1> QED BY <1>6, <1>7, <1>8, <1>9

LEMMA NotOpenedKeeps ==
  ASSUME PageAssumption, PageInv, NEW e \in errands, NotOpened(e) \/ OpenedTooLate(e)
  PROVE  PageInv'
<1>1. /\ site \in PageViews /\ chat \in ChatStates /\ UNCHANGED <<chat, askedIn, declined>>
      /\ e.kind = "open" /\ \A x \in errands : ErrandFits(x)
  BY DEF NotOpened, OpenedTooLate, PageInv, PageTyped, ErrandsFit
<1>2. e.talk \in Threads /\ e.chain \in {"none", "deliver", "pending"}
  BY <1>1 DEF ErrandFits, Errands
<1>3. PICK es : es = errands \ {e} /\ \A y \in es : ErrandFits(y)
  BY <1>1
<1>4. CASE Then(ShowPending([site EXCEPT !.cid = e.talk, !.url = e.talk]), es, e.chain)
  <2>1. PICK x : x = ShowPending([site EXCEPT !.cid = e.talk, !.url = e.talk])
    OBVIOUS
  <2>2. x \in PageViews /\ x.pending = site.pending /\ x.recover
    BY <1>1, <1>2, <2>1 DEF ShowPending, PageViews
  <2>3. ~Waits(x)
    BY <2>2 DEF Waits
  <2>4. Then(x, es, e.chain)
    BY <1>4, <2>1
  <2> QED BY ONLY PageAssumption, PageInv, <1>1, <1>2, <1>3, <2>2, <2>3, <2>4, ThenKeeps
<1>5. CASE Then(Nowhere(site), es, e.chain)
  <2>1. PICK x : x = Nowhere(site)
    OBVIOUS
  <2>2. x \in PageViews /\ x.pending = site.pending /\ x.recover = x.busy
    BY <1>1, <2>1 DEF Nowhere, PageViews
  <2>3. ~Waits(x)
    BY <2>2 DEF Waits
  <2>4. Then(x, es, e.chain)
    BY <1>5, <2>1
  <2> QED BY ONLY PageAssumption, PageInv, <1>1, <1>2, <1>3, <2>2, <2>3, <2>4, ThenKeeps
<1>6. CASE Then([site EXCEPT !.busy = site.pending # Nobody, !.recover = TRUE], es, e.chain)
  <2>1. PICK x : x = [site EXCEPT !.busy = site.pending # Nobody, !.recover = TRUE]
    OBVIOUS
  <2>2. x \in PageViews /\ x.pending = site.pending /\ x.recover
    BY <1>1, <2>1 DEF PageViews
  <2>3. ~Waits(x)
    BY <2>2 DEF Waits
  <2>4. Then(x, es, e.chain)
    BY <1>6, <2>1
  <2> QED BY ONLY PageAssumption, PageInv, <1>1, <1>2, <1>3, <2>2, <2>3, <2>4, ThenKeeps
<1>7. CASE ~e.fresh /\ Then(site, es, e.chain)
  <2>1. ~Comes(site, e)
    BY <1>1, <1>7 DEF Comes, Delivery
  <2>2. Waits(site) => Elsewhere(site) \/ \E x \in es : Comes(site, x)
    BY <1>3, <2>1 DEF PageInv, SomethingComes
  <2> QED BY <1>1, <1>2, <1>3, <1>7, <2>2, ThenKeeps
<1> QED BY <1>3, <1>4, <1>5, <1>6, <1>7 DEF NotOpened, OpenedTooLate

LEMMA TurnsElsewhere ==
  ASSUME PageAssumption, PageInv,
         NewConversation \/ Reconnect \/ \E k \in Threads : OpenFromHistory(k)
  PROVE  PageInv'
<1>1. /\ site \in PageViews /\ chat \in ChatStates /\ UNCHANGED <<askedIn, declined>>
      /\ \A x \in errands : ErrandFits(x)
  BY DEF NewConversation, Reconnect, OpenFromHistory, PageInv, PageTyped, ErrandsFit
<1>2. CASE NewConversation
  <2>1. PICK p : p = [site EXCEPT !.cid = Nobody, !.url = Nobody, !.active = Nobody, !.recover = FALSE]
    OBVIOUS
  <2>2. p \in PageViews /\ site' = p /\ p.pending = site.pending /\ ~p.busy
    BY <1>1, <1>2, <2>1 DEF NewConversation, PageViews
  <2>3. \A x \in errands' : ErrandFits(x)
    BY <1>2, Outdated DEF NewConversation
  <2> QED BY <1>1, <1>2, <2>2, <2>3, PageMoves DEF Waits, NewConversation
<1>3. ASSUME NEW k \in Threads, OpenFromHistory(k) PROVE PageInv'
  BY <1>1, <1>3, OpeningKeeps DEF OpenFromHistory
<1>4. CASE Reconnect
  <2>1. CASE site.pending # Nobody /\ Opening(site, PendingTalk(site), "deliver")
    <3>1. PendingTalk(site) \in Threads
      BY <2>1 DEF PendingTalk, PageInv, PendingWasAsked
    <3> QED BY <1>1, <2>1, <3>1, OpeningKeeps
  <2>2. CASE site.pending # Nobody /\ site.auth /\ Deliver(site, errands) /\ UNCHANGED chat
    <3>1. Then(site, errands, "deliver")
      BY <2>2 DEF Then
    <3> QED BY <1>1, <2>2, <3>1, ThenKeeps DEF PageInv, SomethingComes
  <2>3. CASE site.active # Nobody /\ Subscribe(site, errands, site.active, site.cid) /\ UNCHANGED chat
    <3>1. site.active \in Questions /\ site.cid \in Threads \cup {Nobody}
      BY <1>1, <2>3 DEF PageViews
    <3> QED BY <1>1, <2>3, <3>1, Following
  <2>4. CASE site.cid # Nobody /\ Opening(site, site.cid, "none")
    <3>1. site.cid \in Threads
      BY <1>1, <2>4 DEF PageViews
    <3> QED BY <1>1, <2>4, <3>1, OpeningKeeps
  <2> QED BY <1>4, <2>1, <2>2, <2>3, <2>4 DEF Reconnect
<1> QED BY <1>2, <1>3, <1>4

LEMMA VisitsKeep ==
  ASSUME PageAssumption, PageInv, EndVisit \/ Unlock \/ Reload
  PROVE  PageInv'
<1>1. /\ site \in PageViews /\ chat \in ChatStates /\ UNCHANGED <<askedIn, declined>>
      /\ \A x \in errands : ErrandFits(x)
  BY DEF EndVisit, Unlock, Reload, PageInv, PageTyped, ErrandsFit
<1>2. CASE EndVisit \/ Reload
  <2>1. PICK p \in PageViews : site' = p /\ p.pending = site.pending /\ ~p.auth
    BY <1>1, <1>2 DEF EndVisit, Lock, Locked, Reload, PageViews
  <2>2. \A x \in errands' : ErrandFits(x)
    BY <1>2, Outdated DEF EndVisit, Lock, Reload
  <2>3. PICK c \in ChatStates : chat' = c /\ c.turn = chat.turn
    BY <1>2, OnTheWay DEF EndVisit, Lock, Reload
  <2> QED BY <1>1, <2>1, <2>2, <2>3, PageMoves DEF Waits
<1>3. CASE Unlock
  <2>1. PICK p : p = [site EXCEPT !.auth = TRUE, !.busy = FALSE, !.visits = @ + 1]
    OBVIOUS
  <2>2. site.visits + 1 \in 0..MaxVisits
    BY <1>1, <1>3 DEF Unlock, PageViews, PageAssumption
  <2>3. p \in PageViews /\ p.pending = site.pending /\ ~p.busy
    BY <1>1, <2>1, <2>2 DEF PageViews
  <2>4. CASE p.url # Nobody /\ Opening(p, p.url, "pending")
    <3>1. p.url \in Threads
      BY <2>3, <2>4 DEF PageViews
    <3> QED BY <1>1, <2>3, <2>4, <3>1, OpeningKeeps
  <2>5. CASE site' = Afterwards([p EXCEPT !.cid = Nobody]) /\ UNCHANGED <<errands, chat>>
    <3>1. PICK x : x = [p EXCEPT !.cid = Nobody]
      OBVIOUS
    <3>2. x \in PageViews /\ x.pending = site.pending /\ ~x.busy
      BY <2>3, <3>1 DEF PageViews
    <3>3. Then(x, errands, "pending")
      BY <2>5, <3>1 DEF Then
    <3> QED BY <1>1, <2>5, <3>2, <3>3, ThenKeeps DEF Waits
  <2> QED BY <1>3, <2>1, <2>4, <2>5 DEF Unlock
<1> QED BY <1>2, <1>3

LEMMA PageKeeps ==
  ASSUME PageAssumption, PageInv, [PageNext]_pageVars
  PROVE  PageInv'
<1>1. CASE UNCHANGED pageVars
  BY <1>1, PageMoves DEF pageVars, PageInv, PageTyped, ErrandsFit, SomethingComes
<1>2. CASE PageNext
  BY <1>2, AskKeeps, ServerMoves, SnapshotKeeps, PutKeeps, RefusedKeeps, FollowKeeps, StopKeeps,
     StoppedKeeps, OpenedKeeps, NotOpenedKeeps, TurnsElsewhere, VisitsKeep DEF PageNext
<1> QED BY <1>1, <1>2

(* No question is lost from sight, and a page without a callback to come *)
(* is not busy or shows the button, whatever fails or is late, over *)
(* reloads and ended sessions (static/chat.js). *)
THEOREM PageKeepsQuestions ==
  ASSUME PageAssumption
  PROVE  PageSpec => []PageKeepsItsWord
<1>1. PageInit => PageInv
  BY PageStart
<1>2. PageInv /\ [PageNext]_pageVars => PageInv'
  BY PageKeeps
<1>3. PageInv => PageKeepsItsWord
  <2> SUFFICES ASSUME PageInv PROVE PageKeepsItsWord
    OBVIOUS
  <2>1. ASSUME site.auth, errands = {}, site.pending # Nobody => PendingTalk(site) = site.cid
        PROVE  site.recover \/ ~site.busy
    BY <2>1 DEF PageInv, SomethingComes, Waits, Elsewhere, PendingTalk
  <2> QED BY <2>1 DEF PageInv, PageKeepsItsWord, PageGoesOn
<1> QED BY <1>1, <1>2, <1>3, PTL DEF PageSpec

(* The page keeps its types (static/chat.js). *)
THEOREM PageTypes ==
  ASSUME PageAssumption
  PROVE  PageSpec => []PageTypeOK
<1>1. PageInit => PageInv
  BY PageStart
<1>2. PageInv /\ [PageNext]_pageVars => PageInv'
  BY PageKeeps
<1>3. PageInv => PageTypeOK
  <2> SUFFICES ASSUME PageInv PROVE PageTypeOK
    OBVIOUS
  <2>1. PageTyped /\ \A e \in errands : e \in Errands
    BY DEF PageInv, ErrandsFit, ErrandFits
  <2>2. \A e \in errands : e.kind \in {"snapshot", "put", "stream", "reveal", "stop", "open"}
    BY <2>1 DEF Errands, OfTurns
  <2> QED BY <2>1, <2>2 DEF PageTypeOK, PageTyped, PageViews, ChatStates
<1> QED BY <1>1, <1>2, <1>3, PTL DEF PageSpec

-----------------------------------------------------------------------------
(* The model connection: a page shows, a request names and a turn was *)
(* admitted with a revision that was the process's, and what they saw of *)
(* that revision is what it still has. *)

Hubs == [start : 0..MaxRestarts, revision : Nat, active : Setups, key : Keys \cup {NoSetup},
         ready : BOOLEAN]
Seen == [revision : Nat, config : Setups]
Requests == [page : Editors, kind : {"read", "activate", "disable"}, config : Setups,
             key : Keys \cup {NoSetup}, revision : Nat, saw : Setups, heard : BOOLEAN,
             answer : {"none", "ok", "failed", "refused"}, data : Seen \cup {NoSetup}]
TurnSetups == [config : Setups, key : Keys \cup {NoSetup}, revision : Nat]

HubTyped ==
  /\ hub \in Hubs
  /\ FirstRevision(hub.start) =< hub.revision
  /\ hub.revision =< FirstRevision(hub.start) + MaxChanges
  /\ editor \in [Editors -> [shown : Seen \cup {NoSetup}, uncertain : BOOLEAN]]
  /\ requests \subseteq Requests
  /\ talk \in [Talks -> TurnSetups \cup {NoSetup}]

(* What was read of a revision is true of it. *)
TrueOf(revision, config) ==
  revision =< hub.revision /\ (revision = hub.revision => config = hub.active)

ShownWasTrue ==
  \A e \in Editors :
    editor[e].shown # NoSetup => TrueOf(editor[e].shown.revision, editor[e].shown.config)

AnswersWereTrue ==
  \A r \in requests :
    r.answer = "ok" /\ r.data # NoSetup => TrueOf(r.data.revision, r.data.config)

AskersSawIt ==
  \A r \in requests : r.answer = "none" /\ r.kind # "read" => TrueOf(r.revision, r.saw)

TalksWereTrue ==
  \A t \in Talks :
    talk[t] # NoSetup => /\ TrueOf(talk[t].revision, talk[t].config)
                         /\ talk[t].revision = hub.revision => talk[t].key = hub.key

HubInv == HubTyped /\ ShownWasTrue /\ AnswersWereTrue /\ AskersSawIt /\ TalksWereTrue

LEMMA HubStart ==
  ASSUME HubAssumption, HubInit
  PROVE  HubInv
<1>1. FirstRevision(0) = 0 /\ MaxChanges \in Nat /\ 0 \in 0..MaxRestarts
  BY DEF FirstRevision, HubAssumption
<1>2. hub = [start |-> 0, revision |-> 0, active |-> NoSetup, key |-> NoSetup, ready |-> TRUE]
  BY <1>1 DEF HubInit, Fresh
<1>3. /\ editor = [e \in Editors |-> [shown |-> NoSetup, uncertain |-> FALSE]]
      /\ requests = {} /\ talk = [t \in Talks |-> NoSetup]
  BY DEF HubInit, Unread
<1>4. hub \in Hubs /\ hub.start = 0 /\ hub.revision = 0
  BY <1>1, <1>2 DEF Hubs, Setups
<1>5. HubTyped
  BY <1>1, <1>3, <1>4 DEF HubTyped
<1>6. ShownWasTrue /\ AnswersWereTrue /\ AskersSawIt /\ TalksWereTrue
  BY <1>3 DEF ShownWasTrue, AnswersWereTrue, AskersSawIt, TalksWereTrue
<1> QED BY <1>5, <1>6 DEF HubInv

(* A newer revision leaves what was read of the older ones true. *)
LEMMA NewRevision ==
  ASSUME HubInv, hub' \in Hubs, hub.revision < hub'.revision,
         FirstRevision(hub'.start) =< hub'.revision,
         hub'.revision =< FirstRevision(hub'.start) + MaxChanges,
         UNCHANGED <<editor, requests, talk>>
  PROVE  HubInv'
<1>1. hub.revision \in Nat /\ hub'.revision \in Nat
  BY DEF HubInv, HubTyped, Hubs
<1>2. HubTyped'
  BY DEF HubInv, HubTyped, Hubs, FirstRevision
<1>3. ShownWasTrue'
  BY <1>1 DEF HubInv, HubTyped, ShownWasTrue, TrueOf, Seen
<1>4. AnswersWereTrue'
  BY <1>1 DEF HubInv, HubTyped, AnswersWereTrue, TrueOf, Seen, Requests
<1>5. AskersSawIt'
  BY <1>1 DEF HubInv, HubTyped, AskersSawIt, TrueOf, Requests
<1>6. TalksWereTrue'
  BY <1>1 DEF HubInv, HubTyped, TalksWereTrue, TrueOf, TurnSetups
<1> QED BY <1>2, <1>3, <1>4, <1>5, <1>6 DEF HubInv

LEMMA UnheardStays ==
  ASSUME HubInv, NEW e \in Editors
  PROVE  /\ Unheard(e) \subseteq Requests
         /\ \A q \in Unheard(e) : \E r \in requests :
              /\ q.kind = r.kind /\ q.revision = r.revision /\ q.saw = r.saw
              /\ q.answer = r.answer /\ q.data = r.data
<1> SUFFICES ASSUME NEW q \in Unheard(e)
             PROVE  /\ q \in Requests
                    /\ \E r \in requests :
                         /\ q.kind = r.kind /\ q.revision = r.revision /\ q.saw = r.saw
                         /\ q.answer = r.answer /\ q.data = r.data
  OBVIOUS
<1>1. PICK r \in requests : q = IF r.page = e THEN [r EXCEPT !.heard = FALSE] ELSE r
  BY DEF Unheard
<1>2. r \in Requests
  BY DEF HubInv, HubTyped
<1>3. q \in Requests
  BY <1>1, <1>2 DEF Requests
<1>4. /\ q.kind = r.kind /\ q.revision = r.revision /\ q.saw = r.saw
      /\ q.answer = r.answer /\ q.data = r.data
  BY <1>1, <1>2 DEF Requests
<1> QED BY <1>3, <1>4

(* A page asks for what it was shown. *)
LEMMA AskingKeeps ==
  ASSUME HubInv, NEW r \in Requests, PutRequest(r), UNCHANGED <<hub, editor, talk>>,
         r.answer = "none", r.kind # "read" => TrueOf(r.revision, r.saw)
  PROVE  HubInv'
<1>1. HubTyped'
  BY UnheardStays DEF HubInv, HubTyped, PutRequest, Requests
<1>2. ShownWasTrue' /\ TalksWereTrue'
  BY DEF HubInv, ShownWasTrue, TalksWereTrue, TrueOf
<1>3. AnswersWereTrue' /\ AskersSawIt'
  <2> SUFFICES ASSUME NEW q \in requests'
               PROVE  /\ q.answer = "ok" /\ q.data # NoSetup => TrueOf(q.data.revision, q.data.config)
                      /\ q.answer = "none" /\ q.kind # "read" => TrueOf(q.revision, q.saw)
    BY DEF AnswersWereTrue, AskersSawIt, TrueOf
  <2>1. CASE q = r
    BY <2>1
  <2>2. CASE q \in Unheard(r.page)
    <3>1. PICK s \in requests : /\ q.kind = s.kind /\ q.revision = s.revision /\ q.saw = s.saw
                                /\ q.answer = s.answer /\ q.data = s.data
      BY <2>2, UnheardStays DEF Requests
    <3> QED BY <3>1 DEF HubInv, AnswersWereTrue, AskersSawIt
  <2> QED BY <2>1, <2>2 DEF PutRequest
<1> QED BY <1>1, <1>2, <1>3 DEF HubInv

(* An answer says what the process has. *)
LEMMA AnswerKeeps ==
  ASSUME HubInv, NEW r \in requests, NEW data \in Seen \cup {NoSetup},
         NEW answer \in {"ok", "failed", "refused"}, GiveAnswer(r, answer, data),
         answer = "ok" => TrueOf(data.revision, data.config), UNCHANGED <<hub, editor, talk>>
  PROVE  HubInv'
<1>1. r \in Requests
  BY DEF HubInv, HubTyped
<1>2. PICK a \in Requests : a = [r EXCEPT !.answer = answer, !.data = data]
  BY <1>1 DEF Requests
<1>3. a.answer = answer /\ a.data = data
  BY <1>1, <1>2 DEF Requests
<1>4. \A q \in requests' : q \in requests \/ q = a
  BY <1>2 DEF GiveAnswer
<1>5. HubTyped'
  BY <1>2, <1>4 DEF HubInv, HubTyped
<1>6. ShownWasTrue' /\ TalksWereTrue'
  BY DEF HubInv, ShownWasTrue, TalksWereTrue, TrueOf
<1>7. AnswersWereTrue' /\ AskersSawIt'
  BY <1>3, <1>4 DEF HubInv, AnswersWereTrue, AskersSawIt, TrueOf
<1> QED BY <1>5, <1>6, <1>7 DEF HubInv

(* A change is asked for by a page that showed what is replaced. *)
LEMMA ChangeKeeps ==
  ASSUME HubAssumption, HubInv, NEW r \in requests, r.answer = "none", ServeChange(r)
  PROVE  HubInv' /\ r \notin requests' /\ r.saw = hub.active /\ r.kind # "read"
<1>1. r \in Requests /\ hub \in Hubs /\ MaxChanges \in Nat
  BY DEF HubInv, HubTyped, HubAssumption
<1>2. r.kind # "read" /\ r.revision = hub.revision
  BY DEF ServeChange, Unfit, SameRevision
<1>3. r.saw = hub.active
  BY <1>2 DEF HubInv, AskersSawIt, TrueOf
<1>4. PICK h : /\ h = [hub EXCEPT !.active = r.config, !.key = r.key, !.revision = hub.revision + 1]
               /\ hub' = h
  BY DEF ServeChange, Changed
<1>5. hub.revision \in Nat /\ r.config \in Setups /\ r.key \in Keys \cup {NoSetup}
  BY <1>1 DEF Hubs, Requests
<1>6. /\ h \in Hubs /\ h.revision = hub.revision + 1 /\ h.start = hub.start
      /\ h.active = r.config
      /\ FirstRevision(hub.start) =< h.revision
      /\ h.revision =< FirstRevision(hub.start) + MaxChanges
  <2>1. FirstRevision(hub.start) \in Nat
    BY <1>1 DEF Hubs, FirstRevision
  <2>2. /\ FirstRevision(hub.start) =< hub.revision
        /\ hub.revision < FirstRevision(hub.start) + MaxChanges
    BY DEF HubInv, HubTyped, ServeChange
  <2>3. /\ h \in Hubs /\ h.revision = hub.revision + 1 /\ h.start = hub.start
        /\ h.active = r.config
    <3>1. PICK n \in Nat : n = hub.revision + 1
      BY <1>5
    <3>2. h = [hub EXCEPT !.active = r.config, !.key = r.key, !.revision = n]
      BY <1>4, <3>1
    <3> QED BY <1>1, <1>5, <3>1, <3>2 DEF Hubs
  <2> QED BY <1>1, <1>5, <2>1, <2>2, <2>3
<1>7. PICK d \in Seen : d = [revision |-> h.revision, config |-> h.active]
  BY <1>6 DEF Seen, Hubs
<1>8. PICK a \in Requests : a = [r EXCEPT !.answer = "ok", !.data = d]
  BY <1>1 DEF Requests
<1>9. a.answer = "ok" /\ a.data = d
  BY <1>1, <1>8 DEF Requests
<1>10. Read(hub') = d
  BY <1>4, <1>7 DEF Read
<1>11. requests' = (requests \ {r}) \cup (IF r.heard THEN {a} ELSE {})
  BY <1>8, <1>10 DEF ServeChange, GiveAnswer
<1>12. \A q \in requests' : q \in requests \/ q = a
  BY <1>11
<1>13. HubTyped'
  <2>1. requests' \subseteq Requests /\ UNCHANGED <<editor, talk>>
    BY <1>12 DEF HubInv, HubTyped, ServeChange
  <2> QED BY <1>4, <1>6, <2>1 DEF HubInv, HubTyped
<1>14. ShownWasTrue'
  BY <1>4, <1>5, <1>6 DEF HubInv, HubTyped, ShownWasTrue, TrueOf, Seen, ServeChange
<1>15. AnswersWereTrue'
  <2> SUFFICES ASSUME NEW q \in requests', q.answer = "ok", q.data # NoSetup
               PROVE  /\ q.data.revision =< h.revision
                      /\ q.data.revision = h.revision => q.data.config = h.active
    BY <1>4 DEF AnswersWereTrue, TrueOf
  <2>1. CASE q = a
    BY <1>5, <1>6, <1>7, <1>9, <2>1
  <2>2. CASE q \in requests
    <3>1. q \in Requests /\ q.data \in Seen /\ TrueOf(q.data.revision, q.data.config)
      BY <2>2 DEF HubInv, HubTyped, AnswersWereTrue, Requests
    <3> QED BY <1>5, <1>6, <3>1 DEF TrueOf, Seen
  <2> QED BY <1>12, <2>1, <2>2
<1>16. AskersSawIt'
  <2> SUFFICES ASSUME NEW q \in requests', q.answer = "none", q.kind # "read"
               PROVE  /\ q.revision =< h.revision
                      /\ q.revision = h.revision => q.saw = h.active
    BY <1>4 DEF AskersSawIt, TrueOf
  <2>1. q \in requests /\ q \in Requests
    BY <1>9, <1>12 DEF HubInv, HubTyped
  <2>2. TrueOf(q.revision, q.saw) /\ q.revision \in Nat
    BY <2>1 DEF HubInv, AskersSawIt, Requests
  <2> QED BY <1>5, <1>6, <2>2 DEF TrueOf
<1>17. TalksWereTrue'
  BY <1>4, <1>5, <1>6 DEF HubInv, HubTyped, TalksWereTrue, TrueOf, TurnSetups, ServeChange
<1>18. r \notin requests'
  BY <1>9, <1>11
<1> QED BY <1>2, <1>3, <1>13, <1>14, <1>15, <1>16, <1>17, <1>18 DEF HubInv

(* An answer or its loss reaches the page. *)
LEMMA PageHears ==
  ASSUME HubInv, NEW r \in requests, Receive(r) \/ BreakRequest(r)
  PROVE  HubInv'
<1>1. r \in Requests /\ UNCHANGED <<hub, talk>>
  BY DEF HubInv, HubTyped, Receive, BreakRequest
<1>2. PICK b \in Requests : b = [r EXCEPT !.heard = FALSE]
  BY <1>1 DEF Requests
<1>3. /\ b.kind = r.kind /\ b.revision = r.revision /\ b.saw = r.saw
      /\ b.answer = r.answer /\ b.data = r.data
  BY <1>1, <1>2 DEF Requests
<1>4. \A q \in requests' : q \in requests \/ q = b
  BY <1>2 DEF Receive, BreakRequest
<1>5. AnswersWereTrue' /\ AskersSawIt'
  BY <1>1, <1>3, <1>4 DEF HubInv, AnswersWereTrue, AskersSawIt, TrueOf
<1>6. TalksWereTrue'
  BY <1>1 DEF HubInv, TalksWereTrue, TrueOf
<1>7. CASE r.answer = "ok" /\ Receive(r)
  <2>1. editor' = [editor EXCEPT ![r.page] = [shown |-> r.data, uncertain |-> FALSE]]
    BY <1>7 DEF Receive
  <2>2. HubTyped'
    BY <1>1, <1>2, <1>4, <2>1 DEF HubInv, HubTyped, Requests
  <2>3. ShownWasTrue'
    <3> SUFFICES ASSUME NEW e \in Editors, editor'[e].shown # NoSetup
                 PROVE  TrueOf(editor'[e].shown.revision, editor'[e].shown.config)
      BY <1>1 DEF ShownWasTrue, TrueOf
    <3>1. CASE e = r.page
      BY <1>7, <2>1, <3>1 DEF HubInv, HubTyped, AnswersWereTrue
    <3>2. CASE e # r.page
      BY <2>1, <3>2 DEF HubInv, HubTyped, ShownWasTrue
    <3> QED BY <3>1, <3>2
  <2> QED BY <1>5, <1>6, <2>2, <2>3 DEF HubInv
<1>8. CASE ~(r.answer = "ok" /\ Receive(r))
  <2>1. PICK u \in BOOLEAN : editor' = [editor EXCEPT ![r.page].uncertain = u]
    <3>1. r.page \in Editors /\ editor[r.page].uncertain \in BOOLEAN
      BY <1>1 DEF HubInv, HubTyped, Requests
    <3>2. CASE Receive(r)
      <4>1. r.answer # "ok"
        BY <1>8, <3>2
      <4>2. editor' = [editor EXCEPT ![r.page].uncertain = @ \/ r.answer = "failed"]
        BY <3>2, <4>1 DEF Receive
      <4> QED BY <3>1, <4>2
    <3>3. CASE BreakRequest(r)
      BY <3>1, <3>3 DEF BreakRequest
    <3> QED BY <3>2, <3>3
  <2>2. /\ editor' \in [Editors -> [shown : Seen \cup {NoSetup}, uncertain : BOOLEAN]]
        /\ \A e \in Editors : editor'[e].shown = editor[e].shown
    BY <1>1, <2>1 DEF HubInv, HubTyped, Requests
  <2>3. HubTyped' /\ ShownWasTrue'
    BY <1>1, <1>4, <2>2 DEF HubInv, HubTyped, ShownWasTrue, TrueOf
  <2> QED BY <1>5, <1>6, <2>3 DEF HubInv
<1> QED BY <1>7, <1>8

(* A restart draws a revision above all it had, and the rest of a page. *)
LEMMA OthersKeep ==
  ASSUME HubAssumption, HubInv
  PROVE  /\ RestartHub => HubInv'
         /\ KeyFile => HubInv'
         /\ \A t \in Talks : Admit(t) => HubInv'
         /\ \A e \in Editors : ResetSession(e) => HubInv'
<1>1. hub \in Hubs /\ MaxChanges \in Nat /\ MaxRestarts \in Nat
  BY DEF HubInv, HubTyped, HubAssumption
<1>2. ASSUME RestartHub PROVE HubInv'
  <2>1. PICK h \in Hubs : /\ hub' = h /\ h.start = hub.start + 1
                          /\ h.revision = FirstRevision(hub.start + 1)
    <3>1. hub.start + 1 \in 0..MaxRestarts /\ FirstRevision(hub.start + 1) \in Nat
      BY <1>1, <1>2 DEF RestartHub, Hubs, FirstRevision
    <3>2. hub' = [start |-> hub.start + 1, revision |-> FirstRevision(hub.start + 1),
                  active |-> NoSetup, key |-> NoSetup, ready |-> hub.ready]
      BY <1>2 DEF RestartHub, Fresh
    <3>3. hub' \in Hubs
      BY <1>1, <3>1, <3>2 DEF Hubs, Setups
    <3> QED BY <3>2, <3>3
  <2>2. FirstRevision(hub.start + 1) = FirstRevision(hub.start) + MaxChanges + 1
    BY <1>1 DEF FirstRevision, Hubs
  <2>3. hub.revision < h.revision /\ h.revision =< FirstRevision(h.start) + MaxChanges
    BY <1>1, <2>1, <2>2 DEF HubInv, HubTyped, Hubs, FirstRevision
  <2> QED BY <1>2, <2>1, <2>3, NewRevision DEF RestartHub, Hubs
<1>3. ASSUME KeyFile PROVE HubInv'
  <2>1. /\ hub' \in Hubs /\ hub'.start = hub.start /\ hub'.revision = hub.revision
        /\ hub'.active = hub.active /\ hub'.key = hub.key
    BY <1>1, <1>3 DEF KeyFile, Hubs
  <2> QED BY <1>3, <2>1
        DEF KeyFile, HubInv, HubTyped, ShownWasTrue, AnswersWereTrue, AskersSawIt, TalksWereTrue, TrueOf
<1>4. ASSUME NEW t \in Talks, Admit(t) PROVE HubInv'
  <2>1. PICK a \in TurnSetups : /\ a = [config |-> hub.active, key |-> hub.key, revision |-> hub.revision]
                              /\ talk' = [talk EXCEPT ![t] = a]
    BY <1>1, <1>4 DEF Admit, TurnSetups, Hubs
  <2>2. /\ talk' \in [Talks -> TurnSetups \cup {NoSetup}] /\ talk'[t] = a
        /\ \A u \in Talks \ {t} : talk'[u] = talk[u]
    BY <2>1 DEF HubInv, HubTyped
  <2>3. TrueOf(a.revision, a.config) /\ a.key = hub.key
    BY <1>1, <2>1 DEF TrueOf, Hubs
  <2>4. TalksWereTrue'
    BY <1>4, <2>2, <2>3 DEF HubInv, TalksWereTrue, TrueOf, Admit
  <2> QED BY <1>4, <2>2, <2>4
        DEF Admit, HubInv, HubTyped, ShownWasTrue, AnswersWereTrue, AskersSawIt, TrueOf
<1>5. ASSUME NEW e \in Editors, ResetSession(e) PROVE HubInv'
  <2>1. requests' \subseteq Requests
    BY <1>5, UnheardStays DEF ResetSession
  <2>2. /\ editor' \in [Editors -> [shown : Seen \cup {NoSetup}, uncertain : BOOLEAN]]
        /\ \A d \in Editors : editor'[d].shown \in {NoSetup, editor[d].shown}
    BY <1>5 DEF ResetSession, Unread, HubInv, HubTyped
  <2>3. HubTyped' /\ ShownWasTrue' /\ TalksWereTrue'
    BY <1>5, <2>1, <2>2
       DEF ResetSession, HubInv, HubTyped, ShownWasTrue, TalksWereTrue, TrueOf
  <2>4. \A q \in requests' : \E r \in requests :
              /\ q.kind = r.kind /\ q.revision = r.revision /\ q.saw = r.saw
              /\ q.answer = r.answer /\ q.data = r.data
    BY <1>5, UnheardStays DEF ResetSession
  <2>5. AnswersWereTrue' /\ AskersSawIt'
    BY <1>5, <2>4 DEF ResetSession, HubInv, AnswersWereTrue, AskersSawIt, TrueOf
  <2> QED BY <2>3, <2>5 DEF HubInv
<1> QED BY <1>2, <1>3, <1>4, <1>5

LEMMA HubKeeps ==
  ASSUME HubAssumption, HubInv, [HubNext]_hubVars
  PROVE  HubInv' /\ ReplacesTheShown
<1>1. hub \in Hubs
  BY DEF HubInv, HubTyped
<1>2. CASE UNCHANGED hubVars
  BY <1>2 DEF hubVars, HubInv, HubTyped, ShownWasTrue, AnswersWereTrue, AskersSawIt, TalksWereTrue,
              TrueOf, ReplacesTheShown
<1>3. ASSUME NEW e \in Editors, LoadConnection(e) PROVE HubInv' /\ UNCHANGED hub
  <2>1. PICK r : r = NewRequest(e, "read", NoSetup, NoSetup, 0)
    OBVIOUS
  <2>2. Shown(e) \in Setups
    BY DEF Shown, HubInv, HubTyped, Seen, Setups
  <2>3. r \in Requests /\ r.answer = "none" /\ r.kind = "read"
    BY <2>1, <2>2 DEF NewRequest, Requests, Setups
  <2> QED BY <1>3, <2>1, <2>3, AskingKeeps DEF LoadConnection
<1>4. ASSUME NEW e \in Editors, NEW c \in Setups, NEW k \in Keys \cup {NoSetup},
             NEW kind \in {"activate", "disable"}, MayAct(e),
             PutRequest(NewRequest(e, kind, c, k, editor[e].shown.revision)),
             UNCHANGED <<hub, editor, talk>>
      PROVE  HubInv'
  <2>1. PICK r : r = NewRequest(e, kind, c, k, editor[e].shown.revision)
    OBVIOUS
  <2>2. editor[e].shown \in Seen
    BY <1>4 DEF MayAct, HubInv, HubTyped
  <2>3. Shown(e) = editor[e].shown.config
    BY <1>4 DEF Shown, MayAct
  <2>4. r \in Requests /\ r.answer = "none" /\ TrueOf(r.revision, r.saw)
    BY <1>4, <2>1, <2>2, <2>3 DEF NewRequest, Requests, Seen, HubInv, ShownWasTrue, MayAct
  <2> QED BY <1>4, <2>1, <2>4, AskingKeeps
<1>5. ASSUME NEW e \in Editors, NEW c \in Endpoints, NEW k \in Keys, Apply(e, c, k)
      PROVE  HubInv' /\ UNCHANGED hub
  BY <1>4, <1>5 DEF Apply, Setups
<1>6. ASSUME NEW e \in Editors, SwitchOff(e) PROVE HubInv' /\ UNCHANGED hub
  BY <1>4, <1>6 DEF SwitchOff, Setups
<1>7. ASSUME NEW r \in requests, ServeRead(r) \/ ServeSame(r) PROVE HubInv' /\ UNCHANGED hub
  <2>1. Read(hub) \in Seen /\ TrueOf(Read(hub).revision, Read(hub).config)
    BY <1>1 DEF Read, Seen, Hubs, TrueOf
  <2> QED BY <1>7, <2>1, AnswerKeeps DEF ServeRead, ServeSame
<1>8. ASSUME NEW r \in requests, Refuse(r) PROVE HubInv' /\ UNCHANGED hub
  <2>1. PICK answer \in {"failed", "refused"} : GiveAnswer(r, answer, NoSetup)
    BY <1>8 DEF Refuse
  <2> QED BY <1>8, <2>1, AnswerKeeps DEF Refuse
<1>9. ASSUME NEW r \in requests, r.answer = "none", ServeChange(r) PROVE HubInv' /\ ReplacesTheShown
  BY <1>9, ChangeKeeps DEF ReplacesTheShown
<1>10. ASSUME NEW r \in requests, Receive(r) \/ BreakRequest(r) PROVE HubInv' /\ UNCHANGED hub
  BY <1>10, PageHears DEF Receive, BreakRequest
<1>11. RestartHub => HubInv' /\ ReplacesTheShown
  BY <1>1, OthersKeep DEF RestartHub, Fresh, Hubs, ReplacesTheShown
<1>12. KeyFile => HubInv' /\ ReplacesTheShown
  BY <1>1, OthersKeep DEF KeyFile, Hubs, ReplacesTheShown
<1>13. ASSUME NEW t \in Talks, Admit(t) PROVE HubInv' /\ UNCHANGED hub
  BY <1>13, OthersKeep DEF Admit
<1>14. ASSUME NEW e \in Editors, ResetSession(e) PROVE HubInv' /\ UNCHANGED hub
  BY <1>14, OthersKeep DEF ResetSession
<1>15. UNCHANGED hub => ReplacesTheShown
  BY DEF ReplacesTheShown
<1> QED BY <1>2, <1>3, <1>5, <1>6, <1>7, <1>8, <1>9, <1>10, <1>11, <1>12, <1>13, <1>14, <1>15 DEF HubNext

(* A turn's receipt names the connection it talks through, and what an *)
(* administrator replaces is what the page showed, over lost and late *)
(* requests and restarts (llm_connection.py, static/admin.js). *)
THEOREM ConnectionsAreShown ==
  ASSUME HubAssumption
  PROVE  HubSpec => ConnectionsAreAsShown
<1>1. HubInit => HubInv
  BY HubStart
<1>2. HubInv /\ [HubNext]_hubVars => HubInv'
  BY HubKeeps
<1>3. HubInv => RevisionNamesOne
  BY DEF HubInv, HubTyped, TalksWereTrue, TrueOf, RevisionNamesOne
<1>4. HubInv /\ [HubNext]_hubVars => [ReplacesTheShown]_hubVars
  BY HubKeeps
<1> QED BY <1>1, <1>2, <1>3, <1>4, PTL DEF HubSpec, ConnectionsAreAsShown

(* A page hears one answer, and only an answer brings data. *)
DataIsAnswered == \A r \in requests : r.answer = "ok" \/ r.data = NoSetup
HearsOne == \A r, s \in requests : r.page = s.page /\ r.heard /\ s.heard => r = s
RequestsFit == requests \subseteq Requests /\ DataIsAnswered /\ HearsOne

(* A page forgets what it waited for, and may ask anew. *)
LEMMA AnewFits ==
  ASSUME RequestsFit, NEW e \in Editors, NEW n \in Requests,
         n.page = e, n.data = NoSetup, requests' \subseteq Unheard(e) \cup {n}, requests' \subseteq Requests
  PROVE  RequestsFit'
<1>1. ASSUME NEW q \in Unheard(e)
      PROVE  /\ q.answer = "ok" \/ q.data = NoSetup
             /\ q.page = e => ~q.heard
             /\ q.page # e => q \in requests
  <2>1. PICK r \in requests : q = IF r.page = e THEN [r EXCEPT !.heard = FALSE] ELSE r
    BY DEF Unheard
  <2>2. r \in Requests /\ (r.answer = "ok" \/ r.data = NoSetup)
    BY DEF RequestsFit, DataIsAnswered
  <2> QED BY <2>1, <2>2 DEF Requests
<1>2. DataIsAnswered'
  BY <1>1 DEF DataIsAnswered
<1>3. ASSUME NEW q \in requests', NEW s \in requests', q.page = s.page, q.heard, s.heard
      PROVE  q = s
  <2>1. CASE q.page = e
    <3>1. q = n /\ s = n
      BY <1>1, <1>3, <2>1
    <3> QED BY <3>1
  <2>2. CASE q.page # e
    <3>1. q \in requests /\ s \in requests
      BY <1>1, <1>3, <2>2
    <3> QED BY <1>3, <3>1 DEF RequestsFit, HearsOne
  <2> QED BY <2>1, <2>2
<1> QED BY <1>2, <1>3 DEF RequestsFit, HearsOne

(* A request goes on, or is over. *)
LEMMA GoneOnFits ==
  ASSUME RequestsFit, NEW r \in requests, NEW a \in Requests,
         a.page = r.page, a.heard => r.heard, a.answer = "ok" \/ a.data = NoSetup,
         requests' \subseteq (requests \ {r}) \cup {a}
  PROVE  RequestsFit'
<1>1. DataIsAnswered' /\ requests' \subseteq Requests
  BY DEF RequestsFit, DataIsAnswered
<1>2. ASSUME NEW q \in requests', NEW s \in requests', q.page = s.page, q.heard, s.heard
      PROVE  q = s
  <2>1. CASE q \in requests \ {r} /\ s \in requests \ {r}
    BY <1>2, <2>1 DEF RequestsFit, HearsOne
  <2>2. ASSUME NEW t \in requests \ {r}, t.page = a.page, t.heard, a.heard PROVE FALSE
    <3>1. t = r
      BY <2>2 DEF RequestsFit, HearsOne
    <3> QED BY <3>1
  <2>3. CASE q = a \/ s = a
    BY <1>2, <2>2, <2>3
  <2> QED BY <2>1, <2>3
<1> QED BY <1>1, <1>2 DEF RequestsFit, HearsOne

LEMMA RequestsStep ==
  ASSUME HubAssumption, HubInv, HubInv', RequestsFit, [HubNext]_hubVars
  PROVE  RequestsFit'
<1> requests \subseteq Requests /\ requests' \subseteq Requests
  BY DEF HubInv, HubTyped
<1>1. CASE UNCHANGED requests
  BY <1>1 DEF RequestsFit, DataIsAnswered, HearsOne
<1>2. ASSUME NEW e \in Editors, NEW kind, NEW c, NEW k, NEW v,
             PutRequest(NewRequest(e, kind, c, k, v))
      PROVE  RequestsFit'
  <2>1. PICK n : n = NewRequest(e, kind, c, k, v)
    OBVIOUS
  <2>2. n.page = e /\ n.data = NoSetup
    BY <2>1 DEF NewRequest
  <2>3. requests' = Unheard(e) \cup {n}
    BY <1>2, <2>1, <2>2 DEF PutRequest
  <2>4. n \in Requests
    BY <2>3
  <2> QED BY <2>2, <2>3, <2>4, AnewFits
<1>3. ASSUME NEW e \in Editors, LoadConnection(e) \/ SwitchOff(e) \/ \E c \in Endpoints, k \in Keys : Apply(e, c, k)
      PROVE  RequestsFit'
  BY <1>2, <1>3 DEF LoadConnection, SwitchOff, Apply
<1>4. ASSUME NEW e \in Editors, ResetSession(e) PROVE RequestsFit'
  <2>1. requests' = Unheard(e)
    BY <1>4 DEF ResetSession
  <2>2. CASE requests = {}
    BY <2>1, <2>2 DEF Unheard, RequestsFit, DataIsAnswered, HearsOne
  <2>3. ASSUME NEW r \in requests PROVE RequestsFit'
    <3>1. PICK n \in Requests : n = [r EXCEPT !.page = e, !.data = NoSetup]
      BY DEF Requests
    <3>2. n.page = e /\ n.data = NoSetup
      BY <3>1 DEF Requests
    <3> QED BY <2>1, <3>2, AnewFits
  <2> QED BY <2>2, <2>3
<1>5. ASSUME NEW r \in requests, NEW answer \in {"ok", "failed", "refused"}, NEW data \in Seen \cup {NoSetup},
             GiveAnswer(r, answer, data), answer = "ok" \/ data = NoSetup
      PROVE  RequestsFit'
  <2>1. PICK a \in Requests : a = [r EXCEPT !.answer = answer, !.data = data]
    BY DEF Requests
  <2>2. a.page = r.page /\ a.heard = r.heard /\ a.answer = answer /\ a.data = data
    BY <2>1 DEF Requests
  <2>3. requests' \subseteq (requests \ {r}) \cup {a}
    BY <1>5, <2>1 DEF GiveAnswer
  <2> QED BY <1>5, <2>2, <2>3, GoneOnFits
<1>6. ASSUME NEW r \in requests, ServeRead(r) \/ ServeSame(r) \/ ServeChange(r) PROVE RequestsFit'
  <2>1. Read(hub) \in Seen /\ Read(hub') \in Seen
    BY DEF Read, Seen, HubInv, HubTyped, Hubs
  <2> QED BY <1>5, <1>6, <2>1 DEF ServeRead, ServeSame, ServeChange
<1>7. ASSUME NEW r \in requests, Refuse(r) PROVE RequestsFit'
  BY <1>5, <1>7 DEF Refuse
<1>8. ASSUME NEW r \in requests, Receive(r) \/ BreakRequest(r) PROVE RequestsFit'
  <2>1. PICK b \in Requests : b = [r EXCEPT !.heard = FALSE]
    BY DEF Requests
  <2>2. b.page = r.page /\ b.heard = FALSE /\ b.answer = r.answer /\ b.data = r.data
    BY <2>1 DEF Requests
  <2>3. requests' \subseteq (requests \ {r}) \cup {b}
    BY <1>8, <2>1 DEF Receive, BreakRequest
  <2>4. b.answer = "ok" \/ b.data = NoSetup
    BY <2>2 DEF RequestsFit, DataIsAnswered
  <2> QED BY <2>2, <2>3, <2>4, GoneOnFits
<1>9. RestartHub \/ KeyFile \/ (\E t \in Talks : Admit(t)) => UNCHANGED requests
  BY DEF RestartHub, KeyFile, Admit
<1> QED BY <1>1, <1>3, <1>4, <1>6, <1>7, <1>8, <1>9 DEF HubNext, hubVars

(* The revisions of all processes that are explored. *)
LEMMA RevisionsAreFew ==
  ASSUME HubAssumption, HubInv
  PROVE  hub.revision \in Revisions /\ \A n \in Nat : n <= hub.revision => n \in Revisions
<1>1. /\ hub.start \in Nat /\ hub.start <= MaxRestarts /\ hub.revision \in Nat
      /\ MaxChanges \in Nat /\ MaxRestarts \in Nat
      /\ hub.revision <= hub.start * (MaxChanges + 1) + MaxChanges
  BY DEF HubInv, HubTyped, Hubs, HubAssumption, FirstRevision
<1>2. hub.start * (MaxChanges + 1) <= MaxRestarts * (MaxChanges + 1)
  <2>1. PICK d \in Nat : MaxRestarts = hub.start + d
    <3>1. MaxRestarts - hub.start \in Nat
      BY <1>1
    <3> QED BY <1>1, <3>1
  <2>2. MaxRestarts * (MaxChanges + 1) = hub.start * (MaxChanges + 1) + d * (MaxChanges + 1)
    <3>1. \A a, b, c \in Nat : (a + b) * c = a * c + b * c
      OBVIOUS
    <3>2. PICK k \in Nat : k = MaxChanges + 1
      BY <1>1
    <3>3. PICK h \in Nat : h = hub.start
      BY <1>1
    <3>4. (h + d) * k = h * k + d * k
      BY <3>1
    <3> QED BY <2>1, <3>2, <3>3, <3>4
  <2>3. d * (MaxChanges + 1) \in Nat /\ hub.start * (MaxChanges + 1) \in Nat
    BY <1>1, <2>1
  <2> QED BY <2>2, <2>3
<1>3. (MaxRestarts + 1) * (MaxChanges + 1) = MaxRestarts * (MaxChanges + 1) + MaxChanges + 1
  BY <1>1
<1>4. hub.start * (MaxChanges + 1) \in Nat /\ MaxRestarts * (MaxChanges + 1) \in Nat
  BY <1>1
<1>5. hub.revision <= FirstRevision(MaxRestarts + 1) /\ FirstRevision(MaxRestarts + 1) \in Nat
  BY <1>1, <1>2, <1>3, <1>4 DEF FirstRevision
<1> QED BY <1>1, <1>5 DEF Revisions

(* For any pages, endpoints and keys: a page waits for one answer, and *)
(* what it is shown is of a process that was (llm_connection.py, *)
(* static/admin.js connectionVersion). *)
THEOREM HubTypes ==
  ASSUME HubAssumption
  PROVE  HubSpec => []HubTypeOK
<1>1. HubInit => HubInv /\ RequestsFit
  <2> SUFFICES ASSUME HubInit
               PROVE  RequestsFit
    BY HubStart
  <2>1. requests = {}
    BY DEF HubInit
  <2> QED BY <2>1 DEF RequestsFit, DataIsAnswered, HearsOne
<1>2. HubInv /\ RequestsFit /\ [HubNext]_hubVars => (HubInv /\ RequestsFit)'
  BY HubKeeps, RequestsStep
<1>3. HubInv /\ RequestsFit => HubTypeOK
  <2> SUFFICES ASSUME HubInv, RequestsFit
               PROVE  HubTypeOK
    OBVIOUS
  <2>1. \A d \in Seen : d.revision <= hub.revision => d \in Views
    BY RevisionsAreFew DEF Seen, Views
  <2>2. editor \in [Editors -> [shown : Views, uncertain : BOOLEAN]]
    <3>1. \A e \in Editors : editor[e].shown \in Views
      BY <2>1 DEF HubInv, HubTyped, ShownWasTrue, TrueOf, Views
    <3> QED BY <3>1 DEF HubInv, HubTyped
  <2>3. ASSUME NEW r \in requests PROVE r.page \in Editors /\ r.data \in Views
    <3>1. r \in Requests
      BY DEF RequestsFit
    <3>2. CASE r.data = NoSetup
      BY <3>1, <3>2 DEF Requests, Views
    <3>3. CASE r.data # NoSetup
      <4>1. r.data \in Seen /\ r.data.revision <= hub.revision
        BY <3>1, <3>3 DEF RequestsFit, DataIsAnswered, HubInv, AnswersWereTrue, TrueOf, Requests
      <4> QED BY <2>1, <3>1, <4>1 DEF Requests
    <3> QED BY <3>2, <3>3
  <2>4. ASSUME NEW e \in Editors PROVE Cardinality({r \in requests : r.page = e /\ r.heard}) <= 1
    <3>1. CASE {r \in requests : r.page = e /\ r.heard} = {}
      BY <3>1, FS_EmptySet
    <3>2. ASSUME NEW s \in {r \in requests : r.page = e /\ r.heard}
          PROVE  {r \in requests : r.page = e /\ r.heard} = {s}
      BY DEF RequestsFit, HearsOne
    <3>3. Cardinality({r \in requests : r.page = e /\ r.heard}) \in {0, 1}
      BY <3>1, <3>2, FS_EmptySet, FS_Singleton
    <3> QED BY <3>3
  <2>5. hub \in [start : 0..MaxRestarts, revision : Revisions, active : Setups,
              key : Keys \cup {NoSetup}, ready : BOOLEAN]
    BY RevisionsAreFew DEF HubInv, HubTyped, Hubs
  <2> QED BY <2>2, <2>3, <2>4, <2>5 DEF HubTypeOK
<1> QED BY <1>1, <1>2, <1>3, PTL DEF HubSpec
=============================================================================
