------------------------ MODULE CatalogServingProofs ------------------------
(***************************************************************************)
(* Proofs about CatalogServing, for every set of exports, products,        *)
(* servers, jobs and calls, every number of jobs and faults, with or       *)
(* without rollbacks: the foreign keys hold, a product that left the       *)
(* complete exports is hidden in every generation, and jobs, servers and   *)
(* calls together implement the one catalog of OneCatalog.                 *)
(***************************************************************************)
EXTENDS CatalogServing, FiniteSetTheorems, TLAPS

Products == UNION {Items[g] : g \in Generations}

GenOrNone == Generations \cup {None}

Job == [step : JobSteps, exp : Generations, seen : GenOrNone]

Server == [phase : Phases, loaded : GenOrNone, up : BOOLEAN, ready : BOOLEAN,
           was : GenOrNone, next : GenOrNone]

CallSteps == {"none", "check", "deny", "check again", "serve", "served"}

Call == [step : CallSteps, at : Servers \cup {None}, got : GenOrNone,
         denied : SUBSET Products, answer : (SUBSET Products) \cup {None}]

Since == [gens : SUBSET Generations, hidden : SUBSET Products]

ProcessTypes ==
  /\ job \in [Jobs -> Job]
  /\ server \in [Servers -> Server]
  /\ call \in [Calls -> Call]
  /\ since \in [Calls -> Since]

(* There is a newest receipt. *)
HasNewest == Newest \in receipts /\ \A g \in receipts : g <= Newest

(* The job that holds the lock is at work, and from the confirmation on *)
(* its export is the newest one: what it proposes is not too old. *)
WriterKnows ==
  writer # None =>
    /\ job[writer].step # "idle"
    /\ job[writer].step \in {"confirmed", "prepared"} => job[writer].exp = Newest
    /\ job[writer].step = "prepared" => job[writer].exp \in prepared

(* What waits to be activated is newer than what is active. *)
PendingIsNewer == active # None /\ pending # None => pending > active

(* What a server has read or loaded was prepared; it is not ready while it *)
(* reconciles, and has a candidate while it activates. *)
ServerKnows(s) ==
  LET v == server[s]
  IN /\ {v.loaded, v.was, v.next} \subseteq prepared \cup {None}
     /\ v.phase \in {"activating", "activated"} => v.next # None
     /\ v.phase = "reconciling" => v.was # None /\ ~v.ready
     /\ v.phase = "down" => ~v.up

(* A call is at a server that is up. What was active since it began is *)
(* remembered, and so is what its server may load before it is served. *)
CallKnows(c) ==
  LET v == server[call[c].at]
      gens == since[c].gens
  IN Flying(c) =>
       /\ call[c].at \in Servers /\ v.up /\ call[c].answer = None
       /\ active # None => active \in gens
       /\ since[c].hidden \subseteq gone
       /\ call[c].step \in {"check again", "serve"} =>
            since[c].hidden \subseteq call[c].denied /\ call[c].denied \subseteq gone
       /\ call[c].got # None => call[c].got \in gens
       /\ call[c].step = "serve" => v.loaded \in gens
       /\ v.phase = "reconciling" => v.was \in gens
       /\ v.phase = "activated" => v.next \in gens

(* DeletedEverywhere of every export, prepared or not. *)
DeletedInReceipts == \A g \in receipts : Items[g] \ gone \subseteq Items[Newest]

Serving ==
  /\ TypeOK /\ ProcessTypes
  /\ HasNewest /\ WriterKnows /\ PendingIsNewer /\ DeletedInReceipts
  /\ \A s \in Servers : ServerKnows(s)
  /\ \A c \in Calls : CallKnows(c)

----------------------------------------------------------------------------
(* The newest export. *)
LEMMA MaxIs ==
  ASSUME NEW S \in SUBSET Nat, NEW m \in S, \A y \in S : y <= m
  PROVE  Max(S) = m
<1>1. \A y \in S : m >= y
  OBVIOUS
<1>2. \A x \in S : (\A y \in S : x >= y) => x = m
  OBVIOUS
<1> QED BY <1>1, <1>2 DEF Max

LEMMA NewestMoves ==
  ASSUME HasNewest, receipts \subseteq Nat, NEW e \in Nat, ~TooOld(e),
         receipts' = receipts \cup {e}
  PROVE  Newest' = e /\ HasNewest'
<1>1. Newest \in Nat /\ e >= Newest
  BY DEF HasNewest, TooOld
<1>2. receipts' \in SUBSET Nat /\ e \in receipts' /\ \A y \in receipts' : y <= e
  BY <1>1 DEF HasNewest
<1>3. Max(receipts') = e
  BY <1>2, MaxIs
<1>4. Newest' = e
  BY <1>3 DEF Newest
<1> QED BY <1>2, <1>4 DEF HasNewest

LEMMA NewestStays ==
  ASSUME HasNewest, receipts' = receipts
  PROVE  Newest' = Newest /\ HasNewest'
BY DEF Newest, HasNewest

(* The records a job, a server or a call begins with. *)
LEMMA EmptyRecords ==
  NoJob \in Job /\ Down \in Server /\ NoCall \in Call /\ Nothing \in Since
<1>1. NoJob \in Job
  BY CatalogConstants DEF NoJob, Job, JobSteps, GenOrNone
<1>2. Down \in Server
  BY DEF Down, Server, Phases, GenOrNone
<1>3. NoCall \in Call
  BY DEF NoCall, Call, CallSteps, GenOrNone
<1>4. Nothing \in Since
  BY DEF Nothing, Since
<1> QED BY <1>1, <1>2, <1>3, <1>4

----------------------------------------------------------------------------
(* Init. *)
LEMMA ServingInit == Init => Serving
<1> SUFFICES ASSUME Init PROVE Serving
  OBVIOUS
<1>1. Newest = 0
  BY CatalogConstants, MaxIs DEF Init, Newest
<1>2. TypeOK
  BY CatalogConstants DEF Init, TypeOK, NoJob, Down, JobSteps, Phases
<1>3. ProcessTypes
  <2>1. NoJob \in Job /\ Down \in Server /\ NoCall \in Call /\ Nothing \in Since
    BY EmptyRecords
  <2> QED BY <2>1 DEF Init, ProcessTypes
<1>4. HasNewest /\ WriterKnows /\ PendingIsNewer /\ DeletedInReceipts
  BY <1>1, CatalogConstants DEF Init, HasNewest, WriterKnows, PendingIsNewer, DeletedInReceipts
<1>5. \A s \in Servers : ServerKnows(s)
  BY DEF Init, ServerKnows, Down
<1>6. \A c \in Calls : CallKnows(c)
  BY DEF Init, CallKnows, Flying, NoCall
<1> QED BY <1>2, <1>3, <1>4, <1>5, <1>6 DEF Serving

----------------------------------------------------------------------------
(* Jobs. What a job leaves alone, and what only grows. *)
LEMMA JobsKeep ==
  ASSUME Serving, JobFrame, active' = active, gone \subseteq gone', prepared \subseteq prepared'
  PROVE  /\ \A s \in Servers : ServerKnows(s)'
         /\ \A c \in Calls : CallKnows(c)'
         /\ server' \in [Servers -> Server] /\ call' \in [Calls -> Call] /\ since' \in [Calls -> Since]
<1>1. \A s \in Servers : ServerKnows(s)'
  BY DEF Serving, JobFrame, ServerKnows
<1>2. \A c \in Calls : CallKnows(c)'
  BY DEF Serving, JobFrame, CallKnows, Flying
<1> QED BY <1>1, <1>2 DEF Serving, ProcessTypes, JobFrame

LEMMA JobStepKeeps ==
  ASSUME Serving, NEW j \in Jobs, Confirm(j) \/ Prepare(j) \/ Propose(j) \/ JobFail(j)
  PROVE  /\ job' \in [Jobs -> Job] /\ writer' \in {writer, None}
         /\ \A k \in Jobs \ {j} : job'[k] = job[k]
         /\ writer' = j => writer = j /\ ~(Propose(j) \/ JobFail(j))
<1>1. Over(j) => /\ job' \in [Jobs -> Job] /\ writer' \in {writer, None} /\ writer' # j
                 /\ \A k \in Jobs \ {j} : job'[k] = job[k]
  BY EmptyRecords, CatalogConstants DEF Over, Serving, ProcessTypes
<1>2. ASSUME NEW to \in JobSteps, Step(j, to)
      PROVE  /\ job' \in [Jobs -> Job] /\ writer' = writer
             /\ \A k \in Jobs \ {j} : job'[k] = job[k]
  BY <1>2 DEF Step, Serving, ProcessTypes, Job
<1>3. {"confirmed", "prepared"} \subseteq JobSteps
  BY DEF JobSteps
<1> QED BY <1>1, <1>2, <1>3 DEF Confirm, Prepare, Propose, JobFail, Writes

LEMMA StartServes ==
  ASSUME Serving, NEW j \in Jobs, NEW k, NEW e \in Generations, JobStart(j, k, e)
  PROVE  Serving'
<1>1. job' \in [Jobs -> Job] /\ job'[j].step = "read" /\ writer' = j
  BY DEF JobStart, Serving, ProcessTypes, TypeOK, Job, JobSteps, GenOrNone
<1>2. TypeOK'
  BY <1>1 DEF JobStart, Serving, TypeOK, JobFrame, Job, dbVars
<1>3. HasNewest' /\ Newest' = Newest /\ WriterKnows'
  BY <1>1, NewestStays DEF JobStart, Serving, dbVars, WriterKnows
<1>4. PendingIsNewer' /\ DeletedInReceipts'
  BY <1>3 DEF JobStart, Serving, dbVars, PendingIsNewer, DeletedInReceipts
<1> QED BY <1>1, <1>2, <1>3, <1>4, JobsKeep DEF JobStart, Serving, dbVars, ProcessTypes

(* A confirmed export is the newest one from then on. *)
LEMMA ConfirmServes ==
  ASSUME Serving, NEW j \in Jobs, Confirm(j)
  PROVE  /\ Serving'
         /\ \/ Newest' = Newest /\ gone' = gone
            \/ \E e \in Generations : Newest' = e /\ e > Newest /\ gone' = gone \cup Missed(e)
<1> DEFINE e == job[j].exp
<1>1. e \in Generations /\ e \in Nat /\ receipts \subseteq Nat /\ Newest \in Nat
  BY CatalogConstants DEF Serving, ProcessTypes, Job, TypeOK, HasNewest
<1>2. active' = active /\ pending' = pending /\ prepared' = prepared /\ JobFrame
  BY DEF Confirm
<1>3. CASE TooOld(e)
  <2>1. receipts' = receipts /\ gone' = gone /\ Over(j)
    BY <1>3 DEF Confirm
  <2>2. HasNewest' /\ Newest' = Newest
    BY <2>1, NewestStays DEF Serving
  <2>3. writer' # j
    BY <2>1, CatalogConstants DEF Over
  <2>4. WriterKnows'
    BY <2>2, <2>3, <1>2, JobStepKeeps, CatalogConstants DEF Serving, WriterKnows, TypeOK
  <2>5. TypeOK'
    BY <1>2, <2>1, JobStepKeeps DEF Serving, TypeOK, Job, JobFrame
  <2>6. PendingIsNewer' /\ DeletedInReceipts'
    BY <1>2, <2>1, <2>2 DEF Serving, PendingIsNewer, DeletedInReceipts
  <2> QED BY <1>2, <2>1, <2>2, <2>4, <2>5, <2>6, JobsKeep, JobStepKeeps DEF Serving, ProcessTypes
<1>4. CASE ~TooOld(e)
  <2>1. /\ receipts' = receipts \cup {e}
        /\ gone' = IF e \in receipts THEN gone ELSE gone \cup Missed(e)
        /\ Over(j) \/ Step(j, "confirmed")
    BY <1>4 DEF Confirm
  <2>2. HasNewest' /\ Newest' = e
    BY <1>1, <1>4, <2>1, NewestMoves DEF Serving
  <2>3. writer' = j => job'[j].exp = e /\ job'[j].step = "confirmed"
    BY <2>1, CatalogConstants DEF Over, Step, Serving, ProcessTypes, Job
  <2>4. WriterKnows'
    <3>1. writer' \in {j, None}
      BY JobStepKeeps, CatalogConstants DEF Confirm, Writes
    <3> QED BY <2>2, <2>3, <3>1 DEF WriterKnows
  <2>5. Missed(e) \subseteq Products
    BY <1>1 DEF Serving, HasNewest, TypeOK, Products, Missed
  <2>6. TypeOK'
    <3>1. gone' \subseteq Products
      BY <2>1, <2>5 DEF Serving, TypeOK, Products
    <3>2. receipts' \subseteq Generations
      BY <2>1, <1>1 DEF Serving, TypeOK
    <3> QED BY <1>2, <2>1, <3>1, <3>2, JobStepKeeps DEF Serving, TypeOK, Job, JobFrame, Products
  <2>10. (e \in receipts => e = Newest) /\ (e \notin receipts => e > Newest)
    <3> HIDE DEF e
    <3>1. ~(e < Newest) /\ Newest \in receipts /\ \A g \in receipts : g <= Newest
      BY <1>4 DEF Serving, HasNewest, TooOld
    <3> QED BY <1>1, <3>1
  <2>7. DeletedInReceipts'
    <3>1. e \in receipts => e = Newest
      BY <2>10
    <3>2. Items[Newest] \ gone' \subseteq Items[e]
      BY <2>1, <3>1 DEF Missed
    <3> QED BY <2>1, <2>2, <3>2 DEF Serving, DeletedInReceipts
  <2>8. PendingIsNewer' /\ gone \subseteq gone'
    BY <1>2, <2>1 DEF Serving, PendingIsNewer
  <2>9. Serving'
    BY <1>2, <2>2, <2>4, <2>6, <2>7, <2>8, JobsKeep, JobStepKeeps DEF Serving, ProcessTypes
  <2> QED BY <1>1, <2>1, <2>2, <2>9, <2>10
<1> QED BY <1>3, <1>4

LEMMA PrepareServes ==
  ASSUME Serving, NEW j \in Jobs, Prepare(j)
  PROVE  Serving'
<1>1. HasNewest' /\ Newest' = Newest
  BY NewestStays DEF Serving, Prepare
<1>2. writer = j /\ writer # None /\ job[j].exp = Newest
  BY CatalogConstants DEF Serving, Prepare, Writes, WriterKnows
<1>3. job'[j].step = "prepared" /\ job'[j].exp = job[j].exp /\ writer' = j
  BY <1>2 DEF Prepare, Step, Serving, ProcessTypes, Job
<1>4. WriterKnows'
  BY <1>1, <1>2, <1>3 DEF WriterKnows, Prepare
<1>5. TypeOK'
  BY <1>2, JobStepKeeps DEF Serving, TypeOK, Job, JobFrame, HasNewest, Prepare
<1>6. PendingIsNewer' /\ DeletedInReceipts' /\ prepared \subseteq prepared'
  BY <1>1 DEF Serving, PendingIsNewer, DeletedInReceipts, Prepare
<1> QED BY <1>1, <1>4, <1>5, <1>6, JobsKeep, JobStepKeeps DEF Serving, ProcessTypes, Prepare

(* What is proposed is the newest export, and not active: it is newer than *)
(* what is active. *)
LEMMA ProposeServes ==
  ASSUME Serving, NEW j \in Jobs, Propose(j)
  PROVE  Serving'
<1> DEFINE e == job[j].exp
<1>1. HasNewest' /\ Newest' = Newest
  BY NewestStays DEF Serving, Propose
<1>2. e = Newest /\ e \in prepared
  BY CatalogConstants DEF Serving, Propose, Writes, WriterKnows
<1>3. PendingIsNewer'
  <2>1. receipts \subseteq Nat /\ (active # None => active \in receipts)
    BY CatalogConstants DEF Serving, TypeOK
  <2>2. ASSUME active # None, active # e PROVE e > active
    <3>1. active \in receipts /\ e \in receipts /\ active <= e
      BY <1>2, <2>1, <2>2 DEF Serving, HasNewest
    <3>2. active \in Nat /\ e \in Nat
      BY <2>1, <3>1
    <3> QED BY <2>2, <3>1, <3>2
  <2>3. active' = active /\ pending' = IF pending = None /\ active # e THEN e ELSE pending
    BY DEF Propose
  <2> QED BY <2>2, <2>3 DEF PendingIsNewer, Serving
<1>4. writer' = None
  BY DEF Propose, Over, Writes
<1>5. WriterKnows'
  BY <1>4 DEF WriterKnows
<1>6. TypeOK'
  BY <1>2, <1>4, JobStepKeeps DEF Serving, TypeOK, Job, JobFrame, Propose
<1>7. DeletedInReceipts'
  BY <1>1 DEF Serving, DeletedInReceipts, Propose
<1> QED BY <1>1, <1>3, <1>5, <1>6, <1>7, JobsKeep, JobStepKeeps DEF Serving, ProcessTypes, Propose

LEMMA JobFailServes ==
  ASSUME Serving, (\E j \in Jobs : JobFail(j)) \/ WriterLost
  PROVE  Serving'
<1>0. UNCHANGED dbVars /\ JobFrame
  BY DEF JobFail, WriterLost
<1>1. HasNewest' /\ Newest' = Newest
  BY <1>0, NewestStays DEF Serving, dbVars
<1>2. PendingIsNewer' /\ DeletedInReceipts'
  BY <1>0, <1>1 DEF Serving, PendingIsNewer, DeletedInReceipts, dbVars
<1>3. job' \in [Jobs -> Job] /\ writer' \in Jobs \cup {None} /\ WriterKnows'
  <2>1. CASE \E j \in Jobs : JobFail(j)
    <3>1. PICK j \in Jobs : JobFail(j)
      BY <2>1
    <3>2. writer' = None \/ (writer' = writer /\ writer # j)
      BY <3>1 DEF JobFail, Over
    <3> QED BY <1>0, <1>1, <3>1, <3>2, JobStepKeeps DEF Serving, TypeOK, WriterKnows, dbVars
  <2>2. CASE WriterLost
    BY <2>2 DEF WriterLost, Serving, ProcessTypes, WriterKnows
  <2> QED BY <2>1, <2>2
<1>4. TypeOK'
  BY <1>0, <1>3 DEF Serving, TypeOK, Job, JobFrame, dbVars
<1> QED BY <1>0, <1>1, <1>2, <1>3, <1>4, JobsKeep DEF Serving, ProcessTypes, dbVars

----------------------------------------------------------------------------
(* Servers. What they leave alone. *)
LEMMA ServersKeep ==
  ASSUME Serving, ServerFrame
  PROVE  /\ HasNewest' /\ Newest' = Newest /\ WriterKnows' /\ DeletedInReceipts'
         /\ job' \in [Jobs -> Job]
<1>1. HasNewest' /\ Newest' = Newest
  BY NewestStays DEF Serving, ServerFrame
<1> QED BY <1>1 DEF Serving, ServerFrame, WriterKnows, DeletedInReceipts, ProcessTypes

(* What server s may become, v, while the pointer stays. *)
MayBecome(s, v) ==
  /\ v \in Server
  /\ {v.loaded, v.was, v.next} \subseteq prepared \cup {None}
  /\ v.phase \in {"activating", "activated"} => v.next # None
  /\ v.phase = "reconciling" => v.was # None /\ ~v.ready
  /\ v.phase = "down" => ~v.up
  /\ server[s].up => v.up
  /\ \A c \in Calls : Flying(c) /\ call[c].at = s =>
       /\ call[c].step = "serve" => v.loaded \in since[c].gens
       /\ v.phase = "reconciling" => v.was \in since[c].gens
       /\ v.phase = "activated" => v.next \in since[c].gens

LEMMA ServerMoves ==
  ASSUME Serving, ServerFrame, UNCHANGED <<active, call, since>>,
         pending' \in {pending, None}, serving' \in Servers \cup {None},
         NEW s \in Servers, NEW v, MayBecome(s, v), server' = [server EXCEPT ![s] = v]
  PROVE  Serving'
<1>1. /\ server' \in [Servers -> Server] /\ server'[s] = v
      /\ \A t \in Servers \ {s} : server'[t] = server[t]
  BY DEF Serving, ProcessTypes, MayBecome
<1>2. \A t \in Servers : ServerKnows(t)'
  BY <1>1 DEF Serving, ServerKnows, MayBecome, ServerFrame
<1>3. \A c \in Calls : CallKnows(c)'
  <2> SUFFICES ASSUME NEW c \in Calls, Flying(c) PROVE CallKnows(c)'
    BY DEF CallKnows, Flying
  <2>1. CASE call[c].at = s
    BY <1>1, <2>1 DEF Serving, CallKnows, MayBecome, Flying, ServerFrame
  <2>2. CASE call[c].at # s
    BY <1>1, <2>2 DEF Serving, CallKnows, Flying, ServerFrame
  <2> QED BY <2>1, <2>2
<1>4. TypeOK'
  <2>1. server'[s].phase \in Phases /\ server'[s].loaded \in prepared \cup {None}
    BY <1>1 DEF MayBecome, Server
  <2> QED BY <1>1, <2>1 DEF Serving, TypeOK, ServerFrame
<1>5. PendingIsNewer'
  BY DEF Serving, PendingIsNewer
<1> QED BY <1>1, <1>2, <1>3, <1>4, <1>5, ServersKeep DEF Serving, ProcessTypes

(* A server that is down or idle may have any generation loaded that its *)
(* calls may be answered from. *)
LEMMA BetweenMay ==
  ASSUME Serving, NEW s \in Servers, NEW ready \in BOOLEAN
  PROVE  MayBecome(s, Between(s, ready))
<1>1. server[s] \in Server
  BY DEF Serving, ProcessTypes
<1> DEFINE v == Between(s, ready)
<1>2. v \in Server
  BY <1>1, EmptyRecords DEF Between, Server, Phases, GenOrNone
<1>3. /\ v.phase = "idle" /\ v.loaded = server[s].loaded /\ v.up
      /\ v.was = None /\ v.next = None
  BY DEF Between, Down
<1> HIDE DEF v
<1>4. MayBecome(s, v)
  BY <1>2, <1>3 DEF MayBecome, Serving, ServerKnows, CallKnows
<1> QED BY <1>4 DEF v

LEMMA RaiseMay ==
  ASSUME Serving, NEW s \in Servers, Raise(s)
  PROVE  /\ serving' \in Servers \cup {None}
         /\ \E v : MayBecome(s, v) /\ server' = [server EXCEPT ![s] = v]
<1>1. serving' \in Servers \cup {None}
  BY DEF Raise, Serving, TypeOK
<1>2. CASE server[s].up
  BY <1>1, <1>2, BetweenMay DEF Raise
<1>3. CASE ~server[s].up
  <2>1. \A c \in Calls : Flying(c) => call[c].at # s
    BY <1>3 DEF Serving, CallKnows
  <2>2. MayBecome(s, Down)
    BY <1>3, <2>1, EmptyRecords DEF MayBecome, Down
  <2> QED BY <1>1, <1>3, <2>2 DEF Raise
<1> QED BY <1>2, <1>3

LEMMA PollServes ==
  ASSUME Serving, NEW s \in Servers,
         \/ Boot(s) \/ Poll(s) \/ Reconcile(s) \/ Candidate(s)
         \/ Swap(s) \/ Final(s) \/ Reject(s) \/ PollFail(s)
  PROVE  Serving'
<1>0. server[s] \in Server /\ ServerKnows(s)
  BY DEF Serving, ProcessTypes
<1>1. CASE Boot(s)
  <2> DEFINE v == [Down EXCEPT !.phase = "idle", !.loaded = IF active # None THEN active ELSE pending]
  <2>1. /\ v.phase = "idle" /\ v.loaded \in {active, pending} /\ ~v.up
        /\ v.was = None /\ v.next = None
    BY DEF Down
  <2>2. v \in Server
    BY EmptyRecords DEF Server, Phases, GenOrNone, Serving, TypeOK
  <2>3. ~server[s].up /\ \A c \in Calls : Flying(c) => call[c].at # s
    BY <1>0, <1>1 DEF Boot, Serving, CallKnows, ServerKnows
  <2> HIDE DEF v
  <2>4. MayBecome(s, v)
    BY <2>1, <2>2, <2>3 DEF MayBecome, Serving, TypeOK
  <2>5. server' = [server EXCEPT ![s] = v]
    BY <1>1 DEF Boot, v
  <2> QED BY <1>1, <2>4, <2>5, ServerMoves DEF Boot, Serving, TypeOK
<1>2. CASE Poll(s)
  <2>1. CASE serving \in {s, None}
    <3> DEFINE v == [server[s] EXCEPT
                       !.phase = IF OtherActive(s) THEN "reconciling" ELSE "reconciled",
                       !.ready = server[s].ready /\ ~OtherActive(s),
                       !.was = active, !.next = pending]
    <3>1. /\ v.phase = IF OtherActive(s) THEN "reconciling" ELSE "reconciled"
          /\ v.loaded = server[s].loaded /\ v.up = server[s].up
          /\ v.ready = (server[s].ready /\ ~OtherActive(s)) /\ v.was = active /\ v.next = pending
      BY <1>0 DEF Server
    <3>2. v \in Server
      BY <1>0 DEF Server, Phases, GenOrNone, Serving, TypeOK
    <3> HIDE DEF v
    <3>3. /\ {v.loaded, v.was, v.next} \subseteq prepared \cup {None}
          /\ v.phase \in {"reconciling", "reconciled"}
          /\ v.phase = "reconciling" => v.was = active /\ v.was # None /\ ~v.ready
          /\ v.up = server[s].up /\ v.loaded = server[s].loaded
      BY <1>0, <3>1 DEF OtherActive, Serving, TypeOK, ServerKnows
    <3>4. MayBecome(s, v)
      BY <3>2, <3>3 DEF MayBecome, Serving, CallKnows
    <3>5. server' = [server EXCEPT ![s] = v] /\ serving' = s
      BY <1>2, <2>1, Zenon DEF Poll, v
    <3> QED BY <1>2, <3>4, <3>5, ServerMoves DEF Poll
  <2>2. CASE serving \notin {s, None}
    <3>1. Raise(s)
      BY <1>2, <2>2 DEF Poll
    <3> QED BY <1>2, <3>1, RaiseMay, ServerMoves DEF Poll
  <2> QED BY <2>1, <2>2
<1>3. CASE Reconcile(s)
  <2> DEFINE v == [server[s] EXCEPT !.phase = "reconciled", !.loaded = server[s].was]
  <2>1. v \in Server
    BY <1>0 DEF Server, Phases
  <2>2. /\ v.phase = "reconciled" /\ v.loaded = server[s].was
        /\ v.was = server[s].was /\ v.next = server[s].next /\ v.up = server[s].up
    BY <1>0 DEF Server
  <2> HIDE DEF v
  <2>3. MayBecome(s, v)
    BY <1>0, <1>3, <2>1, <2>2 DEF MayBecome, ServerKnows, Reconcile, Serving, CallKnows
  <2>4. server' = [server EXCEPT ![s] = v]
    BY <1>3 DEF Reconcile, v
  <2> QED BY <1>3, <2>3, <2>4, ServerMoves DEF Reconcile, Serving, TypeOK
<1>4. CASE Candidate(s)
  <2> DEFINE v == IF server[s].next = None THEN [server[s] EXCEPT !.phase = "final"]
                  ELSE [server[s] EXCEPT !.phase = "activating", !.ready = FALSE]
  <2>1. v \in Server
    BY <1>0 DEF Server, Phases
  <2>2. /\ v.phase \in {"final", "activating"} /\ v.loaded = server[s].loaded
        /\ v.was = server[s].was /\ v.next = server[s].next /\ v.up = server[s].up
        /\ v.phase = "activating" => server[s].next # None
    BY <1>0 DEF Server
  <2> HIDE DEF v
  <2>3. MayBecome(s, v)
    BY <1>0, <2>1, <2>2 DEF MayBecome, ServerKnows, Serving, CallKnows
  <2>4. server' = [server EXCEPT ![s] = v]
    BY <1>4 DEF Candidate, v
  <2> QED BY <1>4, <2>3, <2>4, ServerMoves DEF Candidate, Serving, TypeOK
<1>5. CASE Swap(s)
  <2> DEFINE v == [server[s] EXCEPT !.phase = "final", !.loaded = server[s].next]
  <2>1. v \in Server
    BY <1>0 DEF Server, Phases
  <2>2. /\ v.phase = "final" /\ v.loaded = server[s].next
        /\ v.was = server[s].was /\ v.next = server[s].next /\ v.up = server[s].up
    BY <1>0 DEF Server
  <2> HIDE DEF v
  <2>3. MayBecome(s, v)
    BY <1>0, <1>5, <2>1, <2>2 DEF MayBecome, ServerKnows, Serving, CallKnows, Swap
  <2>4. server' = [server EXCEPT ![s] = v]
    BY <1>5 DEF Swap, v
  <2> QED BY <1>5, <2>3, <2>4, ServerMoves DEF Swap, Serving, TypeOK
<1>6. CASE Final(s)
  <2>1. CASE active = server[s].loaded \/ server[s].up
    BY <1>6, <2>1, BetweenMay, ServerMoves DEF Final, Serving, TypeOK
  <2>2. CASE ~(active = server[s].loaded \/ server[s].up)
    BY <1>6, <2>2, RaiseMay, ServerMoves DEF Final
  <2> QED BY <2>1, <2>2
<1>7. CASE Reject(s)
  <2>1. CASE Holds(s)
    <3> DEFINE v == [server[s] EXCEPT !.phase = "final"]
    <3>1. v \in Server
      BY <1>0 DEF Server, Phases
    <3>2. /\ v.phase = "final" /\ v.loaded = server[s].loaded
          /\ v.was = server[s].was /\ v.next = server[s].next /\ v.up = server[s].up
      BY <1>0 DEF Server
    <3> HIDE DEF v
    <3>3. MayBecome(s, v)
      BY <1>0, <3>1, <3>2 DEF MayBecome, ServerKnows, Serving, CallKnows
    <3>4. server' = [server EXCEPT ![s] = v]
      BY <1>7, <2>1 DEF Reject, To, v, Serving, ProcessTypes
    <3> QED BY <1>7, <2>1, <3>3, <3>4, ServerMoves DEF Reject, Serving, TypeOK
  <2>2. CASE ~Holds(s)
    BY <1>7, <2>2, RaiseMay, ServerMoves DEF Reject
  <2> QED BY <2>1, <2>2
<1>8. CASE PollFail(s)
  BY <1>8, RaiseMay, ServerMoves DEF PollFail
<1> QED BY <1>1, <1>2, <1>3, <1>4, <1>5, <1>6, <1>7, <1>8

(* Every call in flight may be answered from the generation that becomes *)
(* active, which is newer than the one before. *)
LEMMA ActivationServes ==
  ASSUME Serving, ServerFrame, NEW s \in Servers,
         server[s].phase = "activating", Expected(s), Activation(s), call' = call,
         serving' \in Servers \cup {None},
         NEW v, v \in Server, server' = [server EXCEPT ![s] = v],
         v.was \in {server[s].was, None}, v.next \in {server[s].next, None},
         v.loaded \in {server[s].loaded, None}, v.phase \in {"activated", "idle", "down"},
         v.phase = "activated" => v.next = server[s].next,
         server[s].up => v.up /\ v.loaded = server[s].loaded,
         v.phase = "down" => ~v.up
  PROVE  Serving'
<1> DEFINE g == server[s].next
<1>1. g = pending /\ g # None /\ g \in prepared /\ active' = g /\ pending' = None
  BY DEF Serving, ServerKnows, Expected, Activation
<1>2. /\ server' \in [Servers -> Server] /\ server'[s] = v
      /\ \A t \in Servers \ {s} : server'[t] = server[t]
  BY DEF Serving, ProcessTypes
<1>3. \A c \in Calls : /\ Flying(c) => since'[c] = [since[c] EXCEPT !.gens = @ \cup {g}]
                       /\ ~Flying(c) => since'[c] = since[c]
  BY DEF Activation
<1>4. g \in Generations
  BY <1>1 DEF Serving, TypeOK
<1> HIDE DEF g
<1>5. since' \in [Calls -> Since]
  <2>1. ASSUME NEW c \in Calls PROVE since'[c] \in Since
    <3>1. since[c] \in Since
      BY DEF Serving, ProcessTypes
    <3>2. CASE Flying(c)
      <4>1. since[c].gens \cup {g} \in SUBSET Generations
        BY <1>4, <3>1 DEF Since
      <4>2. since'[c] = [since[c] EXCEPT !.gens = since[c].gens \cup {g}]
        BY <1>3, <3>2
      <4> QED BY <3>1, <4>1, <4>2 DEF Since
    <3>3. CASE ~Flying(c)
      BY <1>3, <3>1, <3>3
    <3> QED BY <3>2, <3>3
  <2>2. since' = [c \in Calls |-> since'[c]]
    BY DEF Activation
  <2> QED BY <2>1, <2>2
<1>6. \A c \in Calls : Flying(c) => /\ since'[c].gens = since[c].gens \cup {g}
                                    /\ since'[c].hidden = since[c].hidden
  <2> SUFFICES ASSUME NEW c \in Calls, Flying(c)
               PROVE  /\ since'[c].gens = since[c].gens \cup {g}
                      /\ since'[c].hidden = since[c].hidden
    OBVIOUS
  <2>1. since[c] \in Since /\ since'[c] = [since[c] EXCEPT !.gens = @ \cup {g}]
    BY <1>3 DEF Serving, ProcessTypes
  <2> QED BY <2>1 DEF Since
<1>7. \A t \in Servers : ServerKnows(t)'
  BY <1>1, <1>2 DEF Serving, ServerKnows, ServerFrame, g
<1>8. \A c \in Calls : CallKnows(c)'
  <2> SUFFICES ASSUME NEW c \in Calls, Flying(c) PROVE CallKnows(c)'
    BY DEF CallKnows, Flying
  <2>1. CallKnows(c) /\ gone' = gone
    BY DEF Serving, ServerFrame
  <2> DEFINE t == call[c].at
             gens == since[c].gens
  <2>0. /\ t \in Servers /\ server[t].up /\ call[c].answer = None
        /\ since'[c].gens = gens \cup {g} /\ active' = g
        /\ since'[c].hidden = since[c].hidden
    BY <1>1, <1>6, <2>1 DEF CallKnows
  <2>2. /\ server'[t].up
        /\ call[c].step = "serve" => server'[t].loaded \in gens
        /\ server'[t].phase = "reconciling" => server'[t].was \in gens
        /\ server'[t].phase = "activated" => server'[t].next \in gens \cup {g}
    <3>1. CASE t = s
      <4>1. server'[t] = v /\ v.up /\ v.loaded = server[t].loaded
        BY <1>2, <2>0, <3>1
      <4>2. v.phase # "reconciling" /\ (v.phase = "activated" => v.next = g)
        BY DEF g
      <4>3. call[c].step = "serve" => server[t].loaded \in gens
        BY <2>1 DEF CallKnows
      <4> QED BY <4>1, <4>2, <4>3
    <3>2. CASE t # s
      BY <1>2, <2>0, <2>1, <3>2 DEF Serving, ProcessTypes, CallKnows
    <3> QED BY <3>1, <3>2
  <2>3. /\ call[c].step \in {"check again", "serve"} =>
             since[c].hidden \subseteq call[c].denied /\ call[c].denied \subseteq gone
        /\ since[c].hidden \subseteq gone
        /\ call[c].got # None => call[c].got \in gens
    BY <2>1 DEF CallKnows
  <2> QED BY <2>0, <2>1, <2>2, <2>3 DEF CallKnows
<1>9. TypeOK'
  BY <1>1, <1>2, <1>7 DEF Serving, TypeOK, ServerFrame, Server, ServerKnows
<1>10. PendingIsNewer'
  BY <1>1 DEF PendingIsNewer
<1> QED BY <1>2, <1>5, <1>7, <1>8, <1>9, <1>10, ServersKeep DEF Serving, ProcessTypes

LEMMA ActivateServes ==
  ASSUME Serving, NEW s \in Servers, Activate(s) \/ ActivateUnanswered(s)
  PROVE  Serving'
<1>0. server[s] \in Server /\ ServerFrame /\ call' = call
  BY DEF Serving, ProcessTypes, Activate, ActivateUnanswered
<1>1. CASE Activate(s) /\ Holds(s) /\ Expected(s)
  <2> DEFINE v == [server[s] EXCEPT !.phase = "activated"]
  <2>1. v \in Server
    BY <1>0 DEF Server, Phases
  <2>2. /\ v.phase = "activated" /\ v.loaded = server[s].loaded
        /\ v.was = server[s].was /\ v.next = server[s].next /\ v.up = server[s].up
    BY <1>0 DEF Server
  <2>3. server' = [server EXCEPT ![s] = v]
    BY <1>1 DEF Activate, To, Serving, ProcessTypes
  <2>4. serving' \in Servers \cup {None}
    BY <1>1 DEF Activate, Serving, TypeOK
  <2> HIDE DEF v
  <2> QED BY <1>0, <1>1, <2>1, <2>2, <2>3, <2>4, ActivationServes DEF Activate
<1>2. CASE Activate(s) /\ ~(Holds(s) /\ Expected(s))
  BY <1>0, <1>2, RaiseMay, ServerMoves DEF Activate
<1>3. CASE ActivateUnanswered(s)
  <2> DEFINE v == IF server[s].up THEN Between(s, FALSE) ELSE Down
  <2>1. v \in Server
    BY BetweenMay, EmptyRecords DEF MayBecome
  <2>2. /\ v.phase \in {"idle", "down"} /\ v.was = None /\ v.next = None
        /\ v.loaded \in {server[s].loaded, None}
        /\ server[s].up => v.up /\ v.loaded = server[s].loaded
        /\ v.phase = "down" => ~v.up
    BY DEF Between, Down
  <2>3. server' = [server EXCEPT ![s] = v] /\ serving' = None
    BY <1>3 DEF ActivateUnanswered
  <2> HIDE DEF v
  <2> QED BY <1>0, <1>3, <2>1, <2>2, <2>3, ActivationServes DEF ActivateUnanswered
<1> QED BY <1>1, <1>2, <1>3

(* A server that dies takes its calls with it. *)
LEMMA CrashServes ==
  ASSUME Serving, NEW s \in Servers, Crash(s)
  PROVE  Serving'
<1> DEFINE lost == {c \in Calls : Flying(c) /\ call[c].at = s}
<1>1. /\ server' \in [Servers -> Server] /\ server'[s] = Down
      /\ \A t \in Servers \ {s} : server'[t] = server[t]
  BY EmptyRecords DEF Crash, Serving, ProcessTypes
<1>2. \A c \in Calls : /\ c \in lost => call'[c] = NoCall /\ since'[c] = Nothing
                       /\ c \notin lost => call'[c] = call[c] /\ since'[c] = since[c]
  BY DEF Crash
<1>3. call' \in [Calls -> Call] /\ since' \in [Calls -> Since]
  BY EmptyRecords DEF Crash, Serving, ProcessTypes
<1>4. \A t \in Servers : ServerKnows(t)'
  BY <1>1 DEF Serving, ServerKnows, ServerFrame, Crash, Down
<1>5. \A c \in Calls : CallKnows(c)'
  <2> SUFFICES ASSUME NEW c \in Calls, Flying(c)' PROVE CallKnows(c)'
    BY DEF CallKnows
  <2>1. c \notin lost
    BY <1>2 DEF Flying, NoCall
  <2>2. call'[c] = call[c] /\ since'[c] = since[c] /\ Flying(c)
    BY <1>2, <2>1 DEF Flying
  <2>3. call[c].at # s
    BY <2>1, <2>2
  <2> QED BY <1>1, <2>2, <2>3 DEF Crash, Serving, CallKnows, Flying, ServerFrame
<1>6. TypeOK'
  BY <1>1 DEF Serving, TypeOK, ServerFrame, Crash, Down, Phases
<1>7. PendingIsNewer'
  BY DEF Serving, PendingIsNewer, Crash
<1> QED BY <1>1, <1>3, <1>4, <1>5, <1>6, <1>7, ServersKeep DEF Serving, ProcessTypes, Crash

LEMMA ServerLostServes == ASSUME Serving, ServerLost PROVE Serving'
<1>1. TypeOK' /\ PendingIsNewer' /\ \A s \in Servers : ServerKnows(s)'
  BY DEF ServerLost, Serving, TypeOK, PendingIsNewer, ServerKnows, ServerFrame
<1>2. \A c \in Calls : CallKnows(c)'
  BY DEF ServerLost, Serving, CallKnows, Flying, ServerFrame
<1> QED BY <1>1, <1>2, ServersKeep DEF Serving, ProcessTypes, ServerLost

----------------------------------------------------------------------------
(* Calls. What a call leaves alone, and what it may do to its server. *)
LEMMA CallMoves ==
  ASSUME Serving, CallFrame, NEW c \in Calls,
         NEW k \in Call, NEW n \in Since, call' = [call EXCEPT ![c] = k], since' = [since EXCEPT ![c] = n],
         CallKnows(c)',
         \/ server' = server
         \/ \E s \in Servers : server' = [server EXCEPT ![s].ready = FALSE]
  PROVE  Serving'
<1>1. /\ server' \in [Servers -> Server]
      /\ \A s \in Servers : /\ server'[s].phase = server[s].phase /\ server'[s].loaded = server[s].loaded
                             /\ server'[s].was = server[s].was /\ server'[s].next = server[s].next
                             /\ server'[s].up = server[s].up /\ (server'[s].ready => server[s].ready)
  <2>1. CASE server' = server
    BY <2>1 DEF Serving, ProcessTypes
  <2>2. CASE \E s \in Servers : server' = [server EXCEPT ![s].ready = FALSE]
    <3>1. PICK s \in Servers : server' = [server EXCEPT ![s].ready = FALSE]
      BY <2>2
    <3> DEFINE v == [server[s] EXCEPT !.ready = FALSE]
    <3>2. server[s] \in Server
      BY DEF Serving, ProcessTypes
    <3>3. /\ v \in Server /\ v.phase = server[s].phase /\ v.loaded = server[s].loaded
          /\ v.was = server[s].was /\ v.next = server[s].next /\ v.up = server[s].up /\ ~v.ready
      BY <3>2 DEF Server
    <3>4. server' = [server EXCEPT ![s] = v]
      BY <3>1
    <3> HIDE DEF v
    <3> QED BY <3>3, <3>4 DEF Serving, ProcessTypes
  <2> QED BY <2>1, <2>2
<1>2. /\ call' \in [Calls -> Call] /\ since' \in [Calls -> Since]
      /\ \A d \in Calls \ {c} : call'[d] = call[d] /\ since'[d] = since[d]
  BY DEF Serving, ProcessTypes
<1>3. \A s \in Servers : ServerKnows(s)'
  BY <1>1 DEF Serving, ServerKnows, CallFrame, dbVars
<1>4. \A d \in Calls : CallKnows(d)'
  <2> SUFFICES ASSUME NEW d \in Calls \ {c} PROVE CallKnows(d)'
    OBVIOUS
  <2>1. CallKnows(d) /\ call'[d] = call[d] /\ since'[d] = since[d] /\ active' = active /\ gone' = gone
    BY <1>2 DEF Serving, CallFrame, dbVars
  <2>2. SUFFICES ASSUME Flying(d) PROVE CallKnows(d)'
    BY <2>1 DEF CallKnows, Flying
  <2>3. PICK s \in Servers : s = call[d].at
    BY <2>1, <2>2 DEF CallKnows
  <2>4. /\ server'[s].phase = server[s].phase /\ server'[s].loaded = server[s].loaded
        /\ server'[s].was = server[s].was /\ server'[s].next = server[s].next
        /\ server'[s].up = server[s].up
    BY <1>1
  <2> QED BY <2>1, <2>2, <2>3, <2>4 DEF CallKnows, Flying
<1>5. TypeOK' /\ PendingIsNewer'
  BY <1>1 DEF Serving, TypeOK, PendingIsNewer, CallFrame, dbVars
<1>6. HasNewest' /\ Newest' = Newest
  BY NewestStays DEF Serving, CallFrame, dbVars
<1>7. WriterKnows' /\ DeletedInReceipts'
  BY <1>6 DEF Serving, WriterKnows, DeletedInReceipts, CallFrame, dbVars
<1> QED BY <1>1, <1>2, <1>3, <1>4, <1>5, <1>6, <1>7 DEF Serving, ProcessTypes, CallFrame, dbVars

(* A call goes on with what it may be answered from. *)
LEMMA GoServes ==
  ASSUME Serving, CallFrame, NEW c \in Calls, Flying(c), NEW k \in Call, Go(c, k),
         k.at = call[c].at, k.answer = None, k.step # "none", k.step # "served",
         k.step \in {"check again", "serve"} =>
           since[c].hidden \subseteq k.denied /\ k.denied \subseteq gone,
         k.got # None => k.got \in since[c].gens,
         k.step = "serve" => server[k.at].loaded \in since[c].gens,
         server' = server
  PROVE  Serving'
<1>1. since' = [since EXCEPT ![c] = since[c]] /\ since[c] \in Since
  BY DEF Go, Serving, ProcessTypes
<1>2. call'[c] = k /\ since'[c] = since[c]
  BY DEF Go, Serving, ProcessTypes
<1>3. CallKnows(c)'
  BY <1>2 DEF CallKnows, Flying, Serving, CallFrame, dbVars
<1>4. call' = [call EXCEPT ![c] = k]
  BY DEF Go
<1> QED BY <1>1, <1>3, <1>4, CallMoves

(* A call that is over, served or not. *)
LEMMA EndServes ==
  ASSUME Serving, CallFrame, NEW c \in Calls, NEW k \in Call, Ends(c, k),
         k.step \in {"none", "served"},
         \/ server' = server
         \/ \E s \in Servers : server' = [server EXCEPT ![s].ready = FALSE]
  PROVE  Serving'
<1>1. call'[c] = k
  BY DEF Ends, Serving, ProcessTypes
<1>2. CallKnows(c)'
  BY <1>1 DEF CallKnows, Flying
<1> QED BY <1>2, CallMoves, EmptyRecords DEF Ends

LEMMA CallStartServes ==
  ASSUME Serving, NEW c \in Calls, NEW s \in Servers, CallStart(c, s)
  PROVE  Serving'
<1> DEFINE k == [NoCall EXCEPT !.step = "check", !.at = s]
           n == [gens |-> {active} \ {None}, hidden |-> gone]
<1>1. k \in Call /\ k.step = "check" /\ k.at = s /\ k.got = None /\ k.answer = None
  BY EmptyRecords DEF Call, CallSteps, NoCall
<1>2. n \in Since /\ n.gens = {active} \ {None} /\ n.hidden = gone
  <2>1. {active} \ {None} \subseteq Generations /\ gone \subseteq Products
    BY DEF Serving, TypeOK, Products
  <2> QED BY <2>1 DEF Since
<1> HIDE DEF k, n
<1>3. call' = [call EXCEPT ![c] = k] /\ since' = [since EXCEPT ![c] = n]
  BY DEF CallStart, k, n
<1>4. call'[c] = k /\ since'[c] = n
  BY <1>3 DEF Serving, ProcessTypes
<1>5. server' = server /\ CallFrame /\ Open(s)
  BY DEF CallStart
<1>6. CallKnows(c)'
  BY <1>1, <1>2, <1>4, <1>5 DEF CallKnows, Flying, Open, Transition, Serving, ServerKnows, CallFrame, dbVars
<1> QED BY <1>1, <1>2, <1>3, <1>5, <1>6, CallMoves

LEMMA CallServes ==
  ASSUME Serving, NEW c \in Calls, CallStep(c)
  PROVE  Serving'
<1>1. /\ Flying(c) /\ CallKnows(c) /\ call[c] \in Call /\ CallFrame
  BY DEF Serving, ProcessTypes, CallStep, Flying, CallCheck, CallDeny, CallState, CallCompare, CallServe
<1>2. CASE Ends(c, NoCall) /\ (CallCheck(c) \/ CallState(c) \/ CallCompare(c) \/ CallDeny(c))
  <2>1. \/ server' = server
        \/ \E s \in Servers : server' = [server EXCEPT ![s].ready = FALSE]
    BY <1>1, <1>2 DEF CallCheck, CallState, CallCompare, CallDeny, CallKnows
  <2>2. NoCall \in Call /\ NoCall.step \in {"none", "served"}
    BY EmptyRecords DEF NoCall
  <2> QED BY <1>1, <1>2, <2>1, <2>2, EndServes
<1>3. CASE CallCheck(c) /\ ~Ends(c, NoCall)
  <2> DEFINE k == [call[c] EXCEPT !.step = "deny"]
  <2>1. /\ k \in Call /\ k.step = "deny" /\ k.at = call[c].at /\ k.got = call[c].got
        /\ k.answer = call[c].answer
    BY <1>1 DEF Call, CallSteps
  <2>2. Go(c, k) /\ server' = server
    BY <1>3 DEF CallCheck
  <2> HIDE DEF k
  <2> QED BY <1>1, <2>1, <2>2, GoServes DEF CallKnows
<1>4. CASE CallDeny(c) /\ ~Ends(c, NoCall)
  <2> DEFINE k == [call[c] EXCEPT !.step = "check again", !.denied = gone]
  <2>1. k \in Call
    BY <1>1 DEF Call, CallSteps, Serving, TypeOK, Products
  <2>2. /\ k.step = "check again" /\ k.at = call[c].at /\ k.got = call[c].got /\ k.denied = gone
        /\ k.answer = call[c].answer
    BY <1>1 DEF Call
  <2>3. Go(c, k) /\ server' = server
    BY <1>4 DEF CallDeny
  <2> HIDE DEF k
  <2> QED BY <1>1, <2>1, <2>2, <2>3, GoServes DEF CallKnows
<1>5. CASE CallState(c) /\ ~Ends(c, NoCall)
  <2> DEFINE k == [call[c] EXCEPT !.got = active]
  <2>1. k \in Call
    BY <1>1 DEF Call, GenOrNone, Serving, TypeOK
  <2>2. /\ k.step = call[c].step /\ k.at = call[c].at /\ k.got = active /\ k.denied = call[c].denied
        /\ k.answer = call[c].answer
    BY <1>1 DEF Call
  <2>3. Go(c, k) /\ server' = server /\ call[c].step = "check again"
    BY <1>5 DEF CallState
  <2> HIDE DEF k
  <2> QED BY <1>1, <2>1, <2>2, <2>3, GoServes DEF CallKnows
<1>6. CASE CallCompare(c) /\ ~Ends(c, NoCall)
  <2> DEFINE k == [call[c] EXCEPT !.step = "serve", !.got = None]
  <2>1. k \in Call
    BY <1>1 DEF Call, CallSteps, GenOrNone
  <2>2. /\ k.step = "serve" /\ k.at = call[c].at /\ k.got = None /\ k.denied = call[c].denied
        /\ k.answer = call[c].answer
    BY <1>1 DEF Call
  <2>3. /\ Go(c, k) /\ server' = server /\ call[c].step = "check again" /\ call[c].got # None
        /\ call[c].got = server[call[c].at].loaded
    BY <1>6 DEF CallCompare, SameGeneration
  <2> HIDE DEF k
  <2> QED BY <1>1, <2>1, <2>2, <2>3, GoServes DEF CallKnows
<1>7. CASE CallServe(c)
  <2> DEFINE k == [NoCall EXCEPT !.step = "served",
                     !.answer = Items[server[call[c].at].loaded] \ call[c].denied]
  <2>1. server[call[c].at].loaded \in Generations
    BY <1>1, <1>7 DEF CallServe, CallKnows, Serving, ProcessTypes, Since
  <2>2. Items[server[call[c].at].loaded] \ call[c].denied \in SUBSET Products
    BY <2>1 DEF Products
  <2>3. k \in Call /\ k.step = "served"
    BY <2>2, EmptyRecords DEF Call, CallSteps, NoCall
  <2>4. Ends(c, k) /\ server' = server
    BY <1>7 DEF CallServe
  <2> HIDE DEF k
  <2> QED BY <1>1, <2>3, <2>4, EndServes
<1> QED BY <1>2, <1>3, <1>4, <1>5, <1>6, <1>7 DEF CallStep

----------------------------------------------------------------------------
(* Every step. *)
LEMMA ServingNext == ASSUME Serving, [Next]_vars PROVE Serving'
<1>1. CASE JobNext
  BY <1>1, StartServes, ConfirmServes, PrepareServes, ProposeServes, JobFailServes DEF JobNext
<1>2. CASE ServerNext
  BY <1>2, PollServes, ActivateServes, CrashServes, ServerLostServes DEF ServerNext, PollNext
<1>3. CASE CallNext
  BY <1>3, CallStartServes, CallServes DEF CallNext
<1>4. CASE UNCHANGED vars
  <2>1. Newest' = Newest
    BY <1>4 DEF vars, dbVars, Newest
  <2>2. TypeOK' /\ ProcessTypes'
    BY <1>4 DEF vars, dbVars, Serving, TypeOK, ProcessTypes
  <2>3. HasNewest' /\ WriterKnows' /\ PendingIsNewer' /\ DeletedInReceipts'
    BY <1>4, <2>1 DEF vars, dbVars, Serving, HasNewest, WriterKnows, PendingIsNewer, DeletedInReceipts
  <2>4. \A s \in Servers : ServerKnows(s)'
    BY <1>4 DEF vars, dbVars, Serving, ServerKnows
  <2>5. \A c \in Calls : CallKnows(c)'
    BY <1>4 DEF vars, dbVars, Serving, CallKnows, Flying
  <2> QED BY <2>2, <2>3, <2>4, <2>5 DEF Serving
<1> QED BY <1>1, <1>2, <1>3, <1>4 DEF Next

LEMMA AlwaysServing == Spec => []Serving
BY ServingInit, ServingNext, PTL DEF Spec

(* The tables keep their foreign keys: what is active, proposed or loaded *)
(* was prepared, and what was prepared has its receipt, whatever session *)
(* is lost between two transactions of a job or a server. *)
THEOREM CatalogTypes == Spec => []TypeOK
<1>1. Serving => TypeOK
  BY DEF Serving
<1> QED BY <1>1, AlwaysServing, PTL

(* DeletedEverywhere: for any sequence of exports, prepared, rejected or *)
(* never proposed, a product that the newest one lacks is hidden in every *)
(* generation that could ever be served (confirm_export). *)
THEOREM CatalogDeletes == Spec => []DeletedEverywhere
<1>1. Serving => DeletedEverywhere
  BY DEF Serving, TypeOK, DeletedInReceipts, DeletedEverywhere
<1> QED BY <1>1, AlwaysServing, PTL

----------------------------------------------------------------------------
(* The refinement of OneCatalog. A call as OneCatalog sees it. *)
Seen(c) == [open |-> Flying(c), gens |-> since[c].gens, hidden |-> since[c].hidden,
            answer |-> call[c].answer]

SeenCalls == [c \in Calls |-> Seen(c)]

AbsStep == [Catalog!Next]_(Catalog!absVars)

(* A call in flight is open, and no other is; so it is after a step. *)
LEMMA OpenIsFlying ==
  ASSUME NEW c
  PROVE  /\ Flying(c) /\ call[c].answer = None =>
              Seen(c) = Catalog!Open(since[c].gens, since[c].hidden)
         /\ ~Flying(c) /\ since[c] = Nothing => Seen(c) = Catalog!Over(call[c].answer)
<1>1. CASE Flying(c)
  <2>1. Flying(c) = TRUE
    BY <1>1, Zenon DEF Flying
  <2> QED BY <1>1, <2>1 DEF Seen, Catalog!Open
<1>2. CASE ~Flying(c)
  <2>1. Flying(c) = FALSE
    BY <1>2, Zenon DEF Flying
  <2>2. since[c] = Nothing => since[c].gens = {} /\ since[c].hidden = {}
    BY DEF Nothing
  <2> QED BY <1>2, <2>1, <2>2 DEF Seen, Catalog!Over
<1> QED BY <1>1, <1>2

LEMMA OpenIsFlyingAfter ==
  ASSUME NEW c
  PROVE  /\ Flying(c)' /\ call'[c].answer = None =>
              Seen(c)' = Catalog!Open(since'[c].gens, since'[c].hidden)
         /\ ~Flying(c)' /\ since'[c] = Nothing => Seen(c)' = Catalog!Over(call'[c].answer)
<1>1. CASE Flying(c)'
  <2>1. Flying(c)' = TRUE
    BY <1>1, Zenon DEF Flying
  <2> QED BY <1>1, <2>1 DEF Seen, Catalog!Open
<1>2. CASE ~Flying(c)'
  <2>1. Flying(c)' = FALSE
    BY <1>2, Zenon DEF Flying
  <2>2. since'[c] = Nothing => since'[c].gens = {} /\ since'[c].hidden = {}
    BY DEF Nothing
  <2> QED BY <1>2, <2>1, <2>2 DEF Seen, Catalog!Over
<1> QED BY <1>1, <1>2

(* Steps that OneCatalog does not see. *)
LEMMA Stutters ==
  ASSUME active' = active, receipts' = receipts, gone' = gone, SeenCalls' = SeenCalls
  PROVE  AbsStep
<1>1. Newest' = Newest
  BY DEF Newest
<1> QED BY <1>1 DEF AbsStep, Catalog!absVars, SeenCalls, Seen

LEMMA SameCalls == ASSUME call' = call, since' = since PROVE SeenCalls' = SeenCalls
BY DEF SeenCalls, Seen, Flying

LEMMA JobsImplement == ASSUME Serving, JobNext PROVE AbsStep
<1>0. JobFrame /\ active' = active
  BY DEF JobNext, JobStart, Confirm, Prepare, Propose, JobFail, WriterLost, dbVars
<1>1. SeenCalls' = SeenCalls
  BY <1>0, SameCalls DEF JobFrame
<1>2. CASE receipts' = receipts /\ gone' = gone
  BY <1>0, <1>1, <1>2, Stutters
<1>3. CASE \E j \in Jobs : Confirm(j)
  <2>1. CASE Newest' = Newest /\ gone' = gone
    BY <1>0, <1>1, <2>1 DEF AbsStep, Catalog!absVars, SeenCalls, Seen
  <2>2. CASE \E e \in Generations : Newest' = e /\ e > Newest /\ gone' = gone \cup Missed(e)
    <3>1. PICK e \in Generations : Newest' = e /\ e > Newest /\ gone' = gone \cup Missed(e)
      BY <2>2
    <3>2. Catalog!Confirm(e)
      BY <1>0, <1>1, <3>1 DEF Catalog!Confirm, Missed, SeenCalls, Seen
    <3> QED BY <3>2 DEF AbsStep, Catalog!Next
  <2> QED BY <1>3, <2>1, <2>2, ConfirmServes
<1> QED BY <1>2, <1>3 DEF JobNext, JobStart, Prepare, Propose, JobFail, WriterLost, dbVars

LEMMA ActivationImplements ==
  ASSUME Serving, NEW s \in Servers, server[s].phase = "activating", Expected(s), Activation(s),
         ServerFrame, call' = call
  PROVE  AbsStep
<1>0. PICK g : g = server[s].next
  OBVIOUS
<1>1. g = pending /\ g # None /\ g \in receipts /\ active' = g
  BY <1>0 DEF Serving, ServerKnows, Expected, Activation, TypeOK
<1>2. g \in Generations /\ g <= Newest /\ (active # None => g > active)
  BY <1>1 DEF Serving, TypeOK, HasNewest, PendingIsNewer
<1>3. Newest' = Newest /\ gone' = gone
  BY DEF ServerFrame, Newest
<1>4. \A c \in Calls :
        Seen(c)' = IF SeenCalls[c].open
                     THEN Catalog!Open(SeenCalls[c].gens \cup {g}, SeenCalls[c].hidden)
                     ELSE SeenCalls[c]
  <2> TAKE c \in Calls
  <2>1. /\ since[c] \in Since /\ call'[c] = call[c] /\ (Flying(c)' <=> Flying(c)) /\ CallKnows(c)
        /\ SeenCalls[c] = Seen(c)
    BY DEF Serving, ProcessTypes, Flying, SeenCalls
  <2>2. CASE Flying(c)
    <3>1. since'[c] = [since[c] EXCEPT !.gens = @ \cup {g}]
      BY <1>0, <2>2 DEF Activation
    <3>2. since'[c].gens = since[c].gens \cup {g} /\ since'[c].hidden = since[c].hidden
      BY <2>1, <3>1 DEF Since
    <3>3. Seen(c) = Catalog!Open(since[c].gens, since[c].hidden) /\ call[c].answer = None
      BY <2>1, <2>2, OpenIsFlying DEF CallKnows
    <3>4. Seen(c)' = Catalog!Open(since[c].gens \cup {g}, since[c].hidden)
      BY <2>1, <2>2, <3>2, <3>3, OpenIsFlyingAfter
    <3> QED BY <2>1, <3>3, <3>4 DEF Catalog!Open
  <2>3. CASE ~Flying(c)
    <3>1. since'[c] = since[c]
      BY <2>3 DEF Activation
    <3>2. Seen(c)' = Seen(c)
      BY <2>1, <2>3, <3>1 DEF Seen, Flying
    <3>3. ~SeenCalls[c].open
      BY <2>1, <2>3 DEF Seen
    <3> QED BY <2>1, <3>2, <3>3
  <2> QED BY <2>2, <2>3
<1>5. SeenCalls' = [c \in Calls |->
         IF SeenCalls[c].open THEN Catalog!Open(SeenCalls[c].gens \cup {g}, SeenCalls[c].hidden)
                              ELSE SeenCalls[c]]
  <2>1. SeenCalls' = [c \in Calls |-> Seen(c)']
    BY DEF SeenCalls
  <2> QED BY <1>4, <2>1
<1>6. Catalog!Publish(g)
  BY <1>1, <1>2, <1>3, <1>5 DEF Catalog!Publish, SeenCalls, Seen
<1> QED BY <1>2, <1>6 DEF AbsStep, Catalog!Next

LEMMA CrashImplements ==
  ASSUME Serving, NEW s \in Servers, Crash(s)
  PROVE  AbsStep
<1>0. PICK lost : lost = {c \in Calls : Flying(c) /\ call[c].at = s}
  OBVIOUS
<1>1. \A c \in Calls : /\ c \in lost => call'[c] = NoCall /\ since'[c] = Nothing
                       /\ c \notin lost => call'[c] = call[c] /\ since'[c] = since[c]
  BY <1>0 DEF Crash
<1>2. ASSUME NEW c \in Calls
      PROVE  Seen(c)' = IF c \in lost THEN Catalog!Over(None) ELSE SeenCalls[c]
  <2>1. CASE c \in lost
    <3>1. ~Flying(c)' /\ since'[c] = Nothing /\ call'[c].answer = None
      BY <1>1, <2>1 DEF Flying, NoCall
    <3> QED BY <2>1, <3>1, OpenIsFlyingAfter
  <2>2. CASE c \notin lost
    BY <1>1, <2>2 DEF Seen, Flying, SeenCalls
  <2> QED BY <2>1, <2>2
<1>3. SeenCalls' = [c \in Calls |-> IF c \in lost THEN Catalog!Over(None) ELSE SeenCalls[c]]
  BY <1>2 DEF SeenCalls
<1>4. \A c \in lost : SeenCalls[c].open
  BY <1>0 DEF SeenCalls, Seen
<1>5. active' = active /\ gone' = gone /\ Newest' = Newest /\ lost \in SUBSET Calls
  BY <1>0 DEF Crash, ServerFrame, Newest
<1>6. Catalog!Refuse(lost)
  BY <1>3, <1>4, <1>5 DEF Catalog!Refuse, SeenCalls, Seen
<1> QED BY <1>5, <1>6 DEF AbsStep, Catalog!Next

LEMMA ServersImplement == ASSUME Serving, ServerNext PROVE AbsStep
<1>1. CASE \E s \in Servers : Crash(s)
  BY <1>1, CrashImplements
<1>2. CASE \E s \in Servers : ActivateUnanswered(s) \/ (Activate(s) /\ Holds(s) /\ Expected(s))
  BY <1>2, ActivationImplements DEF Activate, ActivateUnanswered
<1>3. CASE ServerFrame /\ active' = active /\ call' = call /\ since' = since
  BY <1>3, SameCalls, Stutters DEF ServerFrame
<1>4. ASSUME NEW s \in Servers, Activate(s), ~(Holds(s) /\ Expected(s))
      PROVE  ServerFrame /\ active' = active /\ call' = call /\ since' = since
  BY <1>4 DEF Activate
<1>5. ASSUME NEW s \in Servers,
             Boot(s) \/ Poll(s) \/ Reconcile(s) \/ Candidate(s) \/ Swap(s) \/ Final(s)
               \/ Reject(s) \/ PollFail(s) \/ ServerLost
      PROVE  ServerFrame /\ active' = active /\ call' = call /\ since' = since
  BY <1>5 DEF Boot, Poll, Reconcile, Candidate, Swap, Final, Reject, PollFail, ServerLost
<1> QED BY <1>1, <1>2, <1>3, <1>4, <1>5 DEF ServerNext, PollNext, ServerLost

(* One call begins, is answered, or is refused. *)
LEMMA OneCallSeen ==
  ASSUME Serving, CallFrame, NEW c \in Calls, NEW k, NEW n,
         call' = [call EXCEPT ![c] = k], since' = [since EXCEPT ![c] = n]
  PROVE  /\ k.step \notin {"none", "served"} /\ k.answer = None =>
              SeenCalls' = [SeenCalls EXCEPT ![c] = Catalog!Open(n.gens, n.hidden)]
         /\ k.step \in {"none", "served"} /\ n = Nothing =>
              SeenCalls' = [SeenCalls EXCEPT ![c] = Catalog!Over(k.answer)]
         /\ active' = active /\ gone' = gone /\ receipts' = receipts /\ Newest' = Newest
<1>1. /\ call'[c] = k /\ since'[c] = n
      /\ \A d \in Calls \ {c} : call'[d] = call[d] /\ since'[d] = since[d]
  BY DEF Serving, ProcessTypes
<1>2. Flying(c)' <=> k.step \notin {"none", "served"}
  BY <1>1 DEF Flying
<1>3. \A d \in Calls \ {c} : Seen(d)' = Seen(d)
  BY <1>1 DEF Seen, Flying
<1>4. SeenCalls' = [SeenCalls EXCEPT ![c] = Seen(c)']
  BY <1>3 DEF SeenCalls
<1>5. /\ k.step \notin {"none", "served"} /\ k.answer = None =>
              Seen(c)' = Catalog!Open(n.gens, n.hidden)
      /\ k.step \in {"none", "served"} /\ n = Nothing => Seen(c)' = Catalog!Over(k.answer)
  BY <1>1, <1>2, OpenIsFlyingAfter
<1>6. active' = active /\ gone' = gone /\ receipts' = receipts /\ Newest' = Newest
  BY DEF CallFrame, dbVars, Newest
<1> QED BY <1>4, <1>5, <1>6

LEMMA CallStartImplements ==
  ASSUME Serving, NEW c \in Calls, NEW s \in Servers, CallStart(c, s)
  PROVE  AbsStep
<1> DEFINE k == [NoCall EXCEPT !.step = "check", !.at = s]
           n == [gens |-> {active} \ {None}, hidden |-> gone]
<1>1. k.step = "check" /\ k.answer = None /\ n.gens = {active} \ {None} /\ n.hidden = gone
  BY DEF NoCall
<1>2. call' = [call EXCEPT ![c] = k] /\ since' = [since EXCEPT ![c] = n] /\ CallFrame
  BY DEF CallStart
<1> HIDE DEF k, n
<1>3. /\ SeenCalls' = [SeenCalls EXCEPT ![c] = Catalog!Open({active} \ {None}, gone)]
      /\ active' = active /\ gone' = gone /\ Newest' = Newest
  BY <1>1, <1>2, OneCallSeen
<1>4. ~SeenCalls[c].open
  BY DEF SeenCalls, Seen, CallStart
<1>5. Catalog!Begin(c)
  BY <1>3, <1>4 DEF Catalog!Begin, SeenCalls, Seen
<1> QED BY <1>5 DEF AbsStep, Catalog!Next

LEMMA CallsImplement ==
  ASSUME Serving, NEW c \in Calls, CallStep(c)
  PROVE  AbsStep
<1>1. /\ Flying(c) /\ CallKnows(c) /\ call[c] \in Call /\ since[c] \in Since /\ CallFrame
  BY DEF Serving, ProcessTypes, CallStep, Flying, CallCheck, CallDeny, CallState, CallCompare, CallServe
<1>2. /\ SeenCalls[c] = Catalog!Open(since[c].gens, since[c].hidden) /\ call[c].answer = None
      /\ SeenCalls[c].open /\ SeenCalls[c].gens = since[c].gens /\ SeenCalls[c].hidden = since[c].hidden
  <2>1. call[c].answer = None /\ SeenCalls[c] = Seen(c)
    BY <1>1 DEF SeenCalls, CallKnows
  <2>2. SeenCalls[c] = Catalog!Open(since[c].gens, since[c].hidden)
    BY <1>1, <2>1, OpenIsFlying
  <2> QED BY <2>1, <2>2 DEF Catalog!Open
<1>3. CASE Ends(c, NoCall)
  <2>1. NoCall.step = "none" /\ NoCall.answer = None
    BY DEF NoCall
  <2>2. /\ SeenCalls' = [SeenCalls EXCEPT ![c] = Catalog!Over(None)]
        /\ active' = active /\ gone' = gone /\ Newest' = Newest
    BY <1>1, <1>3, <2>1, OneCallSeen DEF Ends
  <2>3. SeenCalls' = [d \in Calls |-> IF d \in {c} THEN Catalog!Over(None) ELSE SeenCalls[d]]
    BY <2>2 DEF SeenCalls
  <2>4. Catalog!Refuse({c})
    BY <1>2, <2>2, <2>3 DEF Catalog!Refuse, SeenCalls, Seen
  <2> QED BY <2>4 DEF AbsStep, Catalog!Next
<1>4. ASSUME NEW k, Go(c, k), k.step \notin {"none", "served"}, k.answer = call[c].answer
      PROVE  AbsStep
  <2>1. since' = [since EXCEPT ![c] = since[c]]
    BY <1>4 DEF Go, Serving, ProcessTypes
  <2>2. SeenCalls' = [SeenCalls EXCEPT ![c] = Catalog!Open(since[c].gens, since[c].hidden)]
    BY <1>1, <1>2, <1>4, <2>1, OneCallSeen DEF Go
  <2>3. SeenCalls' = SeenCalls
    BY <1>2, <2>2 DEF SeenCalls
  <2> QED BY <1>1, <2>3, Stutters DEF CallFrame, dbVars
<1>5. CASE ~Ends(c, NoCall) /\ ~CallServe(c)
  <2>1. CASE Go(c, [call[c] EXCEPT !.step = "deny"])
    BY <1>1, <1>4, <2>1 DEF Call
  <2>2. CASE Go(c, [call[c] EXCEPT !.step = "check again", !.denied = gone])
    BY <1>1, <1>4, <2>2 DEF Call
  <2>3. CASE Go(c, [call[c] EXCEPT !.got = active])
    BY <1>1, <1>4, <2>3 DEF Call, Flying
  <2>4. CASE Go(c, [call[c] EXCEPT !.step = "serve", !.got = None])
    BY <1>1, <1>4, <2>4 DEF Call
  <2> QED BY <1>5, <2>1, <2>2, <2>3, <2>4 DEF CallStep, CallCheck, CallDeny, CallState, CallCompare
<1>6. CASE CallServe(c)
  <2> DEFINE g == server[call[c].at].loaded
             h == call[c].denied
             k == [NoCall EXCEPT !.step = "served", !.answer = Items[g] \ h]
  <2>1. g \in since[c].gens /\ since[c].hidden \subseteq h /\ h \in SUBSET gone
    BY <1>1, <1>6 DEF CallServe, CallKnows
  <2>2. k.step = "served" /\ k.answer = Items[g] \ h
    BY DEF NoCall
  <2>3. call' = [call EXCEPT ![c] = k] /\ since' = [since EXCEPT ![c] = Nothing]
    BY <1>6 DEF CallServe, Ends
  <2> HIDE DEF k
  <2>4. /\ SeenCalls' = [SeenCalls EXCEPT ![c] = Catalog!Over(Items[g] \ h)]
        /\ active' = active /\ gone' = gone /\ Newest' = Newest
    BY <1>1, <2>2, <2>3, OneCallSeen
  <2> HIDE DEF g, h
  <2>5. Catalog!Answer(c)
    BY <1>2, <2>1, <2>4 DEF Catalog!Answer, SeenCalls, Seen
  <2> QED BY <2>5 DEF AbsStep, Catalog!Next
<1> QED BY <1>3, <1>5, <1>6

(* OneCatalogSpec: jobs, servers and their two session locks are together *)
(* the one catalog of OneCatalog. For every number of exports, servers and *)
(* calls, the pointer only moves forward, and a call is answered from a *)
(* generation that was active while it ran, without what was hidden when *)
(* it began (activate, reconcile, swap and the middleware of app.py). *)
THEOREM CatalogIsOne == Spec => OneCatalogSpec
<1>1. Init => Catalog!Init
  <2> SUFFICES ASSUME Init PROVE Catalog!Init
    OBVIOUS
  <2>1. Newest = 0
    BY CatalogConstants, MaxIs DEF Init, Newest
  <2>2. ASSUME NEW c \in Calls PROVE Seen(c) = Catalog!Over(None)
    <3>1. ~Flying(c) /\ since[c] = Nothing /\ call[c].answer = None
      BY DEF Init, Flying, NoCall
    <3> QED BY <3>1, OpenIsFlying
  <2> QED BY <2>1, <2>2 DEF Init, Catalog!Init, Seen
<1>2. Serving /\ [Next]_vars => [Catalog!Next]_(Catalog!absVars)
  <2> SUFFICES ASSUME Serving, [Next]_vars PROVE AbsStep
    BY DEF AbsStep
  <2>1. CASE CallNext
    BY <2>1, CallStartImplements, CallsImplement DEF CallNext
  <2>2. CASE UNCHANGED vars
    BY <2>2, SameCalls, Stutters DEF vars, dbVars
  <2> QED BY <2>1, <2>2, JobsImplement, ServersImplement DEF Next
<1> QED BY <1>1, <1>2, AlwaysServing, PTL DEF Spec, OneCatalogSpec, Catalog!Spec
=============================================================================
