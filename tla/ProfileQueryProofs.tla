------------------------- MODULE ProfileQueryProofs -------------------------
(***************************************************************************)
(* Proofs about a query on its way through Search and what stands on it:   *)
(* the encoder (SharedEmbedding), the slots of the searches                *)
(* (SearchRequests), the searches that are recorded with their verdicts    *)
(* (QARecords), and the profile a run stores: only when Search answered it *)
(* (RequiredRuns), with tags of its own input (IncrementalTags), of        *)
(* products of one version of the catalog (CatalogLoads), whose tags       *)
(* follow its brands (TagVocabulary), picked as they must be               *)
(* (PoolSelection).  For every number of callers, queries, requests,       *)
(* workers, runs, threads, products and versions; each part has a step of  *)
(* its own.                                                                *)
(***************************************************************************)
EXTENDS SharedEmbedding, SearchRequests, QARecords, RequiredRuns, IncrementalTags,
        CatalogLoads, TagVocabulary, PoolSelection,
        FiniteSetTheorems, SequenceTheorems, TLAPS

-----------------------------------------------------------------------------
(* The encoder. *)

Lines == Queries \cup {Ready}
Entries == [query : Queries, priority : Priorities, at : Nat]
CallerStates == [step : {"idle", "waits", "got"}, query : Queries \cup {None},
                 vector : Queries \cup {None}]
ChildStates == [born : BOOLEAN, alive : BOOLEAN, asked : Seq(Lines), said : Seq(Lines)]

LoopTyped ==
  /\ cache \in [Queries -> Queries \cup {None}] /\ pending \subseteq Queries
  /\ queue \subseteq Entries /\ IsFiniteSet(queue) /\ Cardinality(queue) <= QueueSize
  /\ caller \in [Callers -> CallerStates]
  /\ worker \in {"none", "wait", "run", "gone"} /\ running \in Queries \cup {None}

ThreadTyped ==
  /\ op \in Ops /\ opQuery \in Queries \cup {None} /\ process \in Children \cup {None}
  /\ buffer \in Seq(Lines) /\ child \in [Children -> ChildStates]

ClosingTyped == stopping \in BOOLEAN /\ closing \in {"no", "stop", "close", "done"}

(* At most one line is anywhere between the child and the thread, and it *)
(* is the one that is expected. *)
OnTheWay(asked, said, x) ==
  \/ asked = <<>> /\ said = <<>> /\ buffer \in {<<>>, <<x>>}
  \/ asked = <<x>> /\ said = <<>> /\ buffer = <<>>
  \/ asked = <<>> /\ said = <<x>> /\ buffer = <<>>

Expected == IF op = "read" THEN opQuery ELSE Ready

(* Only a read that failed leaves a line behind, and it ends the child. *)
Pipe ==
  /\ op = "read" => buffer \in {<<>>, <<opQuery>>}
  /\ process # None /\ op # "fail" =>
       IF op \in Reading THEN OnTheWay(child[process].asked, child[process].said, Expected)
       ELSE child[process].asked = <<>> /\ child[process].said = <<>> /\ buffer = <<>>

(* What the thread is doing, and for whom. *)
ThreadKnows ==
  /\ op \in {"begin", "write", "read"} => opQuery \in Queries
  /\ op \in {"verify", "popen"} => process = None
  /\ op = "over" => result \in {Failure, IF opQuery = None THEN Ready ELSE opQuery}

WorkerKnows ==
  /\ worker = "none" => opQuery = None
  /\ worker = "wait" => op = "none"
  /\ IF worker = "run" THEN running = opQuery /\ running \in Queries ELSE running = None
  /\ worker = "gone" <=> Closed
  /\ Closed => pending = {} /\ queue = {}

EncoderInv ==
  /\ LoopTyped /\ ThreadTyped /\ ClosingTyped
  /\ Pipe /\ ThreadKnows /\ WorkerKnows
  /\ VectorOfItsQuery /\ PendingIsWorked

LEMMA EncoderStarts == ASSUME EncoderConstants, Init PROVE EncoderInv
<1>1. LoopTyped /\ VectorOfItsQuery /\ PendingIsWorked
  BY FS_EmptySet DEF Init, LoopTyped, VectorOfItsQuery, PendingIsWorked, Idle, CallerStates,
     EncoderConstants
<1>2. ThreadTyped
  <2>1. Unborn \in ChildStates
    BY DEF Unborn, ChildStates
  <2> QED BY <2>1 DEF Init, ThreadTyped, Ops
<1>3. ClosingTyped /\ Pipe /\ ThreadKnows /\ WorkerKnows
  BY DEF Init, ClosingTyped, Pipe, ThreadKnows, WorkerKnows, Closed
<1> QED BY <1>1, <1>2, <1>3 DEF EncoderInv

(* A set of numbers that is not empty has a least one. *)
LEMMA LeastOfNats ==
  ASSUME NEW S \in SUBSET Nat, S # {}
  PROVE  \E k \in S : \A l \in S : k <= l
<1> DEFINE R == OpToRel(<, Nat)
<1>1. PICK k \in S : \A l \in S : ~ (<<l, k>> \in R)
  BY NatLessThanWellFounded, WFMin
<1>2. \A l \in S : ~ (l < k)
  BY <1>1 DEF OpToRel
<1> QED BY <1>2

(* A child whose lines change, and no other. *)
LEMMA ChildLines ==
  ASSUME ThreadTyped, NEW k \in Children, NEW a \in Seq(Lines), NEW d \in Seq(Lines),
         child' = [child EXCEPT ![k] = [child[k] EXCEPT !.asked = a, !.said = d]]
  PROVE  /\ child' \in [Children -> ChildStates]
         /\ child'[k].asked = a /\ child'[k].said = d
         /\ \A l \in Children : l # k => child'[l] = child[l]
<1>1. child[k] \in ChildStates
  BY DEF ThreadTyped
<1>2. [child[k] EXCEPT !.asked = a, !.said = d] \in ChildStates
  BY <1>1 DEF ChildStates
<1>3. /\ [child[k] EXCEPT !.asked = a, !.said = d].asked = a
      /\ [child[k] EXCEPT !.asked = a, !.said = d].said = d
  BY <1>1 DEF ChildStates
<1> QED BY <1>2, <1>3 DEF ThreadTyped

(* The thread: the loop is where it was. *)

LEMMA ThreadLeavesLoop ==
  ASSUME LoopTyped, ClosingTyped, VectorOfItsQuery, PendingIsWorked, ThreadFrame
  PROVE  LoopTyped' /\ ClosingTyped' /\ VectorOfItsQuery' /\ PendingIsWorked'
BY DEF LoopTyped, ClosingTyped, VectorOfItsQuery, PendingIsWorked, ThreadFrame, loopVars

(* A child that is killed keeps what was on the way. *)
LEMMA KilledTyped ==
  ASSUME ThreadTyped, NEW k \in Children \cup {None}
  PROVE  /\ Killed(k) \in [Children -> ChildStates]
         /\ \A l \in Children : /\ Killed(k)[l].asked = child[l].asked
                                /\ Killed(k)[l].said = child[l].said
BY DEF ThreadTyped, Killed, ChildStates

(* The thread goes on with one line on the way or none. *)
LEMMA ThreadGoesOn ==
  ASSUME EncoderConstants, EncoderInv, Thread
  PROVE  ThreadTyped' /\ Pipe' /\ ThreadKnows' /\ WorkerKnows'
<1> USE DEF EncoderInv
<1>1. CASE Begin
  <2>1. Killed(process) \in [Children -> ChildStates]
    BY KilledTyped DEF ThreadTyped
  <2>2. ThreadTyped'
    BY <1>1, <2>1 DEF Begin, Goto, ThreadTyped, Ops
  <2>3. WorkerKnows'
    BY <1>1 DEF Begin, Goto, WorkerKnows, ThreadFrame, loopVars, Closed
  <2> QED BY <1>1, <2>2, <2>3 DEF Begin, Goto, Pipe, ThreadKnows, Reading
<1>2. CASE Verify
  <2>1. ThreadTyped'
    BY <1>2 DEF Verify, Goto, ThreadTyped, Ops
  <2>2. WorkerKnows'
    BY <1>2 DEF Verify, Goto, WorkerKnows, ThreadFrame, loopVars, Closed
  <2> QED BY <1>2, <2>1, <2>2 DEF Verify, Goto, Pipe, ThreadKnows, Reading
<1>3. CASE Popen
  <2>1. WorkerKnows'
    BY <1>3 DEF Popen, Goto, WorkerKnows, ThreadFrame, loopVars, Closed
  <2>2. CASE Goto("fail") /\ UNCHANGED <<process, buffer, child>>
    BY <1>3, <2>1, <2>2 DEF Popen, Goto, ThreadTyped, Pipe, ThreadKnows, Ops
  <2>3. CASE ~(Goto("fail") /\ UNCHANGED <<process, buffer, child>>)
    <3>1. PICK k \in Children :
             /\ process' = k /\ buffer' = <<>>
             /\ child' = [child EXCEPT ![k] =
                  [born |-> TRUE, alive |-> TRUE, asked |-> <<Ready>>, said |-> <<>>]]
             /\ Goto("await ready")
      <4> DEFINE unborn == {k \in Children : ~child[k].born}
      <4>1. unborn # {}
        BY <1>3, <2>3 DEF Popen
      <4>2. \E k \in unborn : \A l \in unborn : k <= l
        <5>1. unborn \subseteq Nat
          BY EncoderConstants DEF Children, EncoderConstants
        <5> HIDE DEF unborn
        <5> QED BY <4>1, <5>1, LeastOfNats
      <4> QED BY <1>3, <2>3, <4>2 DEF Popen
    <3>2. [born |-> TRUE, alive |-> TRUE, asked |-> <<Ready>>, said |-> <<>>] \in ChildStates
      BY DEF ChildStates, Lines
    <3>3. child' \in [Children -> ChildStates]
      BY <3>1, <3>2 DEF ThreadTyped
    <3>4. ThreadTyped'
      <4>1. op' = "await ready" /\ opQuery' = opQuery /\ process' = k /\ buffer' = <<>>
        BY <3>1 DEF Goto
      <4>2. op' \in Ops /\ opQuery' \in Queries \cup {None} /\ process' \in Children \cup {None}
        BY <4>1 DEF ThreadTyped, Ops
      <4>3. buffer' \in Seq(Lines)
        <5>1. <<>> \in Seq(Lines)
          OBVIOUS
        <5> QED BY <4>1, <5>1, Zenon
      <4> QED BY <3>3, <4>2, <4>3 DEF ThreadTyped
    <3>5. child'[process'].asked = <<Ready>> /\ child'[process'].said = <<>>
      BY <3>1 DEF ThreadTyped
    <3> QED BY <2>1, <3>1, <3>4, <3>5 DEF Pipe, ThreadKnows, Goto, Reading, OnTheWay, Expected
  <2> QED BY <2>2, <2>3
<1>4. CASE Receive
  <2> DEFINE said == child[process].said
  <2>1. process \in Children /\ child[process] \in ChildStates
    BY <1>4 DEF Receive, ThreadTyped
  <2>2. child[process].asked \in Seq(Lines) /\ said \in Seq(Lines) /\ <<>> \in Seq(Lines)
    BY <2>1 DEF ChildStates
  <2>3. child' = [child EXCEPT ![process] =
                    [child[process] EXCEPT !.asked = child[process].asked, !.said = <<>>]]
    BY <1>4, <2>1 DEF Receive, ThreadTyped, ChildStates
  <2>4. child' \in [Children -> ChildStates]
    BY <2>1, <2>2, <2>3, ChildLines
  <2>typed. ThreadTyped'
    BY <1>4, <2>2, <2>4 DEF Receive, ThreadTyped
  <2>5. WorkerKnows' /\ ThreadKnows'
    BY <1>4 DEF Receive, WorkerKnows, ThreadKnows, ThreadFrame, loopVars, Closed, Reading
  <2>6. child'[process].asked = child[process].asked /\ child'[process].said = <<>>
    BY <2>1, <2>2, <2>3, ChildLines
  <2>7. OnTheWay(child[process].asked, said, Expected) /\ said # <<>>
    BY <1>4 DEF Receive, Pipe, Reading
  <2>8. buffer' = <<Expected>> /\ child[process].asked = <<>>
    BY <1>4, <2>7 DEF Receive, OnTheWay
  <2>9. Expected' = Expected /\ process' = process /\ op' = op /\ opQuery' = opQuery
    BY <1>4 DEF Receive, Expected
  <2>10. Pipe'
    BY <1>4, <2>6, <2>8, <2>9 DEF Receive, Pipe, OnTheWay, Expected, Reading
  <2> QED BY <2>typed, <2>5, <2>10
<1>5. CASE Answered
  <2>1. Tail(buffer) \in Seq(Lines)
    BY <1>5 DEF Answered, ThreadTyped
  <2>2. ThreadTyped'
    BY <1>5, <2>1 DEF Answered, ThreadTyped, Ops
  <2>3. WorkerKnows'
    BY <1>5 DEF Answered, WorkerKnows, ThreadFrame, loopVars, Closed, Reading
  <2>4. ThreadKnows'
    <3>1. op = "read" => Head(buffer) = opQuery
      BY <1>5 DEF Answered, Pipe
    <3> QED BY <1>5, <3>1, EncoderConstants
          DEF Answered, ThreadKnows, ThreadTyped, EncoderConstants, Reading
  <2>5. Pipe'
    <3>1. CASE process = None
      BY <1>5, <3>1 DEF Answered, Pipe, Reading
    <3>2. CASE process # None
      <4>1. OnTheWay(child[process].asked, child[process].said, Expected)
        BY <1>5, <3>2 DEF Answered, Pipe, Reading
      <4>2. buffer = <<Expected>> /\ child[process].asked = <<>> /\ child[process].said = <<>>
        BY <1>5, <4>1 DEF Answered, OnTheWay
      <4>3. Tail(buffer) = <<>>
        BY <4>2
      <4> QED BY <1>5, <4>2, <4>3 DEF Answered, Pipe, Reading
    <3> QED BY <3>1, <3>2
  <2> QED BY <2>2, <2>3, <2>4, <2>5
<1>6. CASE Write
  <2>1. WorkerKnows'
    BY <1>6 DEF Write, Goto, WorkerKnows, ThreadFrame, loopVars, Closed
  <2>2. CASE process # None /\ child[process].alive
    <3>1. process \in Children /\ child[process] \in ChildStates /\ opQuery \in Lines
      BY <1>6, <2>2 DEF Write, ThreadTyped, ThreadKnows, Lines
    <3>2. child[process].said \in Seq(Lines) /\ <<opQuery>> \in Seq(Lines)
      BY <3>1 DEF ChildStates
    <3>5. child[process].asked = <<>> /\ child[process].said = <<>> /\ buffer = <<>>
      BY <1>6, <2>2 DEF Write, Pipe, Reading
    <3>3. Append(child[process].asked, opQuery) = <<opQuery>>
      BY <3>5
    <3>4. child' = [child EXCEPT ![process] =
                      [child[process] EXCEPT !.asked = <<opQuery>>, !.said = child[process].said]]
      <4>1. child' = [child EXCEPT ![process].asked = <<opQuery>>]
        BY <1>6, <2>2, <3>3 DEF Write
      <4> QED BY <3>1, <4>1 DEF ThreadTyped, ChildStates
    <3>6. child'[process].asked = <<opQuery>> /\ child'[process].said = <<>>
      BY <3>1, <3>2, <3>4, <3>5, ChildLines
    <3>typed. ThreadTyped'
      <4>1. child' \in [Children -> ChildStates]
        BY <3>1, <3>2, <3>4, ChildLines
      <4> QED BY <1>6, <2>2, <4>1 DEF Write, Goto, ThreadTyped, Ops
    <3>7. ThreadKnows'
      BY <1>6, <2>2 DEF Write, Goto, ThreadKnows
    <3>8. op' = "read" /\ buffer' = <<>> /\ process' = process /\ opQuery' = opQuery
      BY <1>6, <2>2, <3>5 DEF Write, Goto
    <3>9. Pipe'
      BY <3>6, <3>8 DEF Pipe, Reading, OnTheWay, Expected
    <3> QED BY <2>1, <3>typed, <3>7, <3>9
  <2>3. CASE ~(process # None /\ child[process].alive)
    BY <1>6, <2>1, <2>3 DEF Write, Goto, ThreadTyped, Pipe, ThreadKnows, Ops
  <2> QED BY <2>2, <2>3
<1>7. CASE ReadFails
  <2>1. WorkerKnows'
    BY <1>7 DEF ReadFails, Goto, WorkerKnows, ThreadFrame, loopVars, Closed, Reading
  <2> QED BY <1>7, <2>1 DEF ReadFails, Goto, ThreadTyped, Pipe, ThreadKnows, Ops
<1>8. CASE Fails
  <2>1. Killed(process) \in [Children -> ChildStates]
    BY KilledTyped DEF ThreadTyped
  <2>2. WorkerKnows'
    BY <1>8 DEF Fails, WorkerKnows, ThreadFrame, loopVars, Closed
  <2> QED BY <1>8, <2>1, <2>2 DEF Fails, ThreadTyped, Pipe, ThreadKnows, Ops
<1> QED BY <1>1, <1>2, <1>3, <1>4, <1>5, <1>6, <1>7, <1>8 DEF Thread

(* The loop, shutdown() and the child. *)

LEMMA ChildGoesOn ==
  ASSUME EncoderConstants, EncoderInv, NEW k \in Children, ChildSays(k) \/ ChildDies(k)
  PROVE  EncoderInv'
<1> USE DEF EncoderInv
<1>1. LoopTyped' /\ ClosingTyped' /\ VectorOfItsQuery' /\ PendingIsWorked'
  BY DEF ChildSays, ChildDies, LoopTyped, ClosingTyped, VectorOfItsQuery, PendingIsWorked, loopVars
<1>2. ThreadKnows' /\ WorkerKnows'
  BY DEF ChildSays, ChildDies, ThreadKnows, WorkerKnows, loopVars, Closed
<1>3. child[k] \in ChildStates
  BY DEF ThreadTyped
<1>4. CASE ChildSays(k)
  <2> DEFINE a == Tail(child[k].asked)
             d == Append(child[k].said, Head(child[k].asked))
  <2>1. a \in Seq(Lines) /\ d \in Seq(Lines)
    BY <1>3, <1>4 DEF ChildSays, ChildStates
  <2>2. child' = [child EXCEPT ![k] = [child[k] EXCEPT !.asked = a, !.said = d]]
    <3>1. child' = [child EXCEPT ![k].asked = a, ![k].said = d]
      BY <1>4 DEF ChildSays
    <3> HIDE DEF a, d
    <3> QED BY <1>3, <2>1, <3>1 DEF ThreadTyped, ChildStates
  <2>3. /\ child' \in [Children -> ChildStates]
        /\ child'[k].asked = a /\ child'[k].said = d
        /\ \A l \in Children : l # k => child'[l] = child[l]
    BY <2>1, <2>2, ChildLines
  <2>4. UNCHANGED <<op, opQuery, process, buffer>>
    BY <1>4 DEF ChildSays
  <2>5. Pipe'
    <3>1. CASE process # k
      BY <2>3, <2>4, <3>1 DEF Pipe, OnTheWay, Expected, Reading, ThreadTyped
    <3>2. CASE process = k /\ op # "fail"
      <4>1. op \in Reading /\ OnTheWay(child[k].asked, child[k].said, Expected)
        BY <1>4, <3>2 DEF ChildSays, Pipe, ThreadTyped, EncoderConstants, Children
      <4>2. child[k].asked = <<Expected>> /\ child[k].said = <<>> /\ buffer = <<>>
        BY <1>4, <4>1 DEF ChildSays, OnTheWay
      <4>3. a = <<>> /\ d = <<Expected>>
        BY <4>2
      <4> QED BY <2>3, <2>4, <3>2, <4>1, <4>2, <4>3 DEF Pipe, OnTheWay, Expected
    <3>3. CASE process = k /\ op = "fail"
      BY <2>4, <3>3 DEF Pipe
    <3> QED BY <3>1, <3>2, <3>3
  <2> QED BY <1>1, <1>2, <2>3, <2>4, <2>5 DEF ThreadTyped
<1>5. CASE ChildDies(k)
  <2>1. child' \in [Children -> ChildStates]
    BY <1>3, <1>5 DEF ChildDies, ThreadTyped, ChildStates
  <2>2. \A l \in Children : child'[l].asked = child[l].asked /\ child'[l].said = child[l].said
    BY <1>5 DEF ChildDies, ThreadTyped, ChildStates
  <2> QED BY <1>1, <1>2, <1>5, <2>1, <2>2
        DEF ChildDies, ThreadTyped, Pipe, OnTheWay, Expected, Reading
<1> QED BY <1>4, <1>5

LEMMA ShutdownGoesOn ==
  ASSUME EncoderConstants, EncoderInv, Stop \/ StopChild
  PROVE  EncoderInv'
<1> USE DEF EncoderInv
<1>1. LoopTyped' /\ ClosingTyped' /\ VectorOfItsQuery' /\ PendingIsWorked'
  BY DEF Stop, StopChild, LoopTyped, ClosingTyped, VectorOfItsQuery, PendingIsWorked, loopVars
<1>2. ThreadKnows' /\ WorkerKnows'
  BY DEF Stop, StopChild, ThreadKnows, WorkerKnows, loopVars, threadVars, Closed
<1>3. Killed(process) \in [Children -> ChildStates]
  BY KilledTyped DEF ThreadTyped
<1>4. ThreadTyped' /\ Pipe'
  BY <1>3 DEF Stop, StopChild, threadVars, ThreadTyped, Pipe, OnTheWay, Expected, Reading
<1> QED BY <1>1, <1>2, <1>4

(* A caller's new state. *)
LEMMA CallerMoves ==
  ASSUME EncoderInv, NEW c \in Callers, NEW v \in CallerStates,
         caller' = [caller EXCEPT ![c] = v], cache' = cache,
         v.step = "got" => v.vector = v.query,
         v.step = "waits" => v.query \in pending', pending \subseteq pending'
  PROVE  /\ caller' \in [Callers -> CallerStates]
         /\ VectorOfItsQuery'
         /\ \A d \in Callers : caller'[d].step = "waits" => caller'[d].query \in pending'
BY DEF EncoderInv, LoopTyped, VectorOfItsQuery, PendingIsWorked

(* What is said of the queue and the queries in it. *)
InQueue == {e.query : e \in queue}

QueueIs ==
  /\ pending = InQueue \cup ({running} \ {None})
  /\ \A e, f \in queue : e.query = f.query => e = f
  /\ running \notin InQueue

QueueTyped ==
  queue \subseteq Entries /\ IsFiniteSet(queue) /\ Cardinality(queue) <= QueueSize

(* An entry becomes another of the same query, and none is added. *)
LEMMA QueueMoves ==
  ASSUME EncoderConstants, QueueTyped, QueueIs,
         NEW S \in SUBSET queue, NEW g \in [S -> Entries],
         \A e \in S : g[e].query = e.query, queue' = {g[e] : e \in S}
  PROVE  /\ QueueTyped'
         /\ InQueue' = {e.query : e \in S}
         /\ \A e, f \in queue' : e.query = f.query => e = f
<1>1. IsFiniteSet(S) /\ Cardinality(S) <= QueueSize /\ Cardinality(S) \in Nat
  <2>1. IsFiniteSet(S) /\ Cardinality(S) <= Cardinality(queue)
    BY FS_Subset DEF QueueTyped
  <2> QED BY <2>1, FS_CardinalityType DEF QueueTyped, EncoderConstants
<1>2. g \in Surjection(S, queue')
  BY DEF Surjection
<1>3. IsFiniteSet(queue') /\ Cardinality(queue') <= Cardinality(S)
  BY <1>1, <1>2, FS_Surjection
<1>4. QueueTyped'
  BY <1>1, <1>3, FS_CardinalityType DEF QueueTyped, EncoderConstants
<1>5. InQueue' = {e.query : e \in S}
  BY DEF InQueue
<1>6. \A e, f \in queue' : e.query = f.query => e = f
  BY DEF QueueIs
<1> QED BY <1>4, <1>5, <1>6

LEMMA QueueOfPending == PendingIsWorked <=>
  QueueIs /\ \A c \in Callers : caller[c].step = "waits" => caller[c].query \in pending
BY DEF PendingIsWorked, QueueIs, InQueue

(* A step of the loop that leaves the thread alone. *)
LEMMA LoopLeavesThread ==
  ASSUME EncoderInv, UNCHANGED <<worker, running, threadVars, stopping, closing>>,
         Closed => pending' = {} /\ queue' = {}
  PROVE  ThreadTyped' /\ ClosingTyped' /\ Pipe' /\ ThreadKnows' /\ WorkerKnows'
BY DEF EncoderInv, threadVars, ThreadTyped, ClosingTyped, Pipe, OnTheWay, Expected, Reading,
       ThreadKnows, WorkerKnows, Closed

LEMMA GetGoesOn ==
  ASSUME EncoderConstants, EncoderInv, NEW c \in Callers, NEW q \in Queries,
         NEW p \in Priorities, Get(c, q, p)
  PROVE  EncoderInv'
<1> USE DEF EncoderInv
<1>1. ThreadTyped' /\ ClosingTyped' /\ Pipe' /\ ThreadKnows' /\ WorkerKnows'
  BY LoopLeavesThread DEF Get, Closed
<1>2. QueueTyped /\ QueueIs
  BY QueueOfPending DEF LoopTyped, QueueTyped
<1>3. UNCHANGED <<cache, worker, running>>
  BY DEF Get
<1>4. ASSUME NEW v \in CallerStates, caller' = [caller EXCEPT ![c] = v],
             v.step = "got" => v.vector = v.query,
             v.step = "waits" => v.query \in pending', pending \subseteq pending',
             pending' \subseteq Queries, QueueTyped', QueueIs'
      PROVE  EncoderInv'
  <2>1. /\ caller' \in [Callers -> CallerStates]
        /\ VectorOfItsQuery'
        /\ \A d \in Callers : caller'[d].step = "waits" => caller'[d].query \in pending'
    BY <1>3, <1>4, CallerMoves
  <2>2. PendingIsWorked'
    BY <1>4, <2>1 DEF PendingIsWorked, QueueIs, InQueue
  <2>3. LoopTyped'
    BY <1>3, <1>4, <2>1 DEF LoopTyped, QueueTyped
  <2> QED BY <1>1, <2>1, <2>2, <2>3
<1>5. CASE GetCached(c, q)
  <2> DEFINE v == [step |-> "got", query |-> q, vector |-> cache[q]]
  <2>1. cache[q] = q
    BY <1>5 DEF GetCached, VectorOfItsQuery
  <2>2. v \in CallerStates /\ v.step = "got" /\ v.vector = v.query
    BY <2>1 DEF CallerStates
  <2>3. caller' = [caller EXCEPT ![c] = v] /\ UNCHANGED <<pending, queue>>
    BY <1>5 DEF GetCached
  <2>4. QueueTyped' /\ QueueIs' /\ pending' \subseteq Queries
    BY <1>2, <1>3, <2>3 DEF QueueTyped, QueueIs, InQueue, LoopTyped
  <2> HIDE DEF v
  <2> QED BY <1>4, <2>2, <2>3, <2>4
<1>6. CASE GetShared(c, q, p) \/ GetQueued(c, q, p)
  <2> DEFINE v == [step |-> "waits", query |-> q, vector |-> None]
  <2>1. v \in CallerStates /\ v.step = "waits" /\ v.query = q
    BY DEF CallerStates
  <2>2. caller' = [caller EXCEPT ![c] = v]
    BY <1>6 DEF GetShared, GetQueued, Waits
  <2>3. CASE GetShared(c, q, p)
    <3> DEFINE g == [e \in queue |->
                       IF e.query = q /\ p < e.priority THEN [e EXCEPT !.priority = p] ELSE e]
    <3>1. g \in [queue -> Entries] /\ \A e \in queue : g[e].query = e.query
      BY <1>2 DEF QueueTyped, Entries
    <3>2. queue' = {g[e] : e \in queue}
      BY <2>3 DEF GetShared, Promoted
    <3> HIDE DEF g
    <3>3. /\ QueueTyped' /\ InQueue' = InQueue
          /\ \A e, f \in queue' : e.query = f.query => e = f
      BY <1>2, <3>1, <3>2, QueueMoves DEF InQueue
    <3>4. pending' = pending /\ q \in pending
      BY <2>3 DEF GetShared
    <3>5. QueueIs'
      BY <1>2, <1>3, <3>3, <3>4 DEF QueueIs
    <3> HIDE DEF v
    <3> QED BY <1>4, <2>1, <2>2, <3>3, <3>4, <3>5 DEF LoopTyped
  <2>4. CASE GetQueued(c, q, p)
    <3> DEFINE e == [query |-> q, priority |-> p, at |-> Cardinality(queue)]
    <3>1. Cardinality(queue) \in Nat
      BY <1>2, FS_CardinalityType DEF QueueTyped
    <3>2. e \in Entries /\ e.query = q
      BY <3>1 DEF Entries
    <3>3. queue' = queue \cup {e} /\ pending' = pending \cup {q} /\ q \notin pending
          /\ Cardinality(queue) < QueueSize
      BY <2>4 DEF GetQueued
    <3> HIDE DEF e, v
    <3>4. QueueTyped'
      <4>1. IsFiniteSet(queue') /\ Cardinality(queue') <= Cardinality(queue) + 1
        <5>1. /\ IsFiniteSet(queue \cup {e})
              /\ Cardinality(queue \cup {e}) =
                   IF e \in queue THEN Cardinality(queue) ELSE Cardinality(queue) + 1
          BY <1>2, FS_AddElement, Zenon DEF QueueTyped
        <5> QED BY <3>1, <3>3, <5>1
      <4>2. Cardinality(queue') \in Nat
        BY <4>1, FS_CardinalityType
      <4> QED BY <1>2, <3>1, <3>2, <3>3, <4>1, <4>2 DEF QueueTyped, EncoderConstants
    <3>5. InQueue' = InQueue \cup {q}
      BY <3>2, <3>3 DEF InQueue
    <3>6. q \notin InQueue /\ running # q /\ q # None
      BY <1>2, <3>3, EncoderConstants DEF QueueIs, EncoderConstants
    <3>7. \A f \in queue : f.query # q
      BY <3>6 DEF InQueue
    <3>8. \A f, h \in queue' : f.query = h.query => f = h
      BY <1>2, <3>2, <3>3, <3>7 DEF QueueIs
    <3>9. QueueIs'
      BY <1>2, <1>3, <3>3, <3>5, <3>6, <3>8 DEF QueueIs
    <3> QED BY <1>4, <2>1, <2>2, <3>3, <3>4, <3>9 DEF LoopTyped
  <2> QED BY <1>6, <2>3, <2>4
<1> QED BY <1>5, <1>6 DEF Get

LEMMA WorkGoesOn ==
  ASSUME EncoderConstants, EncoderInv, Work
  PROVE  EncoderInv'
<1> USE DEF EncoderInv
<1>1. PICK e \in queue : queue' = Behind(e) /\ running' = e.query /\ opQuery' = e.query
  BY DEF Work
<1>2. /\ worker = "wait" /\ worker' = "run" /\ op = "none" /\ op' = "begin"
      /\ UNCHANGED <<cache, pending, caller, result, process, buffer, child, stopping, closing>>
  BY DEF Work
<1>3. QueueTyped /\ QueueIs
  BY QueueOfPending DEF LoopTyped, QueueTyped
<1>4. e \in Entries /\ running = None /\ e.query # None
  BY <1>2, <1>3, EncoderConstants DEF QueueTyped, WorkerKnows, Entries, EncoderConstants
<1> DEFINE S == queue \ {e}
           g == [f \in S |-> IF f.at > e.at THEN [f EXCEPT !.at = @ - 1] ELSE f]
<1>5. g \in [S -> Entries] /\ \A f \in S : g[f].query = f.query
  BY <1>3, <1>4 DEF QueueTyped, Entries
<1>6. queue' = {g[f] : f \in S}
  BY <1>1 DEF Behind
<1>7. /\ QueueTyped' /\ InQueue' = {f.query : f \in S}
      /\ \A f, h \in queue' : f.query = h.query => f = h
  <2>1. S \in SUBSET queue
    OBVIOUS
  <2> HIDE DEF S, g
  <2> QED BY <1>3, <1>5, <1>6, <2>1, QueueMoves
<1> HIDE DEF g
<1>8. InQueue' = InQueue \ {e.query}
  BY <1>3, <1>7 DEF InQueue, QueueIs
<1>9. QueueIs'
  BY <1>1, <1>2, <1>3, <1>4, <1>7, <1>8 DEF QueueIs, InQueue
<1>10. PendingIsWorked'
  <2>1. \A c \in Callers : caller'[c].step = "waits" => caller'[c].query \in pending'
    BY <1>2 DEF PendingIsWorked
  <2> QED BY <1>9, <2>1 DEF PendingIsWorked, QueueIs, InQueue
<1>11. LoopTyped'
  BY <1>1, <1>2, <1>4, <1>7 DEF LoopTyped, QueueTyped, Entries
<1>12. ThreadTyped' /\ ClosingTyped' /\ VectorOfItsQuery'
  BY <1>1, <1>2, <1>4 DEF ThreadTyped, ClosingTyped, VectorOfItsQuery, Ops, Entries
<1>13. Pipe' /\ ThreadKnows' /\ WorkerKnows'
  BY <1>1, <1>2, <1>4 DEF Pipe, Reading, ThreadKnows, WorkerKnows, Closed, Entries
<1> QED BY <1>10, <1>11, <1>12, <1>13

(* Those who wait for qs have v, or an error; the others are as they were. *)
LEMMA Settled ==
  ASSUME EncoderConstants, EncoderInv, NEW qs, NEW v \in Queries \cup {Failure}, Settle(qs, v),
         v # Failure => qs = {v}
  PROVE  /\ caller' \in [Callers -> CallerStates]
         /\ \A c \in Callers : caller'[c].step = "got" => caller'[c].vector = caller'[c].query
         /\ \A c \in Callers : caller'[c].step = "waits" =>
               caller'[c].query \in pending /\ caller'[c].query \notin qs
<1> USE DEF EncoderInv
<1>1. ASSUME NEW c \in Callers
      PROVE  /\ caller'[c] \in CallerStates
             /\ caller'[c].step = "got" => caller'[c].vector = caller'[c].query
             /\ caller'[c].step = "waits" =>
                  caller'[c].query \in pending /\ caller'[c].query \notin qs
  <2>1. caller[c] \in CallerStates
    BY DEF LoopTyped
  <2>2. /\ caller[c].step = "got" => caller[c].vector = caller[c].query
        /\ caller[c].step = "waits" => caller[c].query \in pending
    BY DEF VectorOfItsQuery, PendingIsWorked
  <2>3. CASE caller[c].step = "waits" /\ caller[c].query \in qs /\ v = Failure
    <3>1. caller'[c] = Idle
      BY <2>3 DEF Settle
    <3> QED BY <3>1 DEF Idle, CallerStates
  <2>4. CASE caller[c].step = "waits" /\ caller[c].query \in qs /\ v # Failure
    <3>1. caller'[c] = [caller[c] EXCEPT !.step = "got", !.vector = v]
      BY <2>4 DEF Settle
    <3> QED BY <2>1, <2>4, <3>1 DEF CallerStates
  <2>5. CASE ~(caller[c].step = "waits" /\ caller[c].query \in qs)
    <3>1. caller'[c] = caller[c]
      BY <2>5 DEF Settle
    <3> QED BY <2>1, <2>2, <2>5, <3>1
  <2> QED BY <2>3, <2>4, <2>5
<1>2. caller' = [c \in Callers |-> caller'[c]]
  BY DEF Settle
<1> QED BY <1>1, <1>2

(* The cache: a new vector, and perhaps an old one less. *)
LEMMA Remembered ==
  ASSUME EncoderInv, NEW q \in Queries, Remember(q, q)
  PROVE  /\ cache' \in [Queries -> Queries \cup {None}]
         /\ \A r \in Queries : cache'[r] \in {r, None}
<1>1. CASE cache' = [cache EXCEPT ![q] = q]
  BY <1>1 DEF EncoderInv, LoopTyped, VectorOfItsQuery
<1>2. CASE \E old \in Cached \ {q} : cache' = [cache EXCEPT ![q] = q, ![old] = None]
  BY <1>2 DEF EncoderInv, LoopTyped, VectorOfItsQuery, Cached
<1> QED BY <1>1, <1>2 DEF Remember

LEMMA WorkedGoesOn ==
  ASSUME EncoderConstants, EncoderInv, Worked
  PROVE  EncoderInv'
<1> USE DEF EncoderInv
<1>1. /\ worker = "run" /\ op = "over" /\ Settle({running}, result)
      /\ pending' = pending \ {running} /\ worker' = "wait" /\ running' = None /\ op' = "none"
      /\ opQuery' = None
      /\ UNCHANGED <<queue, process, buffer, child, stopping, closing>>
  BY DEF Worked, Forgotten
<1>2. running \in Queries /\ running = opQuery /\ result \in {Failure, running} /\ ~Closed
  BY <1>1, EncoderConstants DEF WorkerKnows, ThreadKnows, EncoderConstants
<1>3. result # Failure => {running} = {result}
  BY <1>2
<1>4. /\ caller' \in [Callers -> CallerStates]
      /\ \A c \in Callers : caller'[c].step = "got" => caller'[c].vector = caller'[c].query
      /\ \A c \in Callers : caller'[c].step = "waits" =>
            caller'[c].query \in pending /\ caller'[c].query \notin {running}
  BY <1>1, <1>2, <1>3, Settled
<1>5. /\ cache' \in [Queries -> Queries \cup {None}]
      /\ \A r \in Queries : cache'[r] \in {r, None}
  <2>1. CASE result = Failure
    BY <2>1 DEF Worked, LoopTyped, VectorOfItsQuery
  <2>2. CASE result # Failure
    <3>1. Remember(running, running)
      BY <1>2, <2>2 DEF Worked
    <3> QED BY <1>2, <3>1, Remembered
  <2> QED BY <2>1, <2>2
<1>6. PendingIsWorked'
  <2>1. QueueIs /\ running # None /\ None \notin InQueue
    BY <1>2, QueueOfPending, EncoderConstants DEF EncoderConstants, LoopTyped, InQueue, Entries
  <2>2. InQueue' = InQueue
    BY <1>1 DEF InQueue
  <2>3. QueueIs'
    BY <1>1, <2>1, <2>2 DEF QueueIs
  <2>4. \A c \in Callers : caller'[c].step = "waits" => caller'[c].query \in pending'
    BY <1>1, <1>4
  <2> QED BY <2>3, <2>4 DEF PendingIsWorked, QueueIs, InQueue
<1>7. LoopTyped' /\ ThreadTyped' /\ ClosingTyped' /\ VectorOfItsQuery'
  BY <1>1, <1>4, <1>5 DEF LoopTyped, ThreadTyped, ClosingTyped, VectorOfItsQuery, Ops
<1>8. Pipe' /\ ThreadKnows' /\ WorkerKnows'
  BY <1>1, <1>2 DEF Pipe, Reading, ThreadKnows, WorkerKnows, Closed
<1> QED BY <1>6, <1>7, <1>8

LEMMA CloseGoesOn ==
  ASSUME EncoderConstants, EncoderInv, Close
  PROVE  EncoderInv'
<1> USE DEF EncoderInv
<1>1. /\ Settle(pending, Failure) /\ pending' = {} /\ queue' = {} /\ worker' = "gone"
      /\ running' = None /\ closing' = "stop" /\ UNCHANGED <<cache, threadVars, stopping>>
  BY DEF Close
<1>2. /\ caller' \in [Callers -> CallerStates]
      /\ \A c \in Callers : caller'[c].step = "got" => caller'[c].vector = caller'[c].query
      /\ \A c \in Callers : caller'[c].step # "waits"
  <2>1. Failure \in Queries \cup {Failure}
    OBVIOUS
  <2> QED BY <1>1, <2>1, Settled
<1>3. LoopTyped' /\ PendingIsWorked' /\ VectorOfItsQuery'
  <2>1. IsFiniteSet({}) /\ Cardinality({}) = 0
    BY FS_EmptySet
  <2> QED BY <1>1, <1>2, <2>1, EncoderConstants
        DEF LoopTyped, PendingIsWorked, VectorOfItsQuery, EncoderConstants
<1>4. ThreadTyped' /\ ClosingTyped' /\ Pipe' /\ ThreadKnows' /\ WorkerKnows'
  BY <1>1 DEF threadVars, ThreadTyped, ClosingTyped, Pipe, OnTheWay, Expected, Reading,
              ThreadKnows, WorkerKnows, Closed
<1> QED BY <1>3, <1>4

LEMMA LoopGoesOn ==
  ASSUME EncoderConstants, EncoderInv, Loop
  PROVE  EncoderInv'
<1>1. CASE Started
  <2> USE DEF EncoderInv
  <2>1. LoopTyped' /\ ThreadTyped' /\ ClosingTyped' /\ VectorOfItsQuery' /\ PendingIsWorked'
    BY <1>1 DEF Started, LoopTyped, ThreadTyped, ClosingTyped, VectorOfItsQuery,
                PendingIsWorked, Ops
  <2> QED BY <1>1, <2>1 DEF Started, Pipe, Reading, ThreadKnows, WorkerKnows, Closed
<1>2. ASSUME NEW c \in Callers, GiveUp(c) PROVE EncoderInv'
  <2>1. Idle \in CallerStates /\ Idle.step = "idle"
    BY DEF Idle, CallerStates
  <2>2. /\ caller' = [caller EXCEPT ![c] = Idle]
        /\ UNCHANGED <<cache, pending, queue, worker, running, threadVars, stopping, closing>>
    BY <1>2 DEF GiveUp
  <2>3. ThreadTyped' /\ ClosingTyped' /\ Pipe' /\ ThreadKnows' /\ WorkerKnows'
    BY <2>2, LoopLeavesThread DEF EncoderInv, WorkerKnows
  <2>4. /\ caller' \in [Callers -> CallerStates]
        /\ VectorOfItsQuery'
        /\ \A d \in Callers : caller'[d].step = "waits" => caller'[d].query \in pending'
    BY <2>1, <2>2, CallerMoves
  <2>5. LoopTyped' /\ PendingIsWorked'
    BY <2>2, <2>4 DEF EncoderInv, LoopTyped, PendingIsWorked
  <2> QED BY <2>3, <2>4, <2>5 DEF EncoderInv
<1> QED BY <1>1, <1>2, GetGoesOn, WorkGoesOn, WorkedGoesOn, CloseGoesOn DEF Loop

LEMMA EncoderStep ==
  ASSUME EncoderConstants, EncoderInv, [Next]_vars
  PROVE  EncoderInv'
<1>1. CASE UNCHANGED vars
  <2>1. LoopTyped' /\ ClosingTyped' /\ VectorOfItsQuery' /\ PendingIsWorked'
    BY <1>1 DEF EncoderInv, vars, loopVars, LoopTyped, ClosingTyped, VectorOfItsQuery,
                PendingIsWorked
  <2>2. ThreadTyped' /\ Pipe' /\ ThreadKnows' /\ WorkerKnows'
    BY <1>1 DEF EncoderInv, vars, loopVars, threadVars, ThreadTyped, Pipe, OnTheWay, Expected,
                Reading, ThreadKnows, WorkerKnows, Closed
  <2> QED BY <2>1, <2>2 DEF EncoderInv
<1>2. CASE Thread
  <2>1. ThreadFrame
    BY <1>2 DEF Thread, Begin, Verify, Popen, Receive, Answered, Write, ReadFails, Fails
  <2> QED BY <1>2, <2>1, ThreadGoesOn, ThreadLeavesLoop DEF EncoderInv
<1> QED BY <1>1, <1>2, LoopGoesOn, ShutdownGoesOn, ChildGoesOn DEF Next

(* For any callers, queries and children, and however often the child *)
(* dies, is slow or is ended: no vector goes to another query's callers or *)
(* into its place in the cache, and every future is queued once or being *)
(* worked on (Encoder.encode, _read_response, SharedEmbedding.get, _work). *)
THEOREM VectorsAreOfTheirQueries ==
  ASSUME EncoderConstants
  PROVE  Spec => []EncoderIsSafe
<1>1. Init => EncoderInv
  BY EncoderStarts
<1>2. EncoderInv /\ [Next]_vars => EncoderInv'
  BY EncoderStep
<1>3. EncoderInv => EncoderIsSafe
  BY DEF EncoderInv, EncoderIsSafe
<1> QED BY <1>1, <1>2, <1>3, PTL DEF Spec

(* The encoder keeps to its types, and its queue to its size. *)
THEOREM EncoderTypes ==
  ASSUME EncoderConstants
  PROVE  Spec => []TypeOK
<1>1. Init => EncoderInv
  BY EncoderStarts
<1>2. EncoderInv /\ [Next]_vars => EncoderInv'
  BY EncoderStep
<1>3. EncoderInv => TypeOK
  BY DEF EncoderInv, LoopTyped, ThreadTyped, ClosingTyped, TypeOK, Entries
<1> QED BY <1>1, <1>2, <1>3, PTL DEF Spec

-----------------------------------------------------------------------------
(* The slots of the searches. *)

RunningSearches == {r \in Requests : Running(r)}
RunningProfiles == {r \in Requests : Running(r) /\ Profile(r)}

HoldsSlot(x) == x.stage \in {"ranking", "saving"}
One(condition) == IF condition THEN 1 ELSE 0

(* A request keeps its fields; only the Console's searches are recorded. *)
RequestGood(x) ==
  /\ DOMAIN x = DOMAIN Unsent
  /\ x.stage \in Stages /\ x.source \in {"qa", "chat", "profile"}
  /\ x.stage = "saving" => x.source = "qa"

SlotsInv ==
  /\ request = [r \in Requests |-> request[r]]
  /\ \A r \in Requests : RequestGood(request[r])
  /\ active \in Nat /\ activeProfile \in Nat
  /\ IsFiniteSet(RunningSearches)
  /\ SlotsAreExact

LEMMA CountsOne ==
  ASSUME NEW S, IsFiniteSet(S), NEW T, NEW x, T \ {x} = S \ {x}
  PROVE  /\ IsFiniteSet(T)
         /\ Cardinality(T) = Cardinality(S) + One(x \in T) - One(x \in S)
<1>0. Cardinality(S) \in Nat
  BY FS_CardinalityType
<1>1. CASE x \in S /\ x \in T
  <2>1. T = S
    BY <1>1
  <2> QED BY <1>0, <1>1, <2>1 DEF One
<1>2. CASE x \in S /\ x \notin T
  <2>1. T = S \ {x}
    BY <1>2
  <2> QED BY <1>0, <1>2, <2>1, FS_RemoveElement DEF One
<1>3. CASE x \notin S /\ x \in T
  <2>1. T = S \cup {x}
    BY <1>3
  <2> QED BY <1>0, <1>3, <2>1, FS_AddElement DEF One
<1>4. CASE x \notin S /\ x \notin T
  <2>1. T = S
    BY <1>4
  <2> QED BY <1>0, <1>4, <2>1 DEF One
<1> QED BY <1>1, <1>2, <1>3, <1>4

(* One request goes on as x, and the counters follow it. *)
LEMMA SlotMoves ==
  ASSUME SlotsInv, NEW r \in Requests, NEW x, RequestGood(x),
         request' = [request EXCEPT ![r] = x],
         active' = active + One(HoldsSlot(x)) - One(Running(r)),
         activeProfile' = activeProfile + One(HoldsSlot(x) /\ x.source = "profile")
                                        - One(Running(r) /\ Profile(r)),
         active' <= MaxActive, activeProfile' <= MaxProfile
  PROVE  SlotsInv'
<1>1. /\ request' = [s \in Requests |-> request'[s]]
      /\ \A s \in Requests : RequestGood(request'[s])
  BY DEF SlotsInv
<1>2. /\ RunningSearches' \ {r} = RunningSearches \ {r}
      /\ r \in RunningSearches' <=> HoldsSlot(x)
      /\ r \in RunningSearches <=> Running(r)
  BY DEF SlotsInv, RunningSearches, Running, In, HoldsSlot
<1>3. /\ RunningProfiles' \ {r} = RunningProfiles \ {r}
      /\ r \in RunningProfiles' <=> HoldsSlot(x) /\ x.source = "profile"
      /\ r \in RunningProfiles <=> Running(r) /\ Profile(r)
  BY DEF SlotsInv, RunningProfiles, Running, In, HoldsSlot, Profile
<1>4. IsFiniteSet(RunningProfiles)
  BY FS_Subset DEF SlotsInv, RunningProfiles, RunningSearches
<1>5. /\ IsFiniteSet(RunningSearches')
      /\ Cardinality(RunningSearches') = active'
  <2>1. /\ IsFiniteSet(RunningSearches')
        /\ Cardinality(RunningSearches')
             = Cardinality(RunningSearches) + One(r \in RunningSearches') - One(r \in RunningSearches)
    <3>1. IsFiniteSet(RunningSearches) /\ RunningSearches' \ {r} = RunningSearches \ {r}
      BY <1>2 DEF SlotsInv
    <3> HIDE DEF RunningSearches
    <3> QED BY ONLY <3>1, CountsOne
  <2>2. active = Cardinality(RunningSearches)
    BY DEF SlotsInv, SlotsAreExact, RunningSearches
  <2>3. /\ One(r \in RunningSearches') = One(HoldsSlot(x))
        /\ One(r \in RunningSearches) = One(Running(r))
    BY <1>2 DEF One
  <2> QED BY <2>1, <2>2, <2>3
<1>6. /\ IsFiniteSet(RunningProfiles')
      /\ Cardinality(RunningProfiles') = activeProfile'
  <2>1. /\ IsFiniteSet(RunningProfiles')
        /\ Cardinality(RunningProfiles')
             = Cardinality(RunningProfiles) + One(r \in RunningProfiles') - One(r \in RunningProfiles)
    <3>1. IsFiniteSet(RunningProfiles) /\ RunningProfiles' \ {r} = RunningProfiles \ {r}
      BY <1>3, <1>4 DEF SlotsInv
    <3> HIDE DEF RunningProfiles
    <3> QED BY ONLY <3>1, CountsOne
  <2>2. activeProfile = Cardinality(RunningProfiles)
    BY DEF SlotsInv, SlotsAreExact, RunningProfiles
  <2>3. /\ One(r \in RunningProfiles') = One(HoldsSlot(x) /\ x.source = "profile")
        /\ One(r \in RunningProfiles) = One(Running(r) /\ Profile(r))
    BY <1>3, <1>4 DEF One
  <2> QED BY <2>1, <2>2, <2>3
<1>7. active' \in Nat /\ activeProfile' \in Nat
  BY <1>5, <1>6, FS_CardinalityType
<1> QED BY <1>1, <1>5, <1>6, <1>7 DEF SlotsInv, SlotsAreExact, RunningSearches, RunningProfiles

(* Most steps leave the counters alone. *)
LEMMA SlotStays ==
  ASSUME SlotsInv, NEW r \in Requests, NEW x, RequestGood(x),
         request' = [request EXCEPT ![r] = x], UNCHANGED <<active, activeProfile>>,
         HoldsSlot(x) <=> Running(r), Running(r) => x.source = request[r].source
  PROVE  SlotsInv'
<1>1. /\ active' = active + One(HoldsSlot(x)) - One(Running(r))
      /\ activeProfile' = activeProfile + One(HoldsSlot(x) /\ x.source = "profile")
                                        - One(Running(r) /\ Profile(r))
  BY DEF SlotsInv, One, Profile
<1>2. active' <= MaxActive /\ activeProfile' <= MaxProfile
  BY DEF SlotsInv, SlotsAreExact
<1> QED BY <1>1, <1>2, SlotMoves

LEMMA SlotsStep ==
  ASSUME SearchRequestsAssumption, SlotsInv, [SearchNext]_searchVars
  PROVE  SlotsInv'
<1> USE DEF RequestGood, HoldsSlot, In, Stages
<1>1. CASE UNCHANGED <<request, active, activeProfile>>
  BY <1>1 DEF SlotsInv, SlotsAreExact, RunningSearches, Running, Profile
<1>2. ASSUME NEW r \in Requests, NEW source \in {"qa", "chat", "profile"},
             NEW query \in Wordings, Arrive(r, source, query)
      PROVE  SlotsInv'
  <2> DEFINE x == [Unsent EXCEPT !.stage = "arrived", !.source = source, !.query = query,
                                 !.before = tombstones]
  <2>1. RequestGood(x) /\ ~HoldsSlot(x)
    BY DEF Unsent
  <2>2. /\ ~Running(r) /\ request' = [request EXCEPT ![r] = x]
        /\ UNCHANGED <<active, activeProfile>>
    BY <1>2 DEF Arrive, Running
  <2> HIDE DEF x
  <2> QED BY <2>1, <2>2, SlotStays
<1>3. ASSUME NEW r \in Requests, NEW s \in Requests, Continue(r, s)
      PROVE  SlotsInv'
  <2> DEFINE x == [Unsent EXCEPT
           !.stage = "arrived", !.source = request[s].source, !.query = request[s].query,
           !.of = s, !.pin = request[s].generation, !.offset = request[s].result.next,
           !.before = tombstones]
  <2>1. RequestGood(x) /\ ~HoldsSlot(x)
    BY DEF Unsent, SlotsInv
  <2>2. /\ ~Running(r) /\ request' = [request EXCEPT ![r] = x]
        /\ UNCHANGED <<active, activeProfile>>
    BY <1>3 DEF Continue, Running
  <2> HIDE DEF x
  <2> QED BY <2>1, <2>2, SlotStays
<1>4. ASSUME NEW r \in Requests, Overlay(r) PROVE SlotsInv'
  <2> DEFINE x == [request[r] EXCEPT !.stage = "overlaid", !.denied = tombstones]
  <2>1. RequestGood(x) /\ ~HoldsSlot(x)
    BY DEF Unsent, SlotsInv
  <2>2. /\ ~Running(r) /\ request' = [request EXCEPT ![r] = x]
        /\ UNCHANGED <<active, activeProfile>>
    BY <1>4 DEF Overlay, Running, SlotsInv
  <2> HIDE DEF x
  <2> QED BY <2>1, <2>2, SlotStays
<1>5. ASSUME NEW r \in Requests, NotReady(r) \/ Refuse(r) PROVE SlotsInv'
  <2> DEFINE x == [Unsent EXCEPT !.stage = "refused"]
  <2>1. RequestGood(x) /\ ~HoldsSlot(x)
    BY DEF Unsent
  <2>2. /\ ~Running(r) /\ request' = [request EXCEPT ![r] = x]
        /\ UNCHANGED <<active, activeProfile>>
    BY <1>5 DEF NotReady, Refuse, Refusal, Running
  <2> HIDE DEF x
  <2> QED BY <2>1, <2>2, SlotStays
<1>6. ASSUME NEW r \in Requests, Hit(r) PROVE SlotsInv'
  <2> DEFINE goesTo == IF request[r].source = "qa" THEN "saving" ELSE "answered"
  <2>1. PICK i \in CachedAt(r) :
          request' = [request EXCEPT ![r].stage = goesTo, ![r].generation = serving,
                                     ![r].result = caches[serving][i].result]
    BY <1>6 DEF Hit
  <2> DEFINE page == caches[serving][i].result
             x == [request[r] EXCEPT !.stage = goesTo, !.generation = serving, !.result = page]
  <2> HIDE DEF page
  <2>2. /\ x.source = request[r].source /\ x.stage = goesTo /\ DOMAIN x = DOMAIN Unsent
    BY DEF SlotsInv, Unsent
  <2>3. RequestGood(x)
    BY <2>2 DEF SlotsInv
  <2>4. request' = [request EXCEPT ![r] = x]
    BY <2>1 DEF SlotsInv, page
  <2>5. /\ ~Running(r) /\ ~Refused(r) /\ UNCHANGED activeProfile
        /\ active' = active + One(request[r].source = "qa")
    BY <1>6 DEF Hit, Running, One
  <2>6. HoldsSlot(x) <=> request[r].source = "qa"
    BY <2>2
  <2> HIDE DEF x
  <2>7. /\ active' = active + One(HoldsSlot(x)) - One(Running(r))
        /\ activeProfile' = activeProfile + One(HoldsSlot(x) /\ x.source = "profile")
                                          - One(Running(r) /\ Profile(r))
    BY <2>2, <2>5, <2>6 DEF One, SlotsInv
  <2>8. active' <= MaxActive /\ activeProfile' <= MaxProfile
    BY <2>5, SearchRequestsAssumption
       DEF Refused, Busy, One, SlotsInv, SlotsAreExact, SearchRequestsAssumption
  <2> QED BY <2>3, <2>4, <2>7, <2>8, SlotMoves
<1>7. ASSUME NEW r \in Requests, Miss(r) PROVE SlotsInv'
  <2> DEFINE x == [request[r] EXCEPT !.stage = "ranking", !.generation = serving]
  <2>1. /\ RequestGood(x) /\ HoldsSlot(x) /\ x.source = request[r].source
    BY DEF SlotsInv, Unsent
  <2>2. request' = [request EXCEPT ![r] = x]
    BY <1>7 DEF SlotsInv, Miss
  <2>3. /\ ~Running(r) /\ ~Refused(r)
        /\ active' = active + 1 /\ activeProfile' = activeProfile + One(Profile(r))
    BY <1>7 DEF Miss, Running, One
  <2> HIDE DEF x
  <2>4. /\ active' = active + One(HoldsSlot(x)) - One(Running(r))
        /\ activeProfile' = activeProfile + One(HoldsSlot(x) /\ x.source = "profile")
                                          - One(Running(r) /\ Profile(r))
    BY <2>1, <2>3 DEF One, SlotsInv, Profile
  <2>5. active' <= MaxActive /\ activeProfile' <= MaxProfile
    BY <2>3, SearchRequestsAssumption
       DEF Refused, Busy, One, SlotsInv, SlotsAreExact, SearchRequestsAssumption
  <2> QED BY <2>1, <2>2, <2>4, <2>5, SlotMoves
<1>8. ASSUME NEW r \in Requests, NEW x, RequestGood(x), ~HoldsSlot(x), Running(r),
             request' = [request EXCEPT ![r] = x], ReleaseSlot(r)
      PROVE  SlotsInv'
  <2>1. /\ active' = active + One(HoldsSlot(x)) - One(Running(r))
        /\ activeProfile' = activeProfile + One(HoldsSlot(x) /\ x.source = "profile")
                                          - One(Running(r) /\ Profile(r))
    BY <1>8 DEF One, SlotsInv, ReleaseSlot
  <2>2. active' <= MaxActive /\ activeProfile' <= MaxProfile
    BY <1>8, SearchRequestsAssumption
       DEF ReleaseSlot, SlotsInv, SlotsAreExact, SearchRequestsAssumption
  <2> QED BY <1>8, <2>1, <2>2, SlotMoves
<1>9. ASSUME NEW r \in Requests, Rank(r) PROVE SlotsInv'
  <2> DEFINE goesTo == IF request[r].source = "qa" THEN "saving" ELSE "answered"
             page == Page(r)
             x == [request[r] EXCEPT !.stage = goesTo, !.result = page]
  <2> HIDE DEF page
  <2>1. x.source = request[r].source /\ x.stage = goesTo /\ DOMAIN x = DOMAIN Unsent
    BY DEF SlotsInv, Unsent
  <2>2. RequestGood(x)
    BY <2>1 DEF SlotsInv
  <2>3. request' = [request EXCEPT ![r] = x]
    BY <1>9 DEF SlotsInv, Rank, page
  <2>4. Running(r)
    BY <1>9 DEF Rank, Running
  <2>5. CASE request[r].source = "qa"
    <3>1. UNCHANGED <<active, activeProfile>> /\ HoldsSlot(x)
      BY <1>9, <2>1, <2>5 DEF Rank
    <3> HIDE DEF x
    <3> QED BY <2>1, <2>2, <2>3, <2>4, <3>1, SlotStays
  <2>6. CASE request[r].source # "qa"
    <3>1. ReleaseSlot(r) /\ ~HoldsSlot(x)
      BY <1>9, <2>1, <2>6 DEF Rank
    <3> HIDE DEF x
    <3> QED BY <1>8, <2>2, <2>3, <2>4, <3>1
  <2> QED BY <2>5, <2>6
<1>10. ASSUME NEW r \in Requests, Fail(r) PROVE SlotsInv'
  <2> DEFINE x == [Unsent EXCEPT !.stage = "refused"]
  <2>1. RequestGood(x) /\ ~HoldsSlot(x)
    BY DEF Unsent
  <2>2. Running(r) /\ request' = [request EXCEPT ![r] = x] /\ ReleaseSlot(r)
    BY <1>10 DEF Fail, Refusal, Running, ReleaseFailed
  <2> HIDE DEF x
  <2> QED BY <1>8, <2>1, <2>2
<1>11. ASSUME NEW r \in Requests, Recorded(r) PROVE SlotsInv'
  <2> DEFINE x == [request[r] EXCEPT !.stage = "answered"]
  <2>1. RequestGood(x) /\ ~HoldsSlot(x)
    BY DEF Unsent, SlotsInv
  <2>2. Running(r) /\ request' = [request EXCEPT ![r] = x] /\ ReleaseSlot(r)
    BY <1>11 DEF Recorded, Running, SlotsInv
  <2> HIDE DEF x
  <2> QED BY <1>8, <2>1, <2>2
<1>12. CASE \/ \E p \in Products : ConfirmDeletion(p)
            \/ \E g \in Generations : Publish(g)
  BY <1>1, <1>12 DEF ConfirmDeletion, Publish
<1> QED
  BY <1>1, <1>2, <1>3, <1>4, <1>5, <1>6, <1>7, <1>9, <1>10, <1>11, <1>12
     DEF SearchNext, searchVars

LEMMA SlotsStart ==
  ASSUME SearchRequestsAssumption, SearchInit
  PROVE  SlotsInv
<1>1. RunningSearches = {} /\ RunningProfiles = {}
  BY DEF SearchInit, RunningSearches, RunningProfiles, Running, In, Unsent
<1>2. \A r \in Requests : RequestGood(request[r])
  BY DEF SearchInit, RequestGood, Unsent, Stages
<1>3. active = 0 /\ activeProfile = 0 /\ request = [r \in Requests |-> request[r]]
  BY DEF SearchInit
<1>4. active <= MaxActive /\ activeProfile <= MaxProfile
  BY <1>3, SearchRequestsAssumption DEF SearchRequestsAssumption
<1> QED BY <1>1, <1>2, <1>3, <1>4, FS_EmptySet
        DEF SlotsInv, SlotsAreExact, RunningSearches, RunningProfiles

(* For any number of requests and any bounds: every search that runs holds *)
(* one slot and every one that ended, was refused, failed, hit the cache *)
(* or was recorded gave it back, and the searches stay within both bounds *)
(* (app.py execute_search). *)
THEOREM SlotsStayExact ==
  ASSUME SearchRequestsAssumption
  PROVE  SearchSpec => []SlotsAreExact
<1>1. SearchInit => SlotsInv
  BY SlotsStart
<1>2. SlotsInv /\ [SearchNext]_searchVars => SlotsInv'
  BY SlotsStep
<1>3. SlotsInv => SlotsAreExact
  BY DEF SlotsInv
<1> QED BY <1>1, <1>2, <1>3, PTL DEF SearchSpec

-----------------------------------------------------------------------------
(* The pages of the searches. *)

(* The order of a query, and the page that starts at o and ends at last. *)
Order(q, g, d) == Ranked[q][g][d]
Stretch(q, g, d, o, last) ==
  [hits |-> SubSeq(Order(q, g, d), o + 1, last),
   next |-> IF last < Len(Order(q, g, d)) THEN last ELSE 0]
LastOf(last, q, g, d, o) ==
  last = Len(Order(q, g, d)) \/ (last = o + Limit /\ o + Limit < Len(Order(q, g, d)))

(* A page is a stretch of the order, and says where the next one begins. *)
LEMMA PageFacts ==
  ASSUME SearchRequestsAssumption, NEW q \in Wordings, NEW g \in Generations,
         NEW d \in SUBSET Products, NEW o \in Nat
  PROVE  /\ Order(q, g, d) \in Seq(Products \ d) /\ IsInjective(Order(q, g, d))
         /\ \E last \in 0..Len(Order(q, g, d)) :
              LastOf(last, q, g, d, o) /\ PageAt(q, g, d, o) = Stretch(q, g, d, o, last)
<1> DEFINE all == Order(q, g, d)
           last == Min({Len(all), o + Limit})
<1>1. all \in Seq(Products \ d) /\ IsInjective(all)
  BY SearchRequestsAssumption DEF SearchRequestsAssumption, Order
<1>2. Limit \in Nat \ {0}
  BY SearchRequestsAssumption DEF SearchRequestsAssumption
<1>3. \A a, b \in Nat : Min({a, b}) = IF a <= b THEN a ELSE b
  <2> SUFFICES ASSUME NEW a \in Nat, NEW b \in Nat
               PROVE  Min({a, b}) = IF a <= b THEN a ELSE b
    OBVIOUS
  <2> DEFINE m == IF a <= b THEN a ELSE b
  <2>1. m \in {a, b} /\ \A y \in {a, b} : m =< y
    OBVIOUS
  <2>2. \A n \in {a, b} : (\A y \in {a, b} : n =< y) => n = m
    BY <2>1
  <2> QED BY <2>1, <2>2 DEF Min
<1>4. Len(all) \in Nat
  BY <1>1
<1>5. last = IF Len(all) <= o + Limit THEN Len(all) ELSE o + Limit
  BY <1>2, <1>3, <1>4
<1>6. last \in 0..Len(all) /\ (last = Len(all) \/ (last = o + Limit /\ o + Limit < Len(all)))
  <2> HIDE DEF last
  <2>1. o + Limit \in Nat
    BY <1>2
  <2>2. CASE Len(all) <= o + Limit
    BY <1>4, <1>5, <2>2
  <2>3. CASE ~(Len(all) <= o + Limit)
    <3>1. last = o + Limit /\ o + Limit < Len(all)
      BY <1>4, <1>5, <2>1, <2>3
    <3> QED BY <1>4, <2>1, <3>1
  <2> QED BY <2>2, <2>3
<1>7. PageAt(q, g, d, o) = Stretch(q, g, d, o, last)
  BY DEF PageAt, Stretch, Order
<1> HIDE DEF last
<1> QED BY <1>1, <1>6, <1>7 DEF LastOf

LEMMA PageNext ==
  ASSUME SearchRequestsAssumption, NEW q \in Wordings, NEW g \in Generations,
         NEW d \in SUBSET Products, NEW o \in Nat
  PROVE  PageAt(q, g, d, o).next \in Nat
<1>1. PICK last \in 0..Len(Order(q, g, d)) :
        LastOf(last, q, g, d, o) /\ PageAt(q, g, d, o) = Stretch(q, g, d, o, last)
  BY PageFacts
<1>2. PageAt(q, g, d, o).next = IF last < Len(Order(q, g, d)) THEN last ELSE 0
  BY <1>1 DEF Stretch
<1> QED BY <1>2

Keys == [query : Wordings, offset : Nat, denied : SUBSET Products]
PageOf(k, g) == PageAt(k.query, g, k.denied, k.offset)
CacheEntries(g) == {[key |-> k, result |-> PageOf(k, g)] : k \in Keys}

(* What is known of a request x while `deleted` are the products whose *)
(* deletion is confirmed and `all` are the requests. *)
Sent(x) == x.stage \notin {"new", "refused"}
Overlaid(x) == x.stage \in {"overlaid", "ranking", "saving", "answered"}
Found(x) == x.stage \in {"ranking", "saving", "answered"}
HasPage(x) == x.stage \in {"saving", "answered"}

PageGood(x, deleted, all) ==
  /\ DOMAIN x = DOMAIN Unsent /\ x.stage \in Stages
  /\ ~Sent(x) => x.of = NoRequest
  /\ Sent(x) => /\ x.query \in Wordings /\ x.offset \in Nat
                /\ x.before \subseteq deleted /\ x.pin \in {0} \cup Generations
  /\ Overlaid(x) => x.before \subseteq x.denied /\ x.denied \subseteq deleted
  /\ Found(x) => x.generation \in Generations /\ x.pin \in {0, x.generation}
  /\ HasPage(x) => x.result = PageAt(x.query, x.generation, x.denied, x.offset)
  /\ x.of # NoRequest =>
       /\ x.of \in Requests
       /\ LET y == all[x.of] IN
            /\ y.stage = "answered" /\ y.query = x.query /\ y.generation = x.pin
            /\ y.result.next = x.offset /\ x.offset # 0
            /\ y.denied \subseteq x.before

PagesInv ==
  /\ tombstones \subseteq Products /\ serving \in Generations
  /\ caches \in [Generations -> UNION {Seq(CacheEntries(g)) : g \in Generations}]
  /\ \A g \in Generations : caches[g] \in Seq(CacheEntries(g))
  /\ request = [r \in Requests |-> request[r]]
  /\ \A r \in Requests : PageGood(request[r], tombstones, request)

(* A request that is not answered changes: nobody continues it yet. *)
LEMMA RequestChanges ==
  ASSUME PagesInv, NEW r \in Requests, request[r].stage # "answered", NEW x,
         PageGood(x, tombstones, request), request' = [request EXCEPT ![r] = x]
  PROVE  /\ request' = [s \in Requests |-> request'[s]]
         /\ \A s \in Requests : PageGood(request'[s], tombstones, request')
<1>1. request' = [s \in Requests |-> IF s = r THEN x ELSE request[s]]
  BY DEF PagesInv
<1>2. ASSUME NEW y, PageGood(y, tombstones, request) PROVE PageGood(y, tombstones, request')
  <2>1. y.of # NoRequest => y.of # r /\ request'[y.of] = request[y.of]
    BY <1>1, <1>2 DEF PageGood
  <2> QED BY <1>2, <2>1 DEF PageGood
<1>3. \A s \in Requests : PageGood(request[s], tombstones, request')
  BY <1>2 DEF PagesInv
<1> QED BY <1>1, <1>2, <1>3

(* The caches of the generations keep what they may hold. *)
CachesGood(c) ==
  /\ c \in [Generations -> UNION {Seq(CacheEntries(g)) : g \in Generations}]
  /\ \A g \in Generations : c[g] \in Seq(CacheEntries(g))

LEMMA CacheChanges ==
  ASSUME PagesInv, NEW g \in Generations, NEW c \in Seq(CacheEntries(g))
  PROVE  CachesGood([caches EXCEPT ![g] = c])
BY DEF PagesInv, CachesGood

LEMMA StoredIsGood ==
  ASSUME SearchRequestsAssumption, NEW g, NEW c \in Seq(CacheEntries(g)),
         NEW e \in CacheEntries(g)
  PROVE  Stored(c, e) \in Seq(CacheEntries(g))
<1> DEFINE at == {i \in 1..Len(c) : c[i].key = e.key}
           d == IF at = {} THEN Append(c, e)
                ELSE [i \in 1..Len(c) |-> IF i \in at THEN e ELSE c[i]]
<1>1. Append(c, e) \in Seq(CacheEntries(g))
  BY AppendProperties
<1>2. [i \in 1..Len(c) |-> IF i \in at THEN e ELSE c[i]] \in Seq(CacheEntries(g))
  OBVIOUS
<1>3. d \in Seq(CacheEntries(g))
  BY <1>1, <1>2
<1> HIDE DEF d
<1>4. Len(d) > MaxCache => d # <<>>
  BY <1>3, SearchRequestsAssumption DEF SearchRequestsAssumption
<1>5. d # <<>> => Tail(d) \in Seq(CacheEntries(g))
  BY <1>3, HeadTailProperties
<1> QED BY <1>3, <1>4, <1>5 DEF Stored, d

LEMMA MovedIsGood ==
  ASSUME NEW S, NEW c \in Seq(S), NEW i \in 1..Len(c)
  PROVE  Append(RemoveAt(c, i), c[i]) \in Seq(S)
<1>1. SubSeq(c, 1, i-1) \in Seq(S) /\ SubSeq(c, i+1, Len(c)) \in Seq(S)
  BY SubSeqProperties
<1>2. RemoveAt(c, i) \in Seq(S)
  BY <1>1, ConcatProperties DEF RemoveAt
<1> QED BY <1>2, AppendProperties

(* The invariant holds at first and is kept by every step. *)
LEMMA PagesStart ==
  ASSUME SearchRequestsAssumption, SearchInit
  PROVE  PagesInv
<1>1. \A r \in Requests : PageGood(request[r], tombstones, request)
  BY DEF SearchInit, PageGood, Unsent, Stages, Sent, Overlaid, Found, HasPage
<1>2. caches \in [Generations -> UNION {Seq(CacheEntries(g)) : g \in Generations}]
  BY DEF SearchInit
<1>3. \A g \in Generations : caches[g] \in Seq(CacheEntries(g))
  BY DEF SearchInit
<1> QED BY <1>1, <1>2, <1>3, SearchRequestsAssumption
        DEF SearchInit, PagesInv, SearchRequestsAssumption

LEMMA PagesStep ==
  ASSUME SearchRequestsAssumption, PagesInv, [SearchNext]_searchVars
  PROVE  PagesInv'
<1>1. CASE UNCHANGED searchVars
  BY <1>1 DEF searchVars, PagesInv, PageGood
<1>2. ASSUME NEW r \in Requests, request[r].stage # "answered", NEW x,
             PageGood(x, tombstones, request), request' = [request EXCEPT ![r] = x],
             UNCHANGED <<tombstones, serving>>, CachesGood(caches')
      PROVE  PagesInv'
  BY <1>2, RequestChanges DEF PagesInv, CachesGood
<1>3. CachesGood(caches)
  BY DEF PagesInv, CachesGood
<1>4. \A r \in Requests : PageGood(request[r], tombstones, request)
  BY DEF PagesInv
<1>5. ASSUME NEW r \in Requests, NEW source \in {"qa", "chat", "profile"}, NEW query \in Wordings,
             Arrive(r, source, query)
      PROVE  PagesInv'
  <2> DEFINE x == [Unsent EXCEPT !.stage = "arrived", !.source = source, !.query = query,
                                 !.before = tombstones]
  <2>1. PageGood(x, tombstones, request)
    BY DEF PageGood, Unsent, Stages, Sent, Overlaid, Found, HasPage
  <2>2. request[r].stage # "answered" /\ request' = [request EXCEPT ![r] = x]
    BY <1>5 DEF Arrive, In
  <2> HIDE DEF x
  <2> QED BY <1>2, <1>3, <1>5, <2>1, <2>2 DEF Arrive
<1>6. ASSUME NEW r \in Requests, NEW s \in Requests, Continue(r, s) PROVE PagesInv'
  <2> DEFINE x == [Unsent EXCEPT !.stage = "arrived", !.source = request[s].source,
                     !.query = request[s].query, !.of = s, !.pin = request[s].generation,
                     !.offset = request[s].result.next, !.before = tombstones]
  <2>1. /\ request[s].stage = "answered" /\ request[s].result.next # 0
        /\ PageGood(request[s], tombstones, request)
    BY <1>4, <1>6 DEF Continue, In
  <2>2. /\ request[s].query \in Wordings /\ request[s].generation \in Generations
        /\ request[s].denied \subseteq tombstones /\ request[s].offset \in Nat
        /\ request[s].result = PageAt(request[s].query, request[s].generation,
                                      request[s].denied, request[s].offset)
    BY <2>1 DEF PageGood, Sent, Overlaid, Found, HasPage
  <2>3. request[s].result.next \in Nat
    <3>1. request[s].denied \in SUBSET Products
      BY <2>2 DEF PagesInv
    <3> QED BY <2>2, <3>1, PageNext
  <2>4. PageGood(x, tombstones, request)
    BY <2>1, <2>2, <2>3 DEF PageGood, Unsent, Stages, Sent, Overlaid, Found, HasPage
  <2>5. request[r].stage # "answered" /\ request' = [request EXCEPT ![r] = x]
    BY <1>6 DEF Continue, In
  <2> HIDE DEF x
  <2> QED BY <1>2, <1>3, <1>6, <2>4, <2>5 DEF Continue
<1>7. ASSUME NEW r \in Requests, Overlay(r) PROVE PagesInv'
  <2> DEFINE x == [request[r] EXCEPT !.stage = "overlaid", !.denied = tombstones]
  <2>1. request[r].stage = "arrived" /\ PageGood(request[r], tombstones, request)
    BY <1>4, <1>7 DEF Overlay, In
  <2>2. PageGood(x, tombstones, request)
    BY <2>1 DEF PageGood, Unsent, Stages, Sent, Overlaid, Found, HasPage
  <2>3. request' = [request EXCEPT ![r] = x]
    BY <1>7 DEF Overlay, PagesInv
  <2> HIDE DEF x
  <2> QED BY <1>2, <1>3, <1>7, <2>1, <2>2, <2>3 DEF Overlay
<1>8. ASSUME NEW r \in Requests, NotReady(r) \/ Refuse(r) \/ Fail(r) PROVE PagesInv'
  <2> DEFINE x == [Unsent EXCEPT !.stage = "refused"]
  <2>1. PageGood(x, tombstones, request)
    BY DEF PageGood, Unsent, Stages, Sent, Overlaid, Found, HasPage
  <2>2. /\ request[r].stage # "answered" /\ request' = [request EXCEPT ![r] = x]
        /\ UNCHANGED <<tombstones, serving, caches>>
    BY <1>8 DEF NotReady, Refuse, Fail, Refusal, In
  <2> HIDE DEF x
  <2> QED BY <1>2, <1>3, <2>1, <2>2
<1>9. ASSUME NEW r \in Requests, Hit(r) PROVE PagesInv'
  <2> DEFINE goesTo == IF request[r].source = "qa" THEN "saving" ELSE "answered"
  <2>1. PICK i \in CachedAt(r) :
          /\ caches' = [caches EXCEPT ![serving] = Append(RemoveAt(@, i), caches[serving][i])]
          /\ request' = [request EXCEPT ![r].stage = goesTo, ![r].generation = serving,
                                        ![r].result = caches[serving][i].result]
    BY <1>9 DEF Hit
  <2>2. /\ request[r].stage = "overlaid" /\ PageGood(request[r], tombstones, request)
        /\ serving \in Generations /\ request[r].pin \in {0, serving}
    BY <1>4, <1>9 DEF Hit, In, PagesInv, Refused, SnapshotFits
  <2>3. /\ i \in 1..Len(caches[serving]) /\ caches[serving][i].key = Key(r)
        /\ caches[serving] \in Seq(CacheEntries(serving))
    BY <2>1, <2>2 DEF CachedAt, PagesInv
  <2>4. PICK k \in Keys : caches[serving][i] = [key |-> k, result |-> PageOf(k, serving)]
    BY <2>3, ElementOfSeq DEF CacheEntries
  <2>5. caches[serving][i].result =
          PageAt(request[r].query, serving, request[r].denied, request[r].offset)
    BY <2>3, <2>4 DEF Key, PageOf
  <2> DEFINE page == PageAt(request[r].query, serving, request[r].denied, request[r].offset)
             x == [request[r] EXCEPT !.stage = goesTo, !.generation = serving, !.result = page]
  <2>6. PageGood(x, tombstones, request)
    <3> HIDE DEF page
    <3>1. /\ x.stage \in {"saving", "answered"} /\ x.generation = serving /\ x.result = page
          /\ x.query = request[r].query /\ x.denied = request[r].denied
          /\ x.offset = request[r].offset /\ x.before = request[r].before
          /\ x.pin = request[r].pin /\ x.of = request[r].of /\ DOMAIN x = DOMAIN Unsent
      BY <2>2 DEF PageGood, Unsent
    <3>2. x.result = PageAt(x.query, x.generation, x.denied, x.offset)
      BY <3>1 DEF page
    <3> HIDE DEF x
    <3> QED BY <2>2, <3>1, <3>2 DEF PageGood, Stages, Sent, Overlaid, Found, HasPage
  <2> HIDE DEF page
  <2>7. request' = [request EXCEPT ![r] = x]
    BY <2>1, <2>5 DEF PagesInv, page
  <2>8. CachesGood(caches')
    BY <2>1, <2>2, <2>3, MovedIsGood, CacheChanges
  <2> HIDE DEF x
  <2> QED BY <1>2, <1>9, <2>2, <2>6, <2>7, <2>8 DEF Hit
<1>10. ASSUME NEW r \in Requests, Miss(r) PROVE PagesInv'
  <2> DEFINE x == [request[r] EXCEPT !.stage = "ranking", !.generation = serving]
  <2>1. /\ request[r].stage = "overlaid" /\ PageGood(request[r], tombstones, request)
        /\ serving \in Generations /\ request[r].pin \in {0, serving}
    BY <1>4, <1>10 DEF Miss, In, PagesInv, Refused, SnapshotFits
  <2>2. PageGood(x, tombstones, request)
    BY <2>1 DEF PageGood, Unsent, Stages, Sent, Overlaid, Found, HasPage
  <2>3. request' = [request EXCEPT ![r] = x]
    BY <1>10 DEF Miss, PagesInv
  <2> HIDE DEF x
  <2> QED BY <1>2, <1>3, <1>10, <2>1, <2>2, <2>3 DEF Miss
<1>11. ASSUME NEW r \in Requests, Rank(r) PROVE PagesInv'
  <2> DEFINE g == request[r].generation
             page == Page(r)
             goesTo == IF request[r].source = "qa" THEN "saving" ELSE "answered"
             x == [request[r] EXCEPT !.stage = goesTo, !.result = page]
  <2>1. /\ request[r].stage = "ranking" /\ PageGood(request[r], tombstones, request)
        /\ g \in Generations /\ Key(r) \in Keys
    BY <1>4, <1>11 DEF Rank, In, PagesInv, PageGood, Sent, Overlaid, Found, Keys, Key
  <2>2. PageGood(x, tombstones, request)
    <3> HIDE DEF page
    <3>1. /\ x.stage \in {"saving", "answered"} /\ x.generation = g /\ x.result = page
          /\ x.query = request[r].query /\ x.denied = request[r].denied
          /\ x.offset = request[r].offset /\ x.before = request[r].before
          /\ x.pin = request[r].pin /\ x.of = request[r].of /\ DOMAIN x = DOMAIN Unsent
      BY <2>1 DEF PageGood, Unsent
    <3>2. x.result = PageAt(x.query, x.generation, x.denied, x.offset)
      BY <3>1 DEF page, Page
    <3> HIDE DEF x
    <3> QED BY <2>1, <3>1, <3>2 DEF PageGood, Stages, Sent, Overlaid, Found, HasPage
  <2>3. PageOf(Key(r), g) = page
    BY DEF PageOf, Key, Page
  <2>4. [key |-> Key(r), result |-> page] \in CacheEntries(g)
    BY <2>1, <2>3 DEF CacheEntries
  <2> HIDE DEF page
  <2>5. CachesGood(caches')
    <3>1. caches' = [caches EXCEPT ![g] = Stored(@, [key |-> Key(r), result |-> page])]
      BY <1>11 DEF Rank, page
    <3>2. caches[g] \in Seq(CacheEntries(g))
      BY <2>1 DEF PagesInv
    <3>3. Stored(caches[g], [key |-> Key(r), result |-> page]) \in Seq(CacheEntries(g))
      BY <2>4, <3>2, StoredIsGood
    <3> HIDE DEF g
    <3> QED BY <2>1, <3>1, <3>3, CacheChanges
  <2>6. request' = [request EXCEPT ![r] = x]
    BY <1>11 DEF Rank, PagesInv, page
  <2> HIDE DEF x
  <2> QED BY <1>2, <1>11, <2>1, <2>2, <2>5, <2>6 DEF Rank
<1>12. ASSUME NEW r \in Requests, Recorded(r) PROVE PagesInv'
  <2> DEFINE x == [request[r] EXCEPT !.stage = "answered"]
  <2>1. request[r].stage = "saving" /\ PageGood(request[r], tombstones, request)
    BY <1>4, <1>12 DEF Recorded, In
  <2>2. PageGood(x, tombstones, request)
    BY <2>1 DEF PageGood, Unsent, Stages, Sent, Overlaid, Found, HasPage
  <2>3. request' = [request EXCEPT ![r] = x]
    BY <1>12 DEF Recorded, PagesInv
  <2> HIDE DEF x
  <2> QED BY <1>2, <1>3, <1>12, <2>1, <2>2, <2>3 DEF Recorded
<1>13. ASSUME NEW p \in Products, ConfirmDeletion(p) PROVE PagesInv'
  <2>1. tombstones \subseteq tombstones' /\ tombstones' \subseteq Products
    BY <1>13 DEF ConfirmDeletion, PagesInv
  <2>2. ASSUME NEW r \in Requests PROVE PageGood(request[r], tombstones', request)
    BY <1>4, <2>1 DEF PageGood
  <2> QED BY <1>13, <2>1, <2>2 DEF ConfirmDeletion, PagesInv
<1>14. ASSUME NEW g \in Generations, Publish(g) PROVE PagesInv'
  BY <1>14 DEF Publish, PagesInv
<1> QED
  BY <1>1, <1>5, <1>6, <1>7, <1>8, <1>9, <1>10, <1>11, <1>12, <1>13, <1>14 DEF SearchNext

(* Where the order is kept, a product is not further back when others are *)
(* gone. *)
LEMMA MovesForward ==
  ASSUME NEW S, NEW fewer \in Seq(S), NEW all \in Seq(S), IsInjective(all),
         KeepsOrder(fewer, all),
         NEW i \in 1..Len(fewer), NEW k \in 1..Len(all), fewer[i] = all[k]
  PROVE  i <= k
<1> DEFINE Ahead == {j \in 1..Len(fewer) : \E l \in 1..Len(all) : all[l] = fewer[j] /\ l < j}
<1>1. SUFFICES ASSUME Ahead # {} PROVE FALSE
  BY DEF Ahead
<1>2. PICK j \in Ahead : \A m \in Ahead : j <= m
  <2>1. Ahead \in SUBSET Nat
    OBVIOUS
  <2> HIDE DEF Ahead
  <2> QED BY <1>1, <2>1, LeastOfNats
<1>3. PICK l \in 1..Len(all) : all[l] = fewer[j] /\ l < j
  BY <1>2
<1>4. j \in 1..Len(fewer) /\ j - 1 \in 1..Len(fewer) /\ j - 1 < j
  BY <1>2, <1>3
<1>5. PICK a, b \in 1..Len(all) : a < b /\ all[a] = fewer[j - 1] /\ all[b] = fewer[j]
  BY <1>4 DEF KeepsOrder
<1>6. b = l
  BY <1>3, <1>5 DEF IsInjective
<1>7. a < j - 1
  BY <1>3, <1>4, <1>5, <1>6
<1>8. j - 1 \in Ahead
  BY <1>4, <1>5, <1>7
<1> HIDE DEF Ahead
<1>9. j <= j - 1
  BY <1>2, <1>8
<1> QED BY <1>4, <1>9

(* What is in a stretch is at one of its places. *)
LEMMA StretchHas ==
  ASSUME NEW S, NEW all \in Seq(S), NEW o \in Nat, NEW last \in 0..Len(all),
         NEW p \in ToSet(SubSeq(all, o + 1, last))
  PROVE  \E i \in 1..Len(all) : p = all[i] /\ o < i /\ i <= last
<1> DEFINE part == SubSeq(all, o + 1, last)
<1>1. \A i \in (o + 1)..last : i \in 1..Len(all) /\ all[i] \in S
  BY ElementOfSeq
<1>2. /\ part \in Seq(S) /\ Len(part) = IF o + 1 <= last THEN last - (o + 1) + 1 ELSE 0
      /\ \A i \in 1..(last - (o + 1) + 1) : part[i] = all[o + 1 + i - 1]
  BY <1>1, SubSeqProperties
<1>3. p \in ToSet(part)
  OBVIOUS
<1> HIDE DEF part
<1>4. PICK i \in 1..Len(part) : p = part[i]
  <2>1. DOMAIN part = 1..Len(part)
    BY <1>2
  <2>2. \E i \in DOMAIN part : p = part[i]
    BY <1>3 DEF ToSet
  <2> QED BY <2>1, <2>2
<1>5. o + i \in 1..Len(all) /\ p = all[o + i] /\ o < o + i /\ o + i <= last
  <2>1. /\ i \in 1..(last - (o + 1) + 1) /\ o + 1 + i - 1 = o + i
        /\ o + i \in (o + 1)..last /\ o < o + i
    <3>1. last \in Nat /\ i \in Nat /\ 1 <= i
      BY <1>4
    <3>2. o + 1 <= last /\ i <= last - (o + 1) + 1
      BY <1>2, <1>4, <3>1
    <3> QED BY <3>1, <3>2
  <2>2. part[i] = all[o + i]
    BY <1>2, <2>1
  <2> QED BY <1>1, <1>4, <2>1, <2>2
<1> QED BY <1>5

LEMMA StretchElements ==
  ASSUME NEW S, NEW all \in Seq(S), NEW o \in Nat, NEW last \in 0..Len(all)
  PROVE  /\ SubSeq(all, o + 1, last) \in Seq(S)
         /\ \A p \in ToSet(SubSeq(all, o + 1, last)) : p \in S
<1>1. \A i \in (o + 1)..last : all[i] \in S
  BY ElementOfSeq
<1>2. SubSeq(all, o + 1, last) \in Seq(S)
  BY <1>1, SubSeqProperties
<1> QED BY <1>2 DEF ToSet

(* Two stretches that follow one another are the rest as far as they go. *)
LEMMA StretchesJoin ==
  ASSUME NEW S, NEW all \in Seq(S), NEW o \in Nat, NEW m \in 0..Len(all), NEW n \in 0..Len(all),
         o <= m, m <= n
  PROVE  IsPrefix(SubSeq(all, o + 1, m) \o SubSeq(all, m + 1, n), SubSeq(all, o + 1, Len(all)))
<1> DEFINE both == SubSeq(all, o + 1, n)
           rest == SubSeq(all, o + 1, Len(all))
<1>1. SubSeq(all, o + 1, m) \o SubSeq(all, m + 1, n) = both
  BY ConcatAdjacentSubSeq
<1>2. SubSeq(all, o + 1, n) \o SubSeq(all, n + 1, Len(all)) = rest
  <2>1. /\ o + 1 \in 1..Len(all) + 1 /\ n \in (o + 1) - 1..Len(all) /\ Len(all) \in n..Len(all)
    OBVIOUS
  <2> QED BY <2>1, ConcatAdjacentSubSeq
<1>3. both \in Seq(S) /\ SubSeq(all, n + 1, Len(all)) \in Seq(S)
  BY StretchElements
<1> HIDE DEF both
<1>4. \A t \in Seq(S) : IsPrefix(both, both \o t)
  <2> SUFFICES ASSUME NEW t \in Seq(S) PROVE IsPrefix(both, both \o t)
    OBVIOUS
  <2>1. /\ both \o t \in Seq(S) /\ Len(both \o t) = Len(both) + Len(t)
        /\ \A i \in 1..Len(both) : (both \o t)[i] = both[i]
    BY <1>3, ConcatProperties
  <2> DEFINE l == both \o t
  <2> HIDE DEF l
  <2>2. /\ l \in Seq(S) /\ Len(both) <= Len(l) /\ Len(both) \in Nat
        /\ \A i \in 1..Len(both) : l[i] = both[i]
    BY <1>3, <2>1 DEF l
  <2>3. SubSeq(l, 1, Len(both)) = SubSeq(both, 1, Len(both))
    BY <1>3, <2>2
  <2> QED BY <2>2, <2>3 DEF IsPrefix, l
<1> QED BY <1>1, <1>2, <1>3, <1>4 DEF both

(* An answered request holds a stretch of the order of its query. *)
AnswerGood(x) ==
  /\ x.query \in Wordings /\ x.generation \in Generations
  /\ x.denied \in SUBSET Products /\ x.offset \in Nat
  /\ x.result = PageAt(x.query, x.generation, x.denied, x.offset)

AnswerEnds(x, last, all) ==
  /\ all = Ranked[x.query][x.generation][x.denied]
  /\ all \in Seq(Products \ x.denied) /\ IsInjective(all)
  /\ last \in 0..Len(all)
  /\ last = Len(all) \/ (last = x.offset + Limit /\ x.offset + Limit < Len(all))
  /\ x.result.hits = SubSeq(all, x.offset + 1, last)
  /\ x.result.next = IF last < Len(all) THEN last ELSE 0

LEMMA AnswersEnd ==
  ASSUME SearchRequestsAssumption, NEW x, AnswerGood(x)
  PROVE  \E last, all : AnswerEnds(x, last, all)
<1> SUFFICES ASSUME NEW q \in Wordings, q = x.query, NEW g \in Generations, g = x.generation,
                    NEW d \in SUBSET Products, d = x.denied, NEW o \in Nat, o = x.offset,
                    x.result = PageAt(q, g, d, o)
             PROVE  \E last, all : AnswerEnds(x, last, all)
  BY DEF AnswerGood
<1>1. Order(q, g, d) \in Seq(Products \ d) /\ IsInjective(Order(q, g, d))
  BY PageFacts
<1>2. PICK last \in 0..Len(Order(q, g, d)) :
        LastOf(last, q, g, d, o) /\ PageAt(q, g, d, o) = Stretch(q, g, d, o, last)
  BY PageFacts
<1>3. /\ x.result.hits = SubSeq(Order(q, g, d), o + 1, last)
      /\ x.result.next = IF last < Len(Order(q, g, d)) THEN last ELSE 0
  <2>1. x.result = Stretch(q, g, d, o, last)
    BY <1>2
  <2>2. PICK hits, follows : /\ hits = SubSeq(Order(q, g, d), o + 1, last)
                          /\ follows = IF last < Len(Order(q, g, d)) THEN last ELSE 0
    OBVIOUS
  <2>3. x.result = [hits |-> hits, next |-> follows]
    BY <2>1, <2>2 DEF Stretch
  <2>4. x.result.hits = hits /\ x.result.next = follows
    BY <2>3
  <2> QED BY <2>2, <2>4, Zenon
<1>4. AnswerEnds(x, last, Order(q, g, d))
  BY <1>1, <1>2, <1>3 DEF AnswerEnds, LastOf, Order
<1> QED BY <1>4

(* A sequence over a set is one over a larger set. *)
LEMMA SeqGrows ==
  ASSUME NEW S, NEW T, S \subseteq T, NEW s \in Seq(S)
  PROVE  s \in Seq(T)
<1>1. s = [i \in 1..Len(s) |-> s[i]] /\ Len(s) \in Nat /\ \A i \in 1..Len(s) : s[i] \in T
  BY ElementOfSeq
<1> QED BY <1>1

(* A page x that continues a page y of the same generation. *)
Goes(x, y) ==
  /\ AnswerGood(x) /\ AnswerGood(y)
  /\ x.query = y.query /\ x.generation = y.generation
  /\ y.result.next = x.offset /\ x.offset # 0

(* Without a deletion in between it goes on exactly where y ended. *)
LEMMA PagesGoOn ==
  ASSUME SearchRequestsAssumption, NEW x, NEW y, Goes(x, y), x.denied = y.denied,
         NEW all, all = Ranked[x.query][y.generation][y.denied]
  PROVE  IsPrefix(y.result.hits \o x.result.hits, SubSeq(all, y.offset + 1, Len(all)))
<1>1. PICK n, ax : AnswerEnds(x, n, ax)
  BY AnswersEnd DEF Goes
<1>2. PICK m, ay : AnswerEnds(y, m, ay)
  BY AnswersEnd DEF Goes
<1>3. ax = all /\ ay = all /\ all \in Seq(Products)
  <2>1. ax = all /\ ay = all /\ all \in Seq(Products \ y.denied)
    BY <1>1, <1>2 DEF Goes, AnswerEnds
  <2>2. Products \ y.denied \subseteq Products
    OBVIOUS
  <2> QED BY <2>1, <2>2, SeqGrows
<1>4. /\ m \in 0..Len(all) /\ n \in 0..Len(all) /\ y.offset \in Nat /\ Limit \in Nat
      /\ y.result.hits = SubSeq(all, y.offset + 1, m) /\ x.result.hits = SubSeq(all, x.offset + 1, n)
  BY <1>1, <1>2, <1>3, SearchRequestsAssumption
     DEF AnswerEnds, Goes, AnswerGood, SearchRequestsAssumption
<1>5. x.offset = m /\ m < Len(all)
  BY <1>2, <1>3 DEF AnswerEnds, Goes
<1>6. m = y.offset + Limit /\ (n = Len(all) \/ n = m + Limit)
  <2>1. m = Len(all) \/ m = y.offset + Limit
    BY <1>2, <1>3 DEF AnswerEnds
  <2>2. n = Len(all) \/ n = m + Limit
    BY <1>1, <1>3, <1>5 DEF AnswerEnds
  <2>3. m # Len(all)
    BY <1>3, <1>4, <1>5
  <2> QED BY <2>1, <2>2, <2>3
<1>7. y.offset <= m /\ m <= n
  <2>1. PICK o \in Nat : o = y.offset
    BY <1>4
  <2>2. PICK l \in Nat : l = Len(all)
    BY <1>3
  <2>3. m \in Nat /\ n \in Nat /\ Limit \in Nat /\ m < l
    BY <1>4, <1>5, <2>2
  <2> QED BY <1>6, <2>1, <2>2, <2>3
<1> QED BY <1>3, <1>4, <1>5, <1>7, StretchesJoin

(* Where the catalog is browsed it repeats nothing, whatever was deleted. *)
LEMMA BrowsingRepeatsNothing ==
  ASSUME SearchRequestsAssumption, NEW x, NEW y, Goes(x, y), x.query \in Browsing,
         y.denied \subseteq x.denied
  PROVE  ToSet(x.result.hits) \cap ToSet(y.result.hits) = {}
<1>1. PICK n, fewer : AnswerEnds(x, n, fewer)
  BY AnswersEnd DEF Goes
<1>2. PICK m, all : AnswerEnds(y, m, all)
  BY AnswersEnd DEF Goes
<1>3. KeepsOrder(fewer, all)
  <2>1. fewer = Ranked[x.query][x.generation][x.denied] /\ all = Ranked[x.query][x.generation][y.denied]
    BY <1>1, <1>2 DEF AnswerEnds, Goes
  <2>2. /\ x.generation \in Generations /\ x.denied \in SUBSET Products
        /\ y.denied \in SUBSET x.denied
    BY DEF Goes, AnswerGood
  <2> QED BY <2>1, <2>2, SearchRequestsAssumption DEF SearchRequestsAssumption
<1>4. fewer \in Seq(Products) /\ all \in Seq(Products) /\ IsInjective(all)
  <2>1. /\ fewer \in Seq(Products \ x.denied) /\ all \in Seq(Products \ y.denied)
        /\ IsInjective(all)
    BY <1>1, <1>2 DEF AnswerEnds
  <2>2. Products \ x.denied \subseteq Products /\ Products \ y.denied \subseteq Products
    OBVIOUS
  <2> QED BY <2>1, <2>2, SeqGrows
<1>5. /\ n \in 0..Len(fewer) /\ m \in 0..Len(all) /\ x.offset \in Nat /\ y.offset \in Nat
      /\ x.result.hits = SubSeq(fewer, x.offset + 1, n) /\ y.result.hits = SubSeq(all, y.offset + 1, m)
  BY <1>1, <1>2 DEF AnswerEnds, Goes, AnswerGood
<1>6. x.offset = m
  BY <1>2 DEF AnswerEnds, Goes
<1>7. SUFFICES ASSUME NEW p \in ToSet(x.result.hits), p \in ToSet(y.result.hits) PROVE FALSE
  OBVIOUS
<1>8. PICK i \in 1..Len(fewer) : p = fewer[i] /\ x.offset < i /\ i <= n
  <2>1. PICK o \in Nat : o = x.offset
    BY <1>5
  <2>2. p \in ToSet(SubSeq(fewer, o + 1, n))
    BY <1>5, <1>7, <2>1
  <2> QED BY <1>4, <1>5, <2>1, <2>2, StretchHas
<1>9. PICK k \in 1..Len(all) : p = all[k] /\ y.offset < k /\ k <= m
  <2>1. PICK o \in Nat : o = y.offset
    BY <1>5
  <2>2. p \in ToSet(SubSeq(all, o + 1, m))
    BY <1>5, <1>7, <2>1
  <2> QED BY <1>4, <1>5, <2>1, <2>2, StretchHas
<1>10. i <= k
  BY <1>3, <1>4, <1>8, <1>9, MovesForward
<1> QED BY <1>5, <1>6, <1>8, <1>9, <1>10

(* No page holds what was deleted for its request. *)
LEMMA NothingDeleted ==
  ASSUME SearchRequestsAssumption, NEW x, AnswerGood(x)
  PROVE  ToSet(x.result.hits) \cap x.denied = {}
<1>1. PICK n, all : AnswerEnds(x, n, all)
  BY AnswersEnd
<1>2. /\ all \in Seq(Products \ x.denied) /\ n \in 0..Len(all) /\ x.offset \in Nat
      /\ x.result.hits = SubSeq(all, x.offset + 1, n)
  BY <1>1 DEF AnswerEnds, AnswerGood
<1>3. \A p \in ToSet(x.result.hits) : p \in Products \ x.denied
  <2>1. PICK o \in Nat : o = x.offset
    BY <1>2
  <2>2. PICK rest : rest = Products \ x.denied
    OBVIOUS
  <2>3. x.result.hits = SubSeq(all, o + 1, n) /\ all \in Seq(rest)
    BY <1>2, <2>1, <2>2
  <2>4. \A p \in ToSet(SubSeq(all, o + 1, n)) : p \in rest
    BY <1>2, <2>3, StretchElements
  <2> QED BY <2>2, <2>3, <2>4
<1> QED BY <1>3

LEMMA PagesKeepTheirPromise ==
  ASSUME SearchRequestsAssumption, PagesInv
  PROVE  DeletedIsNotServed /\ PagesContinue
<1>1. ASSUME NEW r \in Requests, request[r].stage = "answered"
      PROVE  AnswerGood(request[r]) /\ request[r].before \subseteq request[r].denied
  BY <1>1 DEF PagesInv, PageGood, AnswerGood, Sent, Overlaid, Found, HasPage
<1>2. DeletedIsNotServed
  <2> SUFFICES ASSUME NEW r \in Requests, request[r].stage = "answered"
               PROVE  ToSet(request[r].result.hits) \cap request[r].before = {}
    BY DEF DeletedIsNotServed, In
  <2>1. ToSet(request[r].result.hits) \cap request[r].denied = {}
    BY <1>1, NothingDeleted
  <2> QED BY <1>1, <2>1
<1>3. ASSUME NEW r \in Requests, request[r].stage = "answered", request[r].of # NoRequest,
             NEW x, x = request[r], NEW y, y = request[request[r].of]
      PROVE  Goes(x, y) /\ y.denied \subseteq x.denied
  <2>1. /\ x.of \in Requests /\ y.stage = "answered" /\ y.query = x.query
        /\ y.generation = x.pin /\ y.result.next = x.offset /\ x.offset # 0
        /\ y.denied \subseteq x.before /\ x.pin \in {0, x.generation}
    BY <1>3 DEF PagesInv, PageGood, Found
  <2>2. AnswerGood(x) /\ AnswerGood(y) /\ x.before \subseteq x.denied
    BY <1>1, <1>3, <2>1
  <2>3. y.generation # 0
    BY <2>2, SearchRequestsAssumption DEF AnswerGood, SearchRequestsAssumption
  <2> QED BY <2>1, <2>2, <2>3 DEF Goes
<1>4. PagesContinue
  <2> SUFFICES ASSUME NEW r \in Requests, request[r].stage = "answered", request[r].of # NoRequest,
                      NEW x, x = request[r], NEW y, y = request[request[r].of]
               PROVE  /\ x.query \in Browsing => ToSet(x.result.hits) \cap ToSet(y.result.hits) = {}
                      /\ x.denied = y.denied =>
                           IsPrefix(y.result.hits \o x.result.hits,
                                    SubSeq(Ranked[x.query][y.generation][y.denied], y.offset + 1,
                                           Len(Ranked[x.query][y.generation][y.denied])))
    BY DEF PagesContinue, In
  <2>1. Goes(x, y) /\ y.denied \subseteq x.denied
    BY <1>3
  <2>2. x.query \in Browsing => ToSet(x.result.hits) \cap ToSet(y.result.hits) = {}
    BY <2>1, BrowsingRepeatsNothing
  <2>3. x.denied = y.denied =>
          IsPrefix(y.result.hits \o x.result.hits,
                   SubSeq(Ranked[x.query][y.generation][y.denied], y.offset + 1,
                          Len(Ranked[x.query][y.generation][y.denied])))
    BY <2>1, PagesGoOn
  <2> QED BY <2>2, <2>3
<1> QED BY <1>2, <1>4

(* For any requests, products, queries and orders, any catalog generations *)
(* and any deletions: an answer, ranked or taken from the cache, holds no *)
(* product whose deletion was confirmed when its request came, and a page *)
(* that continues another goes on where that one ended (app.py *)
(* execute_search, search/service.py). *)
THEOREM PagesStayTrue ==
  ASSUME SearchRequestsAssumption
  PROVE  SearchSpec => [](DeletedIsNotServed /\ PagesContinue)
<1>1. SearchInit => PagesInv
  BY PagesStart
<1>2. PagesInv /\ [SearchNext]_searchVars => PagesInv'
  BY PagesStep
<1>3. PagesInv => DeletedIsNotServed /\ PagesContinue
  BY PagesKeepTheirPromise
<1> QED BY <1>1, <1>2, <1>3, PTL DEF SearchSpec

(* The caches keep to their size. *)
SizesFit == \A g \in Generations : Len(caches[g]) <= MaxCache

LEMMA StoredIsShort ==
  ASSUME SearchRequestsAssumption, NEW S, NEW c \in Seq(S), Len(c) <= MaxCache, NEW e \in S
  PROVE  Len(Stored(c, e)) <= MaxCache
<1> DEFINE at == {i \in 1..Len(c) : c[i].key = e.key}
           changed == [i \in 1..Len(c) |-> IF i \in at THEN e ELSE c[i]]
           d == IF at = {} THEN Append(c, e) ELSE changed
<1>1. MaxCache \in Nat
  BY SearchRequestsAssumption DEF SearchRequestsAssumption
<1>2. Append(c, e) \in Seq(S) /\ Len(Append(c, e)) = Len(c) + 1
  BY AppendProperties
<1>3. changed \in Seq(S) /\ Len(changed) = Len(c)
  OBVIOUS
<1> HIDE DEF changed
<1>4. d \in Seq(S) /\ Len(d) <= MaxCache + 1
  BY <1>1, <1>2, <1>3
<1> HIDE DEF d
<1>5. Len(d) > MaxCache => Len(Tail(d)) = Len(d) - 1
  <2> SUFFICES ASSUME Len(d) > MaxCache PROVE Len(Tail(d)) = Len(d) - 1
    OBVIOUS
  <2>1. d # <<>>
    BY <1>1
  <2> QED BY <1>4, <2>1, HeadTailProperties
<1> QED BY <1>1, <1>4, <1>5 DEF Stored, d, changed

LEMMA MovedIsAsLong ==
  ASSUME NEW S, NEW c \in Seq(S), NEW i \in 1..Len(c)
  PROVE  Len(Append(RemoveAt(c, i), c[i])) = Len(c)
<1> DEFINE before == SubSeq(c, 1, i-1)
           behind == SubSeq(c, i+1, Len(c))
<1>1. before \in Seq(S) /\ Len(before) = i - 1
  BY SubSeqProperties
<1>2. behind \in Seq(S) /\ Len(behind) = Len(c) - i
  BY SubSeqProperties
<1>3. RemoveAt(c, i) = before \o behind
  BY DEF RemoveAt
<1> HIDE DEF before, behind
<1>4. before \o behind \in Seq(S) /\ Len(before \o behind) = Len(before) + Len(behind)
  BY <1>1, <1>2, ConcatProperties
<1>5. RemoveAt(c, i) \in Seq(S) /\ Len(RemoveAt(c, i)) = Len(c) - 1
  BY <1>1, <1>2, <1>3, <1>4
<1>6. Len(Append(RemoveAt(c, i), c[i])) = Len(RemoveAt(c, i)) + 1
  BY <1>5, AppendProperties
<1> QED BY <1>5, <1>6

LEMMA SizesStep ==
  ASSUME SearchRequestsAssumption, PagesInv, SizesFit, [SearchNext]_searchVars
  PROVE  SizesFit'
<1>1. CASE UNCHANGED caches
  BY <1>1 DEF SizesFit
<1>2. ASSUME NEW r \in Requests, Hit(r) PROVE SizesFit'
  <2>1. PICK i \in CachedAt(r) :
          caches' = [caches EXCEPT ![serving] = Append(RemoveAt(@, i), caches[serving][i])]
    BY <1>2 DEF Hit
  <2>2. serving \in Generations /\ caches[serving] \in Seq(CacheEntries(serving))
    BY DEF PagesInv
  <2>3. Len(Append(RemoveAt(caches[serving], i), caches[serving][i])) = Len(caches[serving])
    BY <2>2, MovedIsAsLong DEF CachedAt
  <2> QED BY <2>1, <2>3 DEF SizesFit, PagesInv
<1>3. ASSUME NEW r \in Requests, Rank(r) PROVE SizesFit'
  <2> DEFINE g == request[r].generation
             e == [key |-> Key(r), result |-> Page(r)]
  <2>1. caches' = [caches EXCEPT ![g] = Stored(@, e)]
    BY <1>3 DEF Rank
  <2>2. g \in Generations
    BY <1>3 DEF Rank, In, PagesInv, PageGood, Found
  <2>3. caches[g] \in Seq(CacheEntries(g) \cup {e}) /\ Len(caches[g]) <= MaxCache
    BY <2>2 DEF PagesInv, SizesFit
  <2> HIDE DEF e
  <2>4. Len(Stored(caches[g], e)) <= MaxCache
    BY <2>3, StoredIsShort
  <2> HIDE DEF g
  <2> QED BY <2>1, <2>4 DEF SizesFit, PagesInv
<1> QED BY <1>1, <1>2, <1>3
        DEF SearchNext, searchVars, Arrive, Continue, Overlay, NotReady, Refuse, Miss, Fail,
            Recorded, ConfirmDeletion, Publish

(* The searches keep to their types, and the caches to their size. *)
THEOREM SearchTypes ==
  ASSUME SearchRequestsAssumption
  PROVE  SearchSpec => []SearchTypeOK
<1>1. SearchInit => PagesInv
  BY PagesStart
<1>2. PagesInv /\ [SearchNext]_searchVars => PagesInv'
  BY PagesStep
<1>3. SearchInit => SizesFit
  BY SearchRequestsAssumption DEF SearchInit, SizesFit, SearchRequestsAssumption
<1>4. PagesInv /\ SizesFit /\ [SearchNext]_searchVars => SizesFit'
  BY SizesStep
<1>5. SearchInit => SlotsInv
  BY SlotsStart
<1>6. SlotsInv /\ [SearchNext]_searchVars => SlotsInv'
  BY SlotsStep
<1>7. PagesInv /\ SizesFit /\ SlotsInv => SearchTypeOK
  <2>1. {MaxActive, MaxProfile} \subseteq Nat
    BY SearchRequestsAssumption DEF SearchRequestsAssumption
  <2> QED BY <2>1 DEF PagesInv, SizesFit, SlotsInv, SlotsAreExact, RequestGood, SearchTypeOK
<1> QED BY <1>1, <1>2, <1>3, <1>4, <1>5, <1>6, <1>7, PTL DEF SearchSpec

-----------------------------------------------------------------------------
(* Recorded searches and their verdicts. *)

VerdictStates == [stage : {"new", "found", "inserted", "saved", "failed"}, of : Nat]

(* One at a time, where the tables are not shared; then nothing that an *)
(* open transaction will prune gets a verdict. *)
OneWriter ==
  ~Shared =>
    /\ overtaken = {} /\ (Recording = {} \/ Inserting = {})
    /\ \A s, t \in Recording : s = t
    /\ \A s \in Recording : \A t \in recording[s] : ~Rated(t)

QAInv ==
  /\ searches \subseteq Searches /\ Recording \subseteq Searches
  /\ feedback \subseteq [verdict : Verdicts, of : Searches]
  /\ verdict \in [Verdicts -> VerdictStates]
  /\ \A f \in feedback : f.of \in searches
  /\ \A v \in Inserting : verdict[v].of \in searches
  /\ OneWriter /\ VerdictsStay

LEMMA QAStep ==
  ASSUME QARecordsAssumption, QAInv, [QANext]_qaVars
  PROVE  QAInv'
<1> USE DEF QAInv
<1>1. CASE UNCHANGED qaVars
  BY <1>1 DEF qaVars, Recording, Inserting, OneWriter, Rated, VerdictsStay
<1>2. ASSUME NEW s \in Searches, Record(s) PROVE QAInv'
  <2>1. /\ Recording' = Recording \cup {s}
        /\ \A t \in Recording' : recording'[t] = IF t = s THEN Victims(searches \cup {s})
                                                        ELSE recording[t]
    BY <1>2 DEF Record, Recording
  <2>2. UNCHANGED <<Shared, searches, feedback, verdict, overtaken>> /\ MayWrite
    BY <1>2 DEF Record
  <2>3. OneWriter'
    BY <2>1, <2>2 DEF OneWriter, MayWrite, Inserting, Rated, Victims
  <2> QED BY <2>1, <2>2, <2>3 DEF Inserting, VerdictsStay
<1>3. ASSUME NEW s \in Searches, Commit(s) PROVE QAInv'
  <2>1. /\ Recording' = Recording \ {s} /\ \A t \in Recording' : recording'[t] = recording[t]
        /\ s \in Recording /\ \A v \in Inserting : verdict[v].of \notin recording[s]
        /\ searches' = (searches \cup {s}) \ recording[s]
        /\ feedback' = {f \in feedback : f.of \notin recording[s]}
        /\ overtaken' = overtaken \cup {t \in recording[s] : Rated(t)}
        /\ UNCHANGED <<Shared, verdict>>
    BY <1>3 DEF Commit, Done, Recording
  <2>2. OneWriter'
    BY <2>1 DEF OneWriter, Inserting, Rated
  <2>3. VerdictsStay'
    <3>1. ASSUME NEW v \in Verdicts, verdict[v].stage = "saved", verdict[v].of \notin overtaken'
          PROVE  [verdict |-> v, of |-> verdict[v].of] \in feedback'
      <4>1. [verdict |-> v, of |-> verdict[v].of] \in feedback
        BY <2>1, <3>1 DEF VerdictsStay
      <4>2. Rated(verdict[v].of)
        BY <4>1 DEF Rated
      <4> QED BY <2>1, <3>1, <4>1, <4>2
    <3> QED BY <2>1, <2>2, <3>1 DEF VerdictsStay, OneWriter
  <2> QED BY <2>1, <2>2, <2>3 DEF Inserting
<1>4. ASSUME NEW s \in Searches, Rollback(s) PROVE QAInv'
  <2>1. /\ Recording' = Recording \ {s} /\ \A t \in Recording' : recording'[t] = recording[t]
        /\ UNCHANGED <<Shared, searches, feedback, verdict, overtaken>>
    BY <1>4 DEF Rollback, Done, Recording
  <2> QED BY <2>1 DEF OneWriter, Inserting, Rated, VerdictsStay
<1>5. ASSUME NEW v \in Verdicts, NEW x \in VerdictStates,
             verdict' = [verdict EXCEPT ![v] = x], x.stage \in {"found", "failed"},
             verdict[v].stage # "saved",
             UNCHANGED <<Shared, searches, feedback, recording, overtaken>>
      PROVE  QAInv'
  <2>1. Inserting' \subseteq Inserting /\ \A u \in Inserting' : verdict'[u] = verdict[u]
    BY <1>5 DEF Inserting
  <2>2. OneWriter'
    BY <1>5, <2>1 DEF OneWriter, Recording, Rated
  <2> QED BY <1>5, <2>1, <2>2 DEF Recording, VerdictsStay
<1>6. ASSUME NEW v \in Verdicts, NEW s \in Searches, Rate(v, s) PROVE QAInv'
  BY <1>5, <1>6 DEF Rate, VerdictStates, QARecordsAssumption
<1>7. ASSUME NEW v \in Verdicts, Insert(v) PROVE QAInv'
  <2> DEFINE x == [verdict[v] EXCEPT !.stage = "failed"]
             y == [verdict[v] EXCEPT !.stage = "inserted"]
  <2>1. CASE verdict[v].of \notin searches
    BY <1>5, <1>7, <2>1 DEF Insert, Ends, VerdictStates
  <2>2. CASE verdict[v].of \in searches
    <3>1. /\ verdict' = [verdict EXCEPT ![v].stage = "inserted"] /\ MayWrite
          /\ UNCHANGED <<Shared, searches, feedback, recording, overtaken>>
          /\ verdict[v].stage = "found"
      BY <1>7, <2>2 DEF Insert, Ends
    <3>2. /\ verdict' \in [Verdicts -> VerdictStates]
          /\ \A u \in Verdicts : verdict'[u].of = verdict[u].of
          /\ \A u \in Verdicts : u # v => verdict'[u] = verdict[u]
          /\ verdict'[v].stage = "inserted"
      BY <3>1 DEF VerdictStates
    <3>3. OneWriter'
      BY <3>1 DEF OneWriter, MayWrite, Recording, Rated
    <3> QED BY <2>2, <3>1, <3>2, <3>3 DEF Inserting, Recording, VerdictsStay
  <2> QED BY <2>1, <2>2
<1>8. ASSUME NEW v \in Verdicts, Save(v) PROVE QAInv'
  <2> DEFINE f == [verdict |-> v, of |-> verdict[v].of]
  <2>1. /\ feedback' = feedback \cup {f} /\ verdict[v].stage = "inserted"
        /\ verdict' = [verdict EXCEPT ![v].stage = "saved"]
        /\ UNCHANGED <<Shared, searches, recording, overtaken>>
    BY <1>8 DEF Save, Ends
  <2>2. /\ verdict' \in [Verdicts -> VerdictStates]
        /\ \A u \in Verdicts : verdict'[u].of = verdict[u].of
        /\ \A u \in Verdicts : u # v => verdict'[u] = verdict[u]
        /\ verdict'[v].stage = "saved"
    BY <2>1 DEF VerdictStates
  <2>3. v \in Inserting /\ f.of \in searches /\ f \in [verdict : Verdicts, of : Searches]
    BY <2>1 DEF Inserting
  <2>4. OneWriter'
    BY <2>1, <2>3 DEF OneWriter, Recording, Inserting
  <2>5. VerdictsStay'
    BY <2>1, <2>2 DEF VerdictsStay
  <2> QED BY <2>1, <2>2, <2>3, <2>4, <2>5 DEF Inserting, Recording
<1>9. ASSUME NEW v \in Verdicts, Lose(v) PROVE QAInv'
  BY <1>5, <1>9 DEF Lose, Ends, VerdictStates
<1> QED BY <1>1, <1>2, <1>3, <1>4, <1>6, <1>7, <1>8, <1>9 DEF QANext

(* For any number of searches, verdicts and calls: a verdict that was *)
(* answered with "saved" stays with its search, unless the pruning *)
(* overtook it, which never happens where one writes at a time (app.py *)
(* record, feedback). *)
THEOREM VerdictsAreKept ==
  ASSUME QARecordsAssumption
  PROVE  QASpec => [](QATypeOK /\ VerdictsStay)
<1>1. QAInit => QAInv
  BY DEF QAInit, QAInv, Recording, Inserting, OneWriter, VerdictsStay, VerdictStates
<1>2. QAInv /\ [QANext]_qaVars => QAInv'
  BY QAStep
<1>3. QAInv => QATypeOK /\ VerdictsStay
  BY DEF QAInv, QATypeOK, VerdictStates
<1> QED BY <1>1, <1>2, <1>3, PTL DEF QASpec

-----------------------------------------------------------------------------
(* The Profiler's runs that need Search. *)

Calling == {"encode", "similarities", "vectors"}
Computing == {"active", "tags"} \cup Calling
Answering == {"unanswered", "delivered", "superseded", "rejected"}
Delivering == {"profile", "send"} \cup Answering

JobStates == [run : Runs \cup {NoRun}, tags : Tags, pool : Pools, sends : 0 .. MaxSends,
              at : {"idle", "begin", "ready"} \cup Computing \cup Delivering]
RowStates == [status : {"NONE", "RUNNING", "RESULT_READY", "DELIVERED", "SUPERSEDED", "FAILED"},
              body : Bodies \cup {NoRun}]

BodyIn(j) == [tags |-> j.tags, pool |-> j.pool]

(* A job whose thread missed a call of Search is about to be stored, and *)
(* has tags and no vectors. *)
JobGood(j, missed) ==
  /\ j.at # "idle" => j.run \in Runs
  /\ j.at \notin Answering => j.sends < MaxSends
  /\ j.at \in {"begin", "active", "tags"} => j.tags = "none" /\ j.pool = "ranked"
  /\ j.at \in Calling => j.tags = "ok" /\ j.pool = "ranked"
  /\ j.at \in Computing => ~missed
  /\ j.at = "ready" =>
        IF missed THEN j.tags = "ok" /\ j.pool = "ranked"
        ELSE j.tags = "fail" \/ Verified(BodyIn(j))
  /\ j.at \in Delivering => Verified(BodyIn(j))

RowGood(x) ==
  /\ x.body # NoRun => Verified(x.body)
  /\ x.status \in {"RESULT_READY", "DELIVERED", "SUPERSEDED"} => x.body # NoRun

RequiredInv ==
  /\ bound \in BOOLEAN /\ failure \in [Workers -> BOOLEAN] /\ taken \in 0 .. MaxTakes
  /\ job \in [Workers -> JobStates] /\ row \in [Runs -> RowStates]
  /\ sent \in [Runs -> SUBSET Bodies]
  /\ \A w \in Workers : JobGood(job[w], failure[w])
  /\ \A r \in Runs : RowGood(row[r]) /\ \A b \in sent[r] : Verified(b)

JobsGood == \A w \in Workers : JobGood(job[w], failure[w])

LEMMA NoJobGood ==
  ASSUME RequiredAssumption, NEW missed \in BOOLEAN
  PROVE  NoJob \in JobStates /\ JobGood(NoJob, missed)
BY DEF RequiredAssumption, NoJob, JobStates, JobGood, Tags, Pools, Answering, Delivering,
       Computing, Calling

(* A step of one worker changes its job and what it remembers, no more. *)
LEMMA JobMoves ==
  ASSUME RequiredInv, NEW w \in Workers, NEW j \in JobStates, NEW m \in BOOLEAN,
         job' = [job EXCEPT ![w] = j], failure' = [failure EXCEPT ![w] = m], JobGood(j, m)
  PROVE  /\ job' \in [Workers -> JobStates] /\ failure' \in [Workers -> BOOLEAN]
         /\ JobsGood'
BY DEF RequiredInv, JobsGood

(* The upsert of a good body, or of none. *)
LEMMA RowMoves ==
  ASSUME RequiredInv, NEW w \in Workers, job[w].at # "idle",
         NEW b \in Bodies \cup {NoRun}, b # NoRun => Verified(b),
         NEW status \in {"RUNNING", "RESULT_READY", "DELIVERED", "SUPERSEDED", "FAILED"},
         status \in {"RUNNING", "FAILED"} \/ b # NoRun, Upsert(w, status, b)
  PROVE  row' \in [Runs -> RowStates] /\ \A r \in Runs : RowGood(row'[r])
<1>1. job[w].run \in Runs
  BY DEF RequiredInv, JobGood
<1> DEFINE old == row[job[w].run]
           new == [status |-> status, body |-> IF b = NoRun THEN old.body ELSE b]
<1>2. old \in RowStates /\ RowGood(old)
  BY <1>1 DEF RequiredInv
<1>3. new \in RowStates /\ RowGood(new)
  BY <1>2 DEF RowStates, RowGood
<1>4. row' = [row EXCEPT ![job[w].run] = new]
  BY DEF Upsert
<1> HIDE DEF new
<1> QED BY <1>1, <1>3, <1>4 DEF RequiredInv

LEMMA SameRows ==
  ASSUME RequiredInv, row' = row
  PROVE  row' \in [Runs -> RowStates] /\ \A r \in Runs : RowGood(row'[r])
BY DEF RequiredInv

LEMMA FailedRun ==
  ASSUME RequiredInv, NEW w \in Workers, job[w].at # "idle",
         Upsert(w, "FAILED", NoRun) \/ UNCHANGED row
  PROVE  row' \in [Runs -> RowStates] /\ \A r \in Runs : RowGood(row'[r])
BY RowMoves, SameRows

(* Everything that one worker does. *)
WorkerDoes(w) ==
  \/ \E r \in Runs : Take(w, r)
  \/ BeginRun(w) \/ Active(w) \/ ExtractTags(w) \/ Embed(w) \/ StoreResult(w)
  \/ UpsertProfile(w) \/ Send(w) \/ Unseen(w) \/ StoreAnswer(w) \/ StoreUnanswered(w)

(* The job goes on as j, its thread remembers m. *)
Becomes(w, j, m) ==
  /\ j \in JobStates /\ m \in BOOLEAN /\ JobGood(j, m)
  /\ job' = [job EXCEPT ![w] = j] /\ failure' = [failure EXCEPT ![w] = m]

(* To its next stage, with the tags and the pool it has, or to its end. *)
LEMMA Advances ==
  ASSUME RequiredAssumption, RequiredInv, NEW w \in Workers, NEW m \in BOOLEAN,
         failure' = [failure EXCEPT ![w] = m],
         \/ Leave(w)
         \/ \E reached \in {"active", "tags", "ready"} \cup Calling \cup Delivering :
              Go(w, reached) /\ JobGood([job[w] EXCEPT !.at = reached], m)
  PROVE  \E j : Becomes(w, j, m)
<1>1. CASE Leave(w)
  BY <1>1, NoJobGood DEF Leave, Becomes
<1>2. ASSUME NEW reached \in {"active", "tags", "ready"} \cup Calling \cup Delivering,
             Go(w, reached), JobGood([job[w] EXCEPT !.at = reached], m)
      PROVE  \E j : Becomes(w, j, m)
  <2> DEFINE j == [job[w] EXCEPT !.at = reached]
  <2>1. j \in JobStates
    BY <1>2 DEF RequiredInv, JobStates, Computing, Calling, Delivering
  <2>2. job' = [job EXCEPT ![w] = j]
    BY <1>2 DEF Go
  <2>3. JobGood(j, m)
    BY <1>2
  <2> HIDE DEF j
  <2> QED BY <1>2, <2>1, <2>2, <2>3 DEF Becomes
<1> QED BY <1>1, <1>2

LEMMA Unforgotten ==
  ASSUME RequiredInv, NEW w \in Workers, failure' = failure
  PROVE  failure' = [failure EXCEPT ![w] = failure[w]] /\ failure[w] \in BOOLEAN
BY DEF RequiredInv

LEMMA WorkerJobs ==
  ASSUME RequiredAssumption, RequiredInv, NEW w \in Workers, WorkerDoes(w)
  PROVE  \E j, m : Becomes(w, j, m)
<1> DEFINE stages == {"active", "tags", "ready"} \cup Calling \cup Delivering
<1>0. job[w] \in JobStates /\ JobGood(job[w], failure[w]) /\ failure[w] \in BOOLEAN
  BY DEF RequiredInv
<1>1. ASSUME NEW r \in Runs, Take(w, r) PROVE \E j, m : Becomes(w, j, m)
  <2>1. row[r] \in RowStates /\ RowGood(row[r])
    BY DEF RequiredInv
  <2>2. CASE row[r].status \in {"NONE", "RUNNING", "FAILED"}
    <3> DEFINE j == [NoJob EXCEPT !.run = r, !.at = "begin"]
    <3>1. j \in JobStates /\ JobGood(j, failure[w])
      BY NoJobGood, RequiredAssumption DEF NoJob, JobStates, JobGood, Tags, Pools, Answering,
         Delivering, Computing, Calling, RequiredAssumption
    <3>2. job' = [job EXCEPT ![w] = j] /\ failure' = failure
      BY <1>1, <2>2 DEF Take
    <3> QED BY <1>0, <3>1, <3>2, Unforgotten DEF Becomes
  <2>3. CASE row[r].status \notin {"NONE", "RUNNING", "FAILED"}
    <3> DEFINE b == row[r].body
               j == [NoJob EXCEPT !.run = r, !.at = "send", !.tags = b.tags, !.pool = b.pool]
    <3>1. b \in Bodies /\ Verified(b)
      BY <2>1, <2>3 DEF RowStates, RowGood
    <3>2. b.tags \in Tags /\ b.pool \in Pools /\ b = [tags |-> b.tags, pool |-> b.pool]
      BY <3>1 DEF Bodies
    <3> HIDE DEF b
    <3>3. j \in JobStates
      BY <3>2, NoJobGood DEF NoJob, JobStates, Delivering
    <3>4. JobGood(j, failure[w])
      BY <3>1, <3>2, RequiredAssumption DEF NoJob, JobGood, BodyIn, Answering, Delivering,
         Computing, Calling, RequiredAssumption
    <3>5. job' = [job EXCEPT ![w] = j] /\ failure' = failure
      BY <1>1, <2>3 DEF Take, b
    <3> QED BY <1>0, <3>3, <3>4, <3>5, Unforgotten DEF Becomes
  <2> QED BY <2>2, <2>3
<1>2. CASE BeginRun(w)
  <2>1. failure' = [failure EXCEPT ![w] = FALSE]
    BY <1>2 DEF BeginRun
  <2>2. JobGood([job[w] EXCEPT !.at = "active"], FALSE)
    BY <1>0, <1>2 DEF BeginRun, JobGood, JobStates, Answering, Delivering, Computing, Calling
  <2> QED BY <1>2, <2>1, <2>2, Advances DEF BeginRun
<1>3. CASE Active(w)
  <2>1. JobGood([job[w] EXCEPT !.at = "tags"], failure[w])
    BY <1>0, <1>3 DEF Active, JobGood, JobStates, Answering, Delivering, Computing, Calling
  <2>2. failure' = failure /\ (Go(w, "tags") \/ Leave(w))
    BY <1>3 DEF Active, FailRun
  <2> QED BY <1>0, <2>1, <2>2, Unforgotten, Advances
<1>4. CASE ExtractTags(w)
  <2>1. PICK tags \in Tags :
           job' = [job EXCEPT ![w].tags = tags, ![w].at = IF tags = "ok" THEN "encode" ELSE "ready"]
    BY <1>4 DEF ExtractTags
  <2> DEFINE at == IF tags = "ok" THEN "encode" ELSE "ready"
             j == [job[w] EXCEPT !.tags = tags, !.at = at]
  <2>2. job' = [job EXCEPT ![w] = j]
    BY <2>1 DEF RequiredInv, JobStates
  <2>3. j \in JobStates
    BY <1>0, <2>1 DEF JobStates, Computing, Calling
  <2>4. job[w].at = "tags" /\ failure' = failure
    BY <1>4 DEF ExtractTags
  <2>5. JobGood(j, failure[w])
    BY <1>0, <2>4 DEF JobGood, JobStates, Answering, Delivering, Computing, Calling, BodyIn,
       Verified, Tags
  <2> HIDE DEF j
  <2> QED BY <1>0, <2>2, <2>3, <2>4, <2>5, Unforgotten DEF Becomes
<1>5. CASE Embed(w)
  <2>1. job[w].at \in Calling
    BY <1>5 DEF Embed, AfterCall, Calling
  <2>2. CASE Missed(w) /\ Go(w, "ready")
    <3>1. JobGood([job[w] EXCEPT !.at = "ready"], TRUE)
      BY <1>0, <2>1 DEF JobGood, JobStates, Answering, Delivering, Computing, Calling
    <3> QED BY <2>2, <3>1, Advances DEF Missed
  <2>3. CASE ~(Missed(w) /\ Go(w, "ready"))
    <3> DEFINE at == AfterCall[job[w].at]
               pool == IF job[w].at = "vectors" THEN "vectors" ELSE job[w].pool
               j == [job[w] EXCEPT !.at = at, !.pool = pool]
    <3>1. at \in {"similarities", "vectors", "ready"} /\ (at = "ready" <=> job[w].at = "vectors")
      BY <2>1 DEF AfterCall, Calling
    <3>2. pool \in Pools /\ (pool = "vectors" <=> at = "ready")
      BY <1>0, <2>1, <3>1 DEF JobStates, Pools, JobGood
    <3>3. failure' = failure
          /\ job' = [job EXCEPT ![w].at = AfterCall[@],
                               ![w].pool = IF job[w].at = "vectors" THEN "vectors" ELSE @]
      BY <1>5, <2>3 DEF Embed
    <3>4. job' = [job EXCEPT ![w].at = at, ![w].pool = pool]
      BY <1>0, <3>3 DEF RequiredInv, JobStates
    <3> HIDE DEF at, pool
    <3>5. job' = [job EXCEPT ![w] = j]
      BY <3>4 DEF RequiredInv, JobStates
    <3>6. j \in JobStates
      BY <1>0, <3>1, <3>2 DEF JobStates, Computing, Calling
    <3>7. JobGood(j, failure[w])
      BY <1>0, <2>1, <3>1, <3>2 DEF JobGood, JobStates, Answering, Delivering, Computing,
         Calling, BodyIn, Verified, Pools
    <3> HIDE DEF j
    <3> QED BY <1>0, <3>3, <3>5, <3>6, <3>7, Unforgotten DEF Becomes
  <2> QED BY <2>2, <2>3
<1>6. CASE StoreResult(w)
  <2>1. failure' = [failure EXCEPT ![w] = Failed(w)] /\ Failed(w) \in BOOLEAN
    BY <1>0, <1>6 DEF StoreResult, Checked, Failed, RequiredInv
  <2>2. Leave(w) \/ (~Refuses(w, job[w].tags) /\ Go(w, "profile"))
    BY <1>6 DEF StoreResult
  <2>3. ASSUME ~Refuses(w, job[w].tags)
        PROVE  JobGood([job[w] EXCEPT !.at = "profile"], Failed(w))
    BY <1>0, <1>6, <2>3 DEF StoreResult, Refuses, Failed, JobGood, JobStates, Answering,
       Delivering, Computing, Calling, BodyIn
  <2>4. "profile" \in stages
    BY DEF Delivering
  <2> QED BY <2>1, <2>2, <2>3, <2>4, Advances
<1>7. CASE UpsertProfile(w)
  <2>1. JobGood([job[w] EXCEPT !.at = "send"], failure[w])
    BY <1>0, <1>7 DEF UpsertProfile, JobGood, JobStates, Answering, Delivering, Computing,
       Calling, BodyIn
  <2>2. failure' = failure /\ (Go(w, "send") \/ Leave(w)) /\ "send" \in stages
    BY <1>7 DEF UpsertProfile, FailRun, Delivering
  <2> QED BY <1>0, <2>1, <2>2, Unforgotten, Advances
<1>8. CASE Send(w)
  <2>1. PICK reached \in {"delivered", "superseded", "rejected",
                       IF job[w].sends + 1 < MaxSends THEN "send" ELSE "unanswered"} :
           job' = [job EXCEPT ![w].at = reached, ![w].sends = @ + 1]
    BY <1>8 DEF Send
  <2> DEFINE n == job[w].sends + 1
             j == [job[w] EXCEPT !.at = reached, !.sends = n]
  <2>2. job' = [job EXCEPT ![w] = j]
    BY <2>1 DEF RequiredInv, JobStates
  <2>3. n \in 0 .. MaxSends /\ (reached = "send" => n < MaxSends)
    BY <1>0, <1>8, <2>1, RequiredAssumption DEF Send, JobGood, JobStates, Answering,
       RequiredAssumption
  <2>4. reached \in {"send"} \cup Answering
    BY <2>1 DEF Answering
  <2> HIDE DEF n
  <2>5. j \in JobStates
    BY <1>0, <2>3, <2>4 DEF JobStates, Delivering
  <2>6. job[w].at = "send" /\ failure' = failure
    BY <1>8 DEF Send
  <2>7. JobGood(j, failure[w])
    BY <1>0, <2>3, <2>4, <2>6 DEF JobGood, JobStates, Answering, Delivering, Computing,
       Calling, BodyIn
  <2> HIDE DEF j
  <2> QED BY <1>0, <2>2, <2>5, <2>6, <2>7, Unforgotten DEF Becomes
<1>9. CASE Unseen(w)
  <2>1. JobGood([job[w] EXCEPT !.at = "unanswered"], failure[w])
    BY <1>0, <1>9 DEF Unseen, JobGood, JobStates, Answering, Delivering, Computing,
       Calling, BodyIn
  <2>2. failure' = failure /\ (Go(w, "unanswered") \/ Leave(w)) /\ "unanswered" \in stages
    BY <1>9 DEF Unseen, Delivering, Answering
  <2> QED BY <1>0, <2>1, <2>2, Unforgotten, Advances
<1>10. CASE StoreAnswer(w)
  BY <1>0, <1>10, Unforgotten, Advances DEF StoreAnswer
<1>11. CASE StoreUnanswered(w)
  <2>1. failure' = [failure EXCEPT ![w] = Failed(w)] /\ Failed(w) \in BOOLEAN /\ Leave(w)
    BY <1>0, <1>11 DEF StoreUnanswered, Checked, Failed, RequiredInv
  <2> QED BY <2>1, Advances
<1> QED BY <1>1, <1>2, <1>3, <1>4, <1>5, <1>6, <1>7, <1>8, <1>9, <1>10, <1>11 DEF WorkerDoes

(* What one worker stores and sends. *)
LEMMA WorkerRows ==
  ASSUME RequiredAssumption, RequiredInv, NEW w \in Workers, WorkerDoes(w)
  PROVE  /\ row' \in [Runs -> RowStates] /\ \A r \in Runs : RowGood(row'[r])
         /\ sent' \in [Runs -> SUBSET Bodies]
         /\ \A r \in Runs : \A b \in sent'[r] : Verified(b)
<1>0. job[w] \in JobStates /\ JobGood(job[w], failure[w])
  BY DEF RequiredInv
<1>1. BodyOf(w) \in Bodies /\ BodyOf(w) # NoRun /\ BodyOf(w) = BodyIn(job[w])
  BY <1>0, RequiredAssumption DEF BodyOf, BodyIn, JobStates, Bodies, RequiredAssumption
<1>2. row' \in [Runs -> RowStates] /\ \A r \in Runs : RowGood(row'[r])
  <2>1. CASE UNCHANGED row
    BY <2>1, SameRows
  <2>2. CASE job[w].at # "idle" /\ (Upsert(w, "FAILED", NoRun) \/ Upsert(w, "RUNNING", NoRun))
    BY <2>2, RowMoves
  <2>3. ASSUME job[w].at # "idle", Verified(BodyOf(w)),
               NEW status \in {"RESULT_READY", "DELIVERED", "SUPERSEDED", "FAILED"},
               Upsert(w, status, BodyOf(w))
        PROVE  row' \in [Runs -> RowStates] /\ \A r \in Runs : RowGood(row'[r])
    BY <1>1, <2>3, RowMoves
  <2>4. CASE StoreResult(w)
    <3>1. ~Refuses(w, job[w].tags) => Verified(BodyOf(w))
      BY <1>0, <1>1, <2>4 DEF StoreResult, Refuses, Failed, JobGood
    <3> QED BY <2>1, <2>2, <2>3, <2>4, <3>1 DEF StoreResult, StoreRefusal
  <2>5. CASE StoreAnswer(w)
    <3>1. job[w].at \in {"delivered", "superseded", "rejected"} /\ Verified(BodyOf(w))
      BY <1>0, <1>1, <2>5 DEF StoreAnswer, StatusOf, JobGood, Delivering, Answering
    <3>2. StatusOf[job[w].at] \in {"DELIVERED", "SUPERSEDED", "FAILED"}
      BY <3>1 DEF StatusOf
    <3> QED BY <2>1, <2>3, <2>5, <3>1, <3>2 DEF StoreAnswer
  <2>6. CASE StoreUnanswered(w)
    <3>1. job[w].at = "unanswered" /\ Verified(BodyOf(w))
      BY <1>0, <1>1, <2>6 DEF StoreUnanswered, JobGood, Delivering, Answering
    <3> QED BY <2>1, <2>2, <2>3, <2>6, <3>1 DEF StoreUnanswered, StoreRefusal
  <2>7. CASE BeginRun(w) \/ Active(w) \/ UpsertProfile(w)
    BY <2>1, <2>2, <2>7 DEF BeginRun, Active, UpsertProfile, FailRun
  <2>8. CASE \/ \E r \in Runs : Take(w, r)
             \/ ExtractTags(w) \/ Embed(w) \/ Send(w) \/ Unseen(w)
    BY <2>1, <2>8 DEF Take, ExtractTags, Embed, Send, Unseen
  <2> QED BY <2>4, <2>5, <2>6, <2>7, <2>8 DEF WorkerDoes
<1>3. /\ sent' \in [Runs -> SUBSET Bodies]
      /\ \A r \in Runs : \A b \in sent'[r] : Verified(b)
  <2>1. CASE Send(w)
    <3>1. job[w].run \in Runs /\ Verified(BodyOf(w))
      BY <1>0, <1>1, <2>1 DEF Send, JobGood, Delivering
    <3>2. sent' = [sent EXCEPT ![job[w].run] = @ \union {BodyOf(w)}]
      BY <2>1 DEF Send
    <3> QED BY <1>1, <3>1, <3>2 DEF RequiredInv
  <2>2. CASE UNCHANGED sent
    BY <2>2 DEF RequiredInv
  <2> QED BY <2>1, <2>2 DEF WorkerDoes, Take, BeginRun, Active, ExtractTags, Embed, StoreResult,
          UpsertProfile, Unseen, StoreAnswer, StoreUnanswered
<1> QED BY <1>2, <1>3

LEMMA RequiredStep ==
  ASSUME RequiredAssumption, RequiredInv, [RequiredNext]_requiredVars
  PROVE  RequiredInv'
<1>1. CASE UNCHANGED requiredVars
  BY <1>1 DEF requiredVars, RequiredInv
<1>2. CASE Search
  BY <1>2 DEF Search, RequiredInv
<1>3. ASSUME NEW w \in Workers, WorkerDoes(w) PROVE RequiredInv'
  <2>1. PICK j, m : Becomes(w, j, m)
    BY <1>3, WorkerJobs
  <2>2. job' \in [Workers -> JobStates] /\ failure' \in [Workers -> BOOLEAN] /\ JobsGood'
    BY <2>1, JobMoves DEF Becomes
  <2>3. taken' \in 0 .. MaxTakes /\ bound' \in BOOLEAN
    <3>1. CASE \E r \in Runs : Take(w, r)
      BY <3>1, RequiredAssumption DEF Take, RequiredInv, RequiredAssumption
    <3>2. CASE UNCHANGED <<bound, taken>>
      BY <3>2 DEF RequiredInv
    <3> QED BY <1>3, <3>1, <3>2 DEF WorkerDoes, BeginRun, Active, ExtractTags, Embed,
            StoreResult, UpsertProfile, Send, Unseen, StoreAnswer, StoreUnanswered
  <2> QED BY <1>3, <2>2, <2>3, WorkerRows DEF RequiredInv, JobsGood
<1> QED BY <1>1, <1>2, <1>3 DEF RequiredNext, WorkerDoes

LEMMA RequiredStarts == ASSUME RequiredAssumption, RequiredInit PROVE RequiredInv
<1>1. NoRow \in RowStates /\ RowGood(NoRow)
  BY DEF NoRow, RowStates, RowGood
<1>2. NoJob \in JobStates /\ JobGood(NoJob, FALSE)
  BY NoJobGood
<1>3. bound \in BOOLEAN /\ failure \in [Workers -> BOOLEAN] /\ taken \in 0 .. MaxTakes
  BY RequiredAssumption DEF RequiredInit, RequiredAssumption
<1>4. job \in [Workers -> JobStates] /\ \A w \in Workers : JobGood(job[w], failure[w])
  <2>1. /\ job = [w \in Workers |-> NoJob] /\ failure = [w \in Workers |-> FALSE]
    BY DEF RequiredInit
  <2> QED BY <1>2, <2>1, Zenon
<1>5. row \in [Runs -> RowStates] /\ \A r \in Runs : RowGood(row[r])
  <2>1. row = [r \in Runs |-> NoRow]
    BY DEF RequiredInit
  <2> QED BY <1>1, <2>1, Zenon
<1>6. sent \in [Runs -> SUBSET Bodies] /\ \A r \in Runs : \A b \in sent[r] : Verified(b)
  BY DEF RequiredInit
<1> QED BY <1>3, <1>4, <1>5, <1>6 DEF RequiredInv

(* For any number of workers, runs, takes and sends, and however often *)
(* Search goes and is bound again: no stored body and none that Backend *)
(* was sent was computed without the tags or the vectors it needed, and a *)
(* thread refuses a result only for what it missed in that job *)
(* (profiler_boundary.py RequiredStore, GuardedEmbedding). *)
THEOREM RequiredIsExecuted ==
  ASSUME RequiredAssumption
  PROVE  RequiredSpec => [](RequiredTypeOK /\ RequiredExecution)
<1>1. RequiredInit => RequiredInv
  BY RequiredStarts
<1>2. RequiredInv /\ [RequiredNext]_requiredVars => RequiredInv'
  BY RequiredStep
<1>3. RequiredInv => RequiredTypeOK
  BY DEF RequiredInv, RequiredTypeOK, JobStates, RowStates, BodyOf, Bodies, AfterCall, StatusOf,
         Computing, Calling, Delivering, Answering
<1>4. RequiredInv => RequiredExecution
  <2>1. ASSUME RequiredInv, NEW w \in Workers, failure[w],
               job[w].at \in {"active", "tags", "ready"} \union DOMAIN AfterCall
        PROVE  job[w].tags = "ok" /\ job[w].pool = "ranked"
    BY <2>1 DEF RequiredInv, JobGood, Computing, Calling, AfterCall
  <2> QED BY <2>1 DEF RequiredInv, RequiredExecution, RowGood
<1> QED BY <1>1, <1>2, <1>3, <1>4, PTL DEF RequiredSpec

-----------------------------------------------------------------------------
(* IncrementalTags: whatever is handed on from version to version, the *)
(* tags and the reviews of the row are those of its own input. *)

Chosen == [text : [Sources -> Texts \cup {NoText}], dislikes : BOOLEAN]

TagRows == [name : Names, dislike : BOOLEAN, edition : Editions,
            refs : SUBSET (Sources \X (Texts \cup {NoText}))]

ProfileRows == [version : 0..MaxInputVersion, pref : Texts \cup {NoText}, dislikes : BOOLEAN,
                tags : SUBSET TagRows, status : {"none", "ok", "skip", "skip_no_signal", "fail", "empty"},
                edition : Editions \cup {NoText}]

RunRows == [at : {"rest", "reading", "extracted", "saving"}, version : 0..MaxInputVersion,
            prev : ProfileRows, hashes : SUBSET (Reviewed \X Texts),
            profile : ProfileRows, seen : SUBSET Reviewed]

TagsTyped ==
    /\ input \in [1..MaxInputVersion -> TriedInputs \cup {NoInput}]
    /\ profileRow \in ProfileRows
    /\ reviews \in [Reviewed -> Texts \cup {NoText}]
    /\ saver \subseteq TagRuns
    /\ run \in [TagRuns -> RunRows]

(* A tag rests on texts of the input it is kept beside. *)
RestsOn(t, in) == t.refs # {} /\ \A e \in t.refs : in.text[e[1]] = e[2]

(* A profile is of its own input, or there is none. *)
OfItsInput(p) ==
    /\ p.version = 0 => p.tags = {}
    /\ p.version > 0 =>
          /\ input[p.version] \in TriedInputs
          /\ p.pref = input[p.version].text[Pref]
          /\ p.dislikes = input[p.version].dislikes
    /\ \A t \in p.tags :
          /\ RestsOn(t, input[p.version])
          /\ t.edition = p.edition
          /\ ~(p.dislikes /\ t.dislike /\ t.name \in Restating)

(* The hashes a run read with a profile are those of its input. *)
HashesOf(p, hashes) ==
    p.version > 0 => \A e \in hashes : input[p.version].text[e[1]] = e[2]

(* What is known of a run r that is at j. *)
TaggerGood(r, j) ==
    /\ (j.at = "saving") = (r \in saver)
    /\ j.at # "rest" => j.version > 0 /\ input[j.version] \in TriedInputs
    /\ j.at = "reading" => OfItsInput(j.prev) /\ HashesOf(j.prev, j.hashes)
    /\ j.at \in {"extracted", "saving"} => OfItsInput(j.profile) /\ j.profile.version > 0
    /\ j.at = "saving" => j.seen = {p \in Reviewed : reviews[p] # NoText}

TagsInv ==
    /\ TagsTyped
    /\ \A p \in ProfileRows : p = profileRow => OfItsInput(p)
    /\ ReviewsOfVersion
    /\ \A r, s \in saver : r = s
    /\ \A r \in TagRuns : \A j \in RunRows : j = run[r] => TaggerGood(r, j)

(* The tags that a profile of this input and of this edition may have. *)
GoodTags(in, edition) == {t \in TagRows : RestsOn(t, in) /\ t.edition = edition}

LEMMA PrefSource == Pref \in Sources /\ Reviewed \subseteq Sources
  BY DEF Sources

LEMMA TagRefs ==
    ASSUME NEW t \in TagRows, NEW refs \in SUBSET (Sources \X (Texts \cup {NoText}))
    PROVE  /\ [t EXCEPT !.refs = refs] \in TagRows
           /\ [t EXCEPT !.refs = refs].refs = refs
           /\ [t EXCEPT !.refs = refs].edition = t.edition
           /\ [t EXCEPT !.refs = refs].name = t.name
           /\ [t EXCEPT !.refs = refs].dislike = t.dislike
  BY DEF TagRows

(* What is kept of an earlier profile rests on texts that are the same. *)
LEMMA KeptTags ==
    ASSUME TagsAssumption, NEW prev \in ProfileRows, prev.version > 0, OfItsInput(prev),
           NEW hashes \in SUBSET (Reviewed \X Texts), HashesOf(prev, hashes),
           NEW in \in Chosen, NEW known
    PROVE  Kept(prev, SameTexts(prev, hashes, in.text, known)) \subseteq GoodTags(in, prev.edition)
  <1> DEFINE same == SameTexts(prev, hashes, in.text, known)
             old == input[prev.version].text
  <1>1. \A s \in same : in.text[s] = old[s]
    <2> SUFFICES ASSUME NEW s \in same
                 PROVE  in.text[s] = old[s]
      OBVIOUS
    <2>1. CASE s = Pref
      BY <2>1 DEF SameTexts, OfItsInput
    <2>2. CASE s # Pref
      <3> DEFINE e == <<s, in.text[s]>>
      <3>1. e \in hashes
        BY <2>2 DEF SameTexts
      <3>2. e[1] = s /\ e[2] = in.text[s]
        OBVIOUS
      <3> HIDE DEF e
      <3> QED
        BY <3>1, <3>2 DEF HashesOf
    <2> QED
      BY <2>1, <2>2
  <1> HIDE DEF same
  <1> SUFFICES ASSUME NEW k \in Kept(prev, same)
               PROVE  k \in GoodTags(in, prev.edition)
    BY DEF same
  <1>2. PICK t \in prev.tags :
           /\ \E e \in t.refs : e[1] \in same
           /\ k = [t EXCEPT !.refs = {e \in @ : e[1] \in same}]
    BY DEF Kept
  <1>3. t \in TagRows /\ t.edition = prev.edition /\ RestsOn(t, input[prev.version])
    BY DEF ProfileRows, OfItsInput
  <1> DEFINE refs == {e \in t.refs : e[1] \in same}
  <1>4. refs # {} /\ refs \in SUBSET (Sources \X (Texts \cup {NoText}))
    BY <1>2, <1>3 DEF TagRows
  <1>5. \A e \in refs : in.text[e[1]] = e[2]
    BY <1>1, <1>3 DEF RestsOn
  <1>6. k = [t EXCEPT !.refs = refs]
    BY <1>2
  <1> HIDE DEF refs
  <1>7. k \in TagRows /\ k.refs = refs /\ k.edition = t.edition
    BY <1>3, <1>4, <1>6, TagRefs
  <1> QED
    BY <1>3, <1>4, <1>5, <1>7 DEF GoodTags, RestsOn

(* What validate lets through of an answer rests on the texts that were *)
(* given. *)
LEMMA NewTags ==
    ASSUME NEW in \in Chosen, NEW sources \in SUBSET Sources, NEW edition \in Editions,
           NEW new \in Answers(in.text, sources, edition)
    PROVE  new \subseteq GoodTags(in, edition)
  <1> SUFFICES ASSUME NEW t \in Validated(in.text, sources, edition)
               PROVE  t \in GoodTags(in, edition)
    BY DEF Answers
  <1>1. PICK n \in Names, d \in BOOLEAN, refs \in SUBSET sources :
           t = [name |-> n, dislike |-> d, edition |-> edition, refs |-> Evidence(in.text, refs)]
    BY DEF Validated
  <1>2. IF t.dislike THEN t.refs # {} ELSE \E e \in t.refs : e[1] = Pref \/ e[2] \notin LowRated
    BY DEF Validated
  <1> DEFINE ev == Evidence(in.text, refs)
  <1>3. \A e \in ev : /\ e \in Sources \X (Texts \cup {NoText})
                      /\ in.text[e[1]] = e[2]
    BY DEF Evidence, Chosen
  <1>4. ev \in SUBSET (Sources \X (Texts \cup {NoText}))
    BY <1>3
  <1> HIDE DEF ev
  <1>5. t = [name |-> n, dislike |-> d, edition |-> edition, refs |-> ev]
    BY <1>1 DEF ev
  <1>6. t \in TagRows /\ t.refs = ev /\ t.edition = edition /\ t.dislike = d
    BY <1>4, <1>5 DEF TagRows
  <1>7. ev # {}
    BY <1>2, <1>6
  <1> QED
    BY <1>3, <1>6, <1>7 DEF GoodTags, RestsOn

LEMMA MergedTags ==
    ASSUME NEW in, NEW edition, NEW kept \in SUBSET GoodTags(in, edition),
           NEW new \in SUBSET GoodTags(in, edition)
    PROVE  Merge(kept, new) \subseteq GoodTags(in, edition)
  <1>1. ASSUME NEW t \in GoodTags(in, edition), NEW u \in GoodTags(in, edition)
        PROVE  Join(t, u) \in GoodTags(in, edition)
    <2>1. CASE t.dislike # u.dislike
      BY <2>1 DEF Join
    <2>2. CASE t.dislike = u.dislike
      <3> DEFINE refs == t.refs \cup u.refs
      <3>1. t \in TagRows /\ u \in TagRows /\ RestsOn(t, in) /\ RestsOn(u, in)
            /\ t.edition = edition
        BY DEF GoodTags
      <3>2. refs \in SUBSET (Sources \X (Texts \cup {NoText})) /\ refs # {}
            /\ \A e \in refs : in.text[e[1]] = e[2]
        BY <3>1 DEF TagRows, RestsOn
      <3>3. Join(t, u) = [t EXCEPT !.refs = refs]
        BY <2>2 DEF Join
      <3> HIDE DEF refs
      <3>4. Join(t, u) \in TagRows /\ Join(t, u).refs = refs /\ Join(t, u).edition = t.edition
        BY <3>1, <3>2, <3>3, TagRefs
      <3> QED
        BY <3>1, <3>2, <3>4 DEF GoodTags, RestsOn
    <2> QED
      BY <2>1, <2>2
  <1> SUFFICES ASSUME NEW m \in Merge(kept, new)
               PROVE  m \in GoodTags(in, edition)
    OBVIOUS
  <1>2. CASE m \in kept \/ m \in new
    BY <1>2
  <1>3. ASSUME NEW p \in kept \X new, m = Join(p[1], p[2])
        PROVE  m \in GoodTags(in, edition)
    <2>1. p[1] \in GoodTags(in, edition) /\ p[2] \in GoodTags(in, edition)
      OBVIOUS
    <2> QED
      BY <1>1, <1>3, <2>1
  <1>4. m \in kept \/ m \in new \/ \E p \in kept \X new : m = Join(p[1], p[2])
    BY DEF Merge
  <1> QED
    BY <1>2, <1>3, <1>4

(* The row that a run makes of good tags is of its input. *)
LEMMA ProfileMade ==
    ASSUME InputsAssumption, TagsTyped, NEW v \in 1..MaxInputVersion, input[v] \in TriedInputs,
           NEW edition \in Editions \cup {NoText}, NEW tags \in SUBSET GoodTags(input[v], edition),
           NEW status \in {"ok", "skip", "skip_no_signal", "fail", "empty"}
    PROVE  /\ ProfileOf(v, tags, status, edition) \in ProfileRows
           /\ ProfileOf(v, tags, status, edition).version = v
           /\ OfItsInput(ProfileOf(v, tags, status, edition))
  <1>1. input[v] \in Chosen
    BY DEF InputsAssumption, Chosen
  <1>2. input[v].text[Pref] \in Texts \cup {NoText} /\ input[v].dislikes \in BOOLEAN
    BY <1>1, PrefSource DEF Chosen
  <1> DEFINE pref == input[v].text[Pref]
             dislikes == input[v].dislikes
             fit == WithoutRestatements(tags, dislikes)
  <1>3. /\ fit \in SUBSET TagRows
        /\ \A t \in fit : /\ t \in GoodTags(input[v], edition)
                          /\ ~(dislikes /\ t.dislike /\ t.name \in Restating)
    BY DEF WithoutRestatements, GoodTags
  <1>4. ProfileOf(v, tags, status, edition) =
           [version |-> v, pref |-> pref, dislikes |-> dislikes, tags |-> fit,
            status |-> status, edition |-> edition]
    BY DEF ProfileOf
  <1> HIDE DEF fit, pref, dislikes
  <1> DEFINE p == ProfileOf(v, tags, status, edition)
  <1>5. /\ p.version = v /\ p.pref = pref /\ p.dislikes = dislikes /\ p.tags = fit
        /\ p.edition = edition
    BY <1>4
  <1>6. v \in 0..MaxInputVersion /\ v > 0
    OBVIOUS
  <1>7. p \in ProfileRows
    BY <1>2, <1>3, <1>4, <1>6 DEF ProfileRows, pref, dislikes
  <1> HIDE DEF p
  <1>8. OfItsInput(p)
    BY <1>3, <1>5, <1>6 DEF OfItsInput, GoodTags, pref, dislikes
  <1> QED
    BY <1>5, <1>7, <1>8 DEF p

LEMMA ExtractedMade ==
    ASSUME InputsAssumption, TagsTyped, NEW v \in 1..MaxInputVersion, input[v] \in TriedInputs,
           NEW edition \in Editions, NEW tags \in SUBSET GoodTags(input[v], edition)
    PROVE  /\ Extracted(v, tags, edition) \in ProfileRows
           /\ Extracted(v, tags, edition).version = v
           /\ OfItsInput(Extracted(v, tags, edition))
  <1> DEFINE p == ProfileOf(v, tags, "ok", edition)
             q == [p EXCEPT !.status = "empty"]
  <1>1. p \in ProfileRows /\ p.version = v /\ OfItsInput(p)
    BY ProfileMade
  <1>2. Extracted(v, tags, edition) = IF p.tags = {} THEN q ELSE p
    BY DEF Extracted
  <1> HIDE DEF p
  <1>3. /\ q \in ProfileRows /\ q.version = p.version /\ q.pref = p.pref
        /\ q.dislikes = p.dislikes /\ q.tags = p.tags /\ q.edition = p.edition
    BY <1>1 DEF ProfileRows
  <1> HIDE DEF q
  <1>4. OfItsInput(q)
    BY <1>1, <1>3 DEF OfItsInput
  <1> QED
    BY <1>1, <1>2, <1>3, <1>4

LEMMA RowFields ==
    ASSUME NEW p \in ProfileRows
    PROVE  /\ p.version \in 0..MaxInputVersion /\ p.pref \in Texts \cup {NoText}
           /\ p.dislikes \in BOOLEAN /\ p.tags \subseteq TagRows
           /\ p.edition \in Editions \cup {NoText}
  BY DEF ProfileRows

LEMMA JobFields ==
    ASSUME NEW j \in RunRows
    PROVE  /\ j.at \in {"rest", "reading", "extracted", "saving"}
           /\ j.version \in 0..MaxInputVersion /\ j.prev \in ProfileRows
           /\ j.hashes \in SUBSET (Reviewed \X Texts) /\ j.profile \in ProfileRows
           /\ j.seen \subseteq Reviewed
  BY DEF RunRows

LEMMA NothingRead ==
    ASSUME TagsAssumption
    PROVE  /\ NoProfile \in ProfileRows /\ NoProfile.version = 0 /\ NoProfile.tags = {}
           /\ OfItsInput(NoProfile)
           /\ Resting \in RunRows /\ Resting.at = "rest"
  <1>1. NoProfile \in ProfileRows /\ NoProfile.version = 0 /\ NoProfile.tags = {}
    BY DEF NoProfile, ProfileRows, TagsAssumption
  <1> HIDE DEF NoProfile
  <1>2. Resting \in RunRows /\ Resting.at = "rest"
    BY <1>1 DEF Resting, RunRows, TagsAssumption
  <1> QED
    BY <1>1, <1>2 DEF OfItsInput

(* An input that was chosen stays: so does what is of it. *)
InputsStay == \A v \in 1..MaxInputVersion : input[v] \in TriedInputs => input'[v] = input[v]

LEMMA ProfileStays ==
    ASSUME TagsAssumption, InputsStay, NEW p \in ProfileRows, OfItsInput(p)
    PROVE  OfItsInput(p)'
  <1>1. p.version = 0 \/ p.version \in 1..MaxInputVersion
    BY RowFields DEF TagsAssumption
  <1>2. CASE p.version = 0
    BY <1>2 DEF OfItsInput
  <1>3. CASE p.version \in 1..MaxInputVersion
    <2>1. input'[p.version] = input[p.version]
      BY <1>3 DEF OfItsInput, InputsStay
    <2> QED
      BY <2>1 DEF OfItsInput
  <1> QED
    BY <1>1, <1>2, <1>3

LEMMA JobStays ==
    ASSUME TagsAssumption, InputsStay, NEW r, NEW j \in RunRows, TaggerGood(r, j),
           (r \in saver') = (r \in saver), j.at = "saving" => reviews' = reviews
    PROVE  TaggerGood(r, j)'
  <1>1. /\ j.at \in {"rest", "reading", "extracted", "saving"}
        /\ j.version \in 0..MaxInputVersion /\ j.prev \in ProfileRows
        /\ j.profile \in ProfileRows
    BY JobFields
  <1>2. j.at # "rest" => j.version > 0 /\ input'[j.version] \in TriedInputs
    BY <1>1 DEF TaggerGood, InputsStay, TagsAssumption
  <1>3. j.at = "reading" => OfItsInput(j.prev)' /\ HashesOf(j.prev, j.hashes)'
    <2> SUFFICES ASSUME j.at = "reading"
                 PROVE  OfItsInput(j.prev)' /\ HashesOf(j.prev, j.hashes)'
      OBVIOUS
    <2>1. OfItsInput(j.prev) /\ HashesOf(j.prev, j.hashes)
      BY DEF TaggerGood
    <2>2. OfItsInput(j.prev)'
      BY <1>1, <2>1, ProfileStays
    <2>3. j.prev.version > 0 => input'[j.prev.version] = input[j.prev.version]
      BY <1>1, <2>1, RowFields DEF OfItsInput, InputsStay, TagsAssumption
    <2>4. HashesOf(j.prev, j.hashes)'
      BY <2>1, <2>3 DEF HashesOf
    <2> QED
      BY <2>2, <2>4
  <1>4. j.at \in {"extracted", "saving"} => OfItsInput(j.profile)' /\ j.profile.version > 0
    BY <1>1, ProfileStays DEF TaggerGood
  <1> QED
    BY <1>2, <1>3, <1>4 DEF TaggerGood

(* A step of one run: the others are where they were. *)
LEMMA OneRuns ==
    ASSUME TagsTyped, NEW r \in TagRuns, NEW j \in RunRows, run' = [run EXCEPT ![r] = j]
    PROVE  /\ run' \in [TagRuns -> RunRows] /\ run'[r] = j
           /\ \A q \in TagRuns : q # r => run'[q] = run[q]
  BY DEF TagsTyped

LEMMA JobOf ==
    ASSUME TagsInv, NEW r \in TagRuns
    PROVE  run[r] \in RunRows /\ TaggerGood(r, run[r])
  <1>1. run[r] \in RunRows
    BY DEF TagsInv, TagsTyped
  <1> QED
    BY <1>1 DEF TagsInv

LEMMA TagsInitially ==
    ASSUME TagsAssumption, TagsInit
    PROVE  TagsInv
  <1>1. /\ NoProfile \in ProfileRows /\ NoProfile.version = 0 /\ OfItsInput(NoProfile)
        /\ Resting \in RunRows /\ Resting.at = "rest"
    BY NothingRead
  <1>2. TagsTyped
    BY <1>1 DEF TagsTyped, TagsInit
  <1>3. \A r \in TagRuns : TaggerGood(r, Resting)
    BY <1>1 DEF TaggerGood, TagsInit
  <1>4. ReviewsOfVersion
    BY <1>1 DEF ReviewsOfVersion, TagsInit
  <1> QED
    BY <1>1, <1>2, <1>3, <1>4 DEF TagsInv, TagsInit

(* A run reads the row and its reviews, which are of one version. *)
LEMMA TagsRead ==
    ASSUME TagsAssumption, InputsAssumption, TagsInv, NEW r \in TagRuns,
           NEW v \in 1..MaxInputVersion, NEW in \in TriedInputs, NEW ok \in BOOLEAN,
           ReadPrevious(r, v, in, ok)
    PROVE  TagsInv'
  <1> DEFINE stored == {<<p, reviews[p]>> : p \in {q \in Reviewed : reviews[q] # NoText}}
             prev == IF ok THEN profileRow ELSE NoProfile
             hashes == IF ok THEN stored ELSE {}
             new == [Resting EXCEPT !.at = "reading", !.version = v, !.prev = prev,
                                    !.hashes = hashes]
  <1>1. /\ NoProfile \in ProfileRows /\ NoProfile.version = 0 /\ OfItsInput(NoProfile)
        /\ Resting \in RunRows
    BY NothingRead
  <1>2. profileRow \in ProfileRows /\ OfItsInput(profileRow)
    BY DEF TagsInv, TagsTyped
  <1>3. prev \in ProfileRows /\ OfItsInput(prev)
    BY <1>1, <1>2
  <1>4. stored \in SUBSET (Reviewed \X Texts)
    BY DEF TagsInv, TagsTyped
  <1>5. HashesOf(prev, hashes)
    <2>1. CASE ~ok
      BY <1>1, <2>1 DEF HashesOf
    <2>2. ASSUME ok, profileRow.version > 0, NEW e \in stored
          PROVE  input[profileRow.version].text[e[1]] = e[2]
      <3>1. PICK p \in Reviewed : e = <<p, reviews[p]>>
        OBVIOUS
      <3>2. reviews[p] = input[profileRow.version].text[p]
        BY <2>2 DEF TagsInv, ReviewsOfVersion
      <3> QED
        BY <3>1, <3>2
    <2> QED
      BY <2>1, <2>2 DEF HashesOf
  <1>6. hashes \in SUBSET (Reviewed \X Texts)
    BY <1>4
  <1>7. run' = [run EXCEPT ![r] = new]
    BY DEF ReadPrevious
  <1> HIDE DEF prev, hashes, stored
  <1>8. /\ new \in RunRows /\ new.at = "reading" /\ new.version = v /\ new.prev = prev
        /\ new.hashes = hashes
    <2>1. v \in 0..MaxInputVersion
      BY DEF TagsAssumption
    <2> QED
      BY <1>1, <1>3, <1>6, <2>1 DEF RunRows
  <1> HIDE DEF new
  <1>9. /\ run' \in [TagRuns -> RunRows] /\ run'[r] = new
        /\ \A q \in TagRuns : q # r => run'[q] = run[q]
    BY <1>7, <1>8, OneRuns DEF TagsInv
  <1>10. /\ input[v] \in {NoInput, in} /\ input' = [input EXCEPT ![v] = in]
         /\ UNCHANGED <<profileRow, reviews, saver>>
    BY DEF ReadPrevious
  <1>11. InputsStay
    BY <1>10 DEF InputsStay, InputsAssumption, TagsInv, TagsTyped
  <1>12. input' \in [1..MaxInputVersion -> TriedInputs \cup {NoInput}] /\ input'[v] = in
    BY <1>10 DEF TagsInv, TagsTyped
  <1>13. TagsTyped'
    BY <1>9, <1>10, <1>12 DEF TagsInv, TagsTyped
  <1>14. \A p \in ProfileRows : p = profileRow' => OfItsInput(p)'
    BY <1>10, <1>11, ProfileStays DEF TagsInv
  <1>15. ReviewsOfVersion'
    <2>1. profileRow.version > 0 => input'[profileRow.version] = input[profileRow.version]
      BY <1>2, <1>11, RowFields DEF OfItsInput, InputsStay, TagsAssumption
    <2> QED
      BY <1>10, <2>1 DEF ReviewsOfVersion, TagsInv
  <1>16. r \notin saver
    BY JobOf DEF ReadPrevious, TaggerGood
  <1>17. \A j \in RunRows : j = new => TaggerGood(r, j)'
    <2> SUFFICES ASSUME NEW j \in RunRows, j = new
                 PROVE  TaggerGood(r, j)'
      OBVIOUS
    <2>1. j.at = "reading" /\ j.version = v /\ j.prev = prev /\ j.hashes = hashes
      BY <1>8
    <2>2. j.prev \in ProfileRows /\ OfItsInput(j.prev) /\ HashesOf(j.prev, j.hashes)
      BY <1>3, <1>5, <2>1
    <2>3. OfItsInput(j.prev)'
      BY <1>11, <2>2, ProfileStays
    <2>4. j.prev.version > 0 => input'[j.prev.version] = input[j.prev.version]
      BY <1>11, <2>2, RowFields DEF OfItsInput, InputsStay, TagsAssumption
    <2>5. HashesOf(j.prev, j.hashes)'
      BY <2>2, <2>4 DEF HashesOf
    <2> QED
      BY <1>10, <1>12, <1>16, <2>1, <2>3, <2>5 DEF TaggerGood
  <1>18. ASSUME NEW q \in TagRuns, NEW j \in RunRows, j = run'[q]
         PROVE  TaggerGood(q, j)'
    <2>1. CASE q = r
      BY <1>9, <1>17, <1>18, <2>1
    <2>2. CASE q # r
      <3>1. j = run[q] /\ TaggerGood(q, j)
        BY <1>9, <1>18, <2>2 DEF TagsInv
      <3> QED
        BY <1>10, <1>11, <3>1, JobStays
    <2> QED
      BY <2>1, <2>2
  <1> QED
    BY <1>10, <1>13, <1>14, <1>15, <1>18 DEF TagsInv

(* The end of an extraction: a row of the run's own input. *)
LEMMA TagsFinish ==
    ASSUME TagsAssumption, InputsAssumption, TagsInv, NEW r \in TagRuns, run[r].at = "reading",
           NEW p \in ProfileRows, OfItsInput(p), p.version > 0, Finish(r, p),
           UNCHANGED <<input, profileRow, reviews, saver>>
    PROVE  TagsInv'
  <1> DEFINE new == [run[r] EXCEPT !.at = "extracted", !.profile = p, !.prev = NoProfile,
                                   !.hashes = {}]
  <1>1. run[r] \in RunRows /\ TaggerGood(r, run[r])
    BY JobOf
  <1>2. NoProfile \in ProfileRows
    BY NothingRead
  <1>3. run' = [run EXCEPT ![r] = new]
    BY DEF Finish
  <1>4. /\ new \in RunRows /\ new.at = "extracted" /\ new.profile = p
        /\ new.version = run[r].version
    BY <1>1, <1>2 DEF RunRows
  <1> HIDE DEF new
  <1>5. /\ run' \in [TagRuns -> RunRows] /\ run'[r] = new
        /\ \A q \in TagRuns : q # r => run'[q] = run[q]
    BY <1>3, <1>4, OneRuns DEF TagsInv
  <1>6. TagsTyped' /\ ReviewsOfVersion'
    BY <1>5 DEF TagsInv, TagsTyped, ReviewsOfVersion
  <1>7. InputsStay
    BY DEF InputsStay
  <1>8. \A x \in ProfileRows : OfItsInput(x) => OfItsInput(x)'
    BY <1>7, ProfileStays
  <1>9. \A x \in ProfileRows : x = profileRow' => OfItsInput(x)'
    BY <1>8 DEF TagsInv
  <1>10. new.version > 0 /\ input[new.version] \in TriedInputs /\ r \notin saver
    BY <1>1, <1>4 DEF TaggerGood
  <1>11. \A j \in RunRows : j = new => TaggerGood(r, j)'
    BY <1>4, <1>8, <1>10 DEF TaggerGood
  <1>12. ASSUME NEW q \in TagRuns, NEW j \in RunRows, j = run'[q]
         PROVE  TaggerGood(q, j)'
    <2>1. CASE q = r
      BY <1>5, <1>11, <1>12, <2>1
    <2>2. CASE q # r
      <3>1. j = run[q] /\ TaggerGood(q, j)
        BY <1>5, <1>12, <2>2 DEF TagsInv
      <3> QED
        BY <1>7, <3>1, JobStays
    <2> QED
      BY <2>1, <2>2
  <1> QED
    BY <1>6, <1>9, <1>12 DEF TagsInv

LEMMA TagsSkip ==
    ASSUME TagsAssumption, InputsAssumption, TagsInv, NEW r \in TagRuns, NEW known,
           NEW edition \in Editions,
           SkipModel(r, known, edition) \/ ModelFails(r, known, edition)
    PROVE  TagsInv'
  <1> DEFINE v == run[r].version
  <1>1. run[r].at = "reading"
    BY DEF SkipModel, ModelFails, MayExtract
  <1>2. v \in 1..MaxInputVersion /\ input[v] \in TriedInputs
    BY <1>1, JobOf, JobFields DEF TaggerGood, TagsAssumption
  <1>3. PICK status \in {"skip", "skip_no_signal", "fail"}, e \in {edition, NoText} :
           Finish(r, ProfileOf(v, {}, status, e)) /\ UNCHANGED <<input, profileRow, reviews, saver>>
    BY DEF SkipModel, ModelFails
  <1>4. {} \in SUBSET GoodTags(input[v], e) /\ e \in Editions \cup {NoText}
    OBVIOUS
  <1> HIDE DEF v
  <1>5. /\ ProfileOf(v, {}, status, e) \in ProfileRows
        /\ ProfileOf(v, {}, status, e).version = v
        /\ OfItsInput(ProfileOf(v, {}, status, e))
    BY <1>2, <1>4, ProfileMade DEF TagsInv
  <1>6. v > 0
    BY <1>2
  <1> QED
    BY <1>1, <1>3, <1>5, <1>6, TagsFinish

LEMMA TagsExtract ==
    ASSUME TagsAssumption, InputsAssumption, TagsInv, NEW r \in TagRuns, NEW known,
           NEW edition \in Editions,
           ExtractAll(r, known, edition) \/ ExtractChanged(r, known, edition)
    PROVE  TagsInv'
  <1> DEFINE v == run[r].version
             in == input[v]
             found == Prepared(in.text, known)
             same == SameTexts(run[r].prev, run[r].hashes, in.text, known)
             kept == Kept(run[r].prev, same)
  <1>1. run[r].at = "reading"
    BY DEF ExtractAll, ExtractChanged, MayExtract
  <1>2. run[r] \in RunRows /\ TaggerGood(r, run[r])
    BY JobOf
  <1>3. v \in 1..MaxInputVersion /\ in \in TriedInputs
    BY <1>1, <1>2, JobFields DEF TaggerGood, TagsAssumption
  <1>4. in \in Chosen
    BY <1>3 DEF InputsAssumption, Chosen
  <1>5. found \in SUBSET Sources
    BY DEF Prepared, Read
  <1>6. UNCHANGED <<input, profileRow, reviews, saver>>
    BY DEF ExtractAll, ExtractChanged
  <1>7. \E tags \in SUBSET GoodTags(in, edition) : Finish(r, Extracted(v, tags, edition))
    <2>1. CASE ExtractAll(r, known, edition)
      <3>1. PICK new \in Answers(in.text, found, edition) : Finish(r, Extracted(v, new, edition))
        BY <2>1 DEF ExtractAll, Plan
      <3>2. new \subseteq GoodTags(in, edition)
        BY <1>4, <1>5, <3>1, NewTags
      <3> QED
        BY <3>1, <3>2
    <2>2. CASE ExtractChanged(r, known, edition)
      <3>1. PICK new \in Answers(in.text, found \ same, edition) :
               Finish(r, Extracted(v, Merge(kept, new), edition))
        BY <2>2 DEF ExtractChanged, Plan
      <3>2. Reusable(run[r].prev, v, edition, in.dislikes)
        BY <2>2 DEF ExtractChanged, Plan
      <3>3. run[r].prev.edition = edition /\ run[r].prev.version > 0
        BY <3>2 DEF Reusable
      <3>4. found \ same \in SUBSET Sources
        BY <1>5
      <3>5. new \subseteq GoodTags(in, edition)
        BY <1>4, <3>1, <3>4, NewTags
      <3>6. /\ run[r].prev \in ProfileRows /\ OfItsInput(run[r].prev)
            /\ run[r].hashes \in SUBSET (Reviewed \X Texts)
            /\ HashesOf(run[r].prev, run[r].hashes)
        BY <1>1, <1>2, JobFields DEF TaggerGood
      <3>7. kept \subseteq GoodTags(in, edition)
        BY <1>4, <3>3, <3>6, KeptTags
      <3>8. Merge(kept, new) \subseteq GoodTags(in, edition)
        BY <3>5, <3>7, MergedTags
      <3> QED
        BY <3>1, <3>8
    <2> QED
      BY <2>1, <2>2
  <1>8. PICK tags \in SUBSET GoodTags(in, edition) : Finish(r, Extracted(v, tags, edition))
    BY <1>7
  <1>9. /\ Extracted(v, tags, edition) \in ProfileRows
        /\ Extracted(v, tags, edition).version = v
        /\ OfItsInput(Extracted(v, tags, edition))
    BY <1>3, ExtractedMade DEF TagsInv
  <1>10. v > 0
    BY <1>3
  <1> HIDE DEF v
  <1> QED
    BY <1>1, <1>6, <1>8, <1>9, <1>10, TagsFinish

LEMMA TagsBegin ==
    ASSUME TagsAssumption, TagsInv, NEW r \in TagRuns, BeginSave(r)
    PROVE  TagsInv'
  <1> DEFINE had == {p \in Reviewed : reviews[p] # NoText}
             new == [run[r] EXCEPT !.at = "saving", !.seen = had]
  <1>1. run[r] \in RunRows /\ TaggerGood(r, run[r])
    BY JobOf
  <1>2. /\ run[r].at = "extracted" /\ saver = {} /\ saver' = {r}
        /\ UNCHANGED <<input, profileRow, reviews>>
        /\ run' = [run EXCEPT ![r] = new]
    BY DEF BeginSave, MayBegin
  <1>3. /\ new \in RunRows /\ new.at = "saving" /\ new.seen = had /\ new.version = run[r].version
        /\ new.profile = run[r].profile
    BY <1>1 DEF RunRows
  <1> HIDE DEF new
  <1>4. /\ run' \in [TagRuns -> RunRows] /\ run'[r] = new
        /\ \A q \in TagRuns : q # r => run'[q] = run[q]
    BY <1>2, <1>3, OneRuns DEF TagsInv
  <1>5. TagsTyped' /\ ReviewsOfVersion'
    BY <1>2, <1>4 DEF TagsInv, TagsTyped, ReviewsOfVersion
  <1>6. InputsStay
    BY <1>2 DEF InputsStay
  <1>7. \A x \in ProfileRows : OfItsInput(x) => OfItsInput(x)'
    BY <1>6, ProfileStays
  <1>8. \A x \in ProfileRows : x = profileRow' => OfItsInput(x)'
    BY <1>2, <1>7 DEF TagsInv
  <1>9. /\ new.version > 0 /\ input[new.version] \in TriedInputs
        /\ new.profile \in ProfileRows /\ OfItsInput(new.profile) /\ new.profile.version > 0
    BY <1>1, <1>2, <1>3, JobFields DEF TaggerGood
  <1>10. \A j \in RunRows : j = new => TaggerGood(r, j)'
    BY <1>2, <1>3, <1>7, <1>9 DEF TaggerGood
  <1>11. ASSUME NEW q \in TagRuns, NEW j \in RunRows, j = run'[q]
         PROVE  TaggerGood(q, j)'
    <2>1. CASE q = r
      BY <1>4, <1>10, <1>11, <2>1
    <2>2. CASE q # r
      <3>1. j = run[q] /\ TaggerGood(q, j)
        BY <1>4, <1>11, <2>2 DEF TagsInv
      <3> QED
        BY <1>2, <1>6, <2>2, <3>1, JobStays
    <2> QED
      BY <2>1, <2>2
  <1> QED
    BY <1>2, <1>5, <1>8, <1>11 DEF TagsInv

(* A run ends and gives the lock back; the row and the reviews may be new. *)
LEMMA TagsEnd ==
    ASSUME TagsAssumption, TagsInv, NEW r \in TagRuns, run' = [run EXCEPT ![r] = Resting],
           saver' = saver \ {r}, UNCHANGED input,
           UNCHANGED reviews \/ r \in saver,
           profileRow' \in ProfileRows, reviews' \in [Reviewed -> Texts \cup {NoText}],
           \A p \in ProfileRows : p = profileRow' => OfItsInput(p), ReviewsOfVersion'
    PROVE  TagsInv'
  <1>1. Resting \in RunRows /\ Resting.at = "rest"
    BY NothingRead
  <1>2. /\ run' \in [TagRuns -> RunRows] /\ run'[r] = Resting
        /\ \A q \in TagRuns : q # r => run'[q] = run[q]
    BY <1>1, OneRuns DEF TagsInv
  <1>3. TagsTyped'
    BY <1>2 DEF TagsInv, TagsTyped
  <1>4. InputsStay
    BY DEF InputsStay
  <1>5. \A x \in ProfileRows : x = profileRow' => OfItsInput(x)'
    BY <1>4, ProfileStays
  <1>6. \A j \in RunRows : j = Resting => TaggerGood(r, j)'
    BY <1>1 DEF TaggerGood
  <1>7. ASSUME NEW q \in TagRuns, NEW j \in RunRows, j = run'[q]
        PROVE  TaggerGood(q, j)'
    <2>1. CASE q = r
      BY <1>2, <1>6, <1>7, <2>1
    <2>2. CASE q # r
      <3>1. j = run[q] /\ TaggerGood(q, j)
        BY <1>2, <1>7, <2>2 DEF TagsInv
      <3>2. j.at = "saving" => reviews' = reviews
        BY <2>2, <3>1 DEF TaggerGood, TagsInv
      <3> QED
        BY <1>4, <2>2, <3>1, <3>2, JobStays
    <2> QED
      BY <2>1, <2>2
  <1> QED
    BY <1>3, <1>5, <1>7 DEF TagsInv

LEMMA TagsGiveUp ==
    ASSUME TagsAssumption, TagsInv, NEW r \in TagRuns, EndRun(r)
    PROVE  TagsInv'
  <1>1. /\ run' = [run EXCEPT ![r] = Resting] /\ saver' = saver \ {r}
        /\ UNCHANGED <<input, profileRow, reviews>>
    BY DEF EndRun
  <1>2. ReviewsOfVersion' /\ profileRow' \in ProfileRows /\ reviews' \in [Reviewed -> Texts \cup {NoText}]
    BY <1>1 DEF TagsInv, TagsTyped, ReviewsOfVersion
  <1>3. \A p \in ProfileRows : p = profileRow' => OfItsInput(p)
    BY <1>1 DEF TagsInv
  <1> QED
    BY <1>1, <1>2, <1>3, TagsEnd

(* The save writes the row and, beside it, exactly its reviews: under the *)
(* lock it saw all that were there. *)
LEMMA TagsSave ==
    ASSUME TagsAssumption, InputsAssumption, TagsInv, NEW r \in TagRuns, SaveProfile(r)
    PROVE  TagsInv'
  <1> DEFINE p == run[r].profile
             text == input[p.version].text
  <1>1. run[r] \in RunRows /\ TaggerGood(r, run[r]) /\ run[r].at = "saving"
    BY JobOf DEF SaveProfile
  <1>2. /\ r \in saver /\ run[r].seen = {q \in Reviewed : reviews[q] # NoText}
        /\ p \in ProfileRows /\ OfItsInput(p) /\ p.version > 0
    BY <1>1, JobFields DEF TaggerGood
  <1>3. input[p.version] \in Chosen
    BY <1>2 DEF OfItsInput, InputsAssumption, Chosen
  <1>4. /\ run' = [run EXCEPT ![r] = Resting] /\ saver' = saver \ {r} /\ UNCHANGED input
    BY DEF SaveProfile
  <1>5. CASE UNCHANGED <<profileRow, reviews>>
    <2>1. ReviewsOfVersion' /\ profileRow' \in ProfileRows
          /\ reviews' \in [Reviewed -> Texts \cup {NoText}]
      BY <1>4, <1>5 DEF TagsInv, TagsTyped, ReviewsOfVersion
    <2>2. \A x \in ProfileRows : x = profileRow' => OfItsInput(x)
      BY <1>5 DEF TagsInv
    <2> QED
      BY <1>4, <1>5, <2>1, <2>2, TagsEnd
  <1>6. CASE /\ profileRow' = p
             /\ reviews' = [q \in Reviewed |-> IF text[q] # NoText THEN text[q]
                                               ELSE IF q \in run[r].seen THEN NoText
                                               ELSE reviews[q]]
    <2>1. \A q \in Reviewed : text[q] \in Texts \cup {NoText}
      BY <1>3 DEF Chosen, Sources
    <2>2. \A q \in Reviewed : reviews'[q] = text[q]
      BY <1>2, <1>6
    <2>3. reviews' \in [Reviewed -> Texts \cup {NoText}]
      BY <1>6, <2>1 DEF TagsInv, TagsTyped
    <2>4. ReviewsOfVersion'
      BY <1>4, <1>6, <2>2 DEF ReviewsOfVersion
    <2>5. profileRow' \in ProfileRows /\ \A x \in ProfileRows : x = profileRow' => OfItsInput(x)
      BY <1>2, <1>6
    <2> QED
      BY <1>2, <1>4, <2>3, <2>4, <2>5, TagsEnd
  <1> QED
    BY <1>5, <1>6 DEF SaveProfile

LEMMA TagsStep ==
    ASSUME TagsAssumption, InputsAssumption, TagsInv, [TagsNext]_tagsVars
    PROVE  TagsInv'
  <1>1. CASE UNCHANGED tagsVars
    <2>1. InputsStay /\ UNCHANGED <<input, profileRow, reviews, saver, run>>
      BY <1>1 DEF InputsStay, tagsVars
    <2>2. TagsTyped' /\ ReviewsOfVersion'
      BY <2>1 DEF TagsInv, TagsTyped, ReviewsOfVersion
    <2>3. \A x \in ProfileRows : x = profileRow' => OfItsInput(x)'
      BY <2>1, ProfileStays DEF TagsInv
    <2>4. \A q \in TagRuns : \A j \in RunRows : j = run'[q] => TaggerGood(q, j)'
      BY <2>1, JobStays DEF TagsInv
    <2> QED
      BY <2>1, <2>2, <2>3, <2>4 DEF TagsInv
  <1> QED
    BY <1>1, TagsRead, TagsSkip, TagsExtract, TagsBegin, TagsSave, TagsGiveUp DEF TagsNext

LEMMA TagsPromises ==
    ASSUME TagsAssumption, InputsAssumption, TagsInv
    PROVE  TagsTypeOK /\ TagsFitTheRow /\ ReviewsOfVersion
  <1>1. profileRow \in ProfileRows /\ OfItsInput(profileRow)
    BY DEF TagsInv, TagsTyped
  <1>2. TagsFitTheRow
    BY <1>1 DEF TagsFitTheRow, OfItsInput, RestsOn
  <1>3. saver = {} \/ \E r \in saver : saver = {r}
    BY DEF TagsInv
  <1>4. Cardinality(saver) <= 1
    BY <1>3, FS_EmptySet, FS_Singleton
  <1>5. \A r \in TagRuns : /\ run[r].at \in {"rest", "reading", "extracted", "saving"}
                        /\ (run[r].at = "saving") = (r \in saver)
    BY JobOf, JobFields DEF TaggerGood
  <1>6. TagsTypeOK
    BY <1>1, <1>4, <1>5, RowFields DEF TagsTypeOK, OfItsInput, TagsInv, TagsTyped
  <1> QED
    BY <1>2, <1>6 DEF TagsInv

(* Through any chain of versions, re-used tags, failures and saves out of *)
(* order, each tag of the stored profile rests on texts of the row's own *)
(* input, and the reviews beside it are those of that input. *)
THEOREM TagsAreOfTheRow ==
    ASSUME TagsAssumption, InputsAssumption
    PROVE  TagsSpec => [](TagsTypeOK /\ TagsFitTheRow /\ ReviewsOfVersion)
  <1>1. TagsInit => TagsInv
    BY TagsInitially
  <1>2. TagsInv /\ [TagsNext]_tagsVars => TagsInv'
    BY TagsStep
  <1>3. TagsInv => TagsTypeOK /\ TagsFitTheRow /\ ReviewsOfVersion
    BY TagsPromises
  <1> QED
    BY <1>1, <1>2, <1>3, PTL DEF TagsSpec

-----------------------------------------------------------------------------
(* The catalog that the Profiler reads (CatalogLoads). *)

VersionRows == [package : Packages, rule : Rules \cup {Nowhere}, model : {"model", Nowhere}]
Marks == {<<>>} \cup (Nat \X Rules)
ProductRows == [package : Packages, content : Nat, tags : Marks, vector : BOOLEAN]
ServedRows == [id : ProductIds, content : Nat, tags : Marks]
LoadStages == {"rest", "polled", "load", "tags", "swap", "hand"}
LoadReads == [version : Nat, products : SUBSET ServedRows, rule : Rules \cup {Nowhere},
          state : {"none", "ok", "stale"}, torn : BOOLEAN]
LoadReaders == [at : LoadStages, polled : Nat, shown : Nat]
BetweenReads == {"tags", "swap"}

TablesTyped ==
  /\ versions \in Seq(VersionRows) /\ Len(versions) <= MaxVersions
  /\ activeVersion \in 0..Len(versions)
  /\ product \in [ProductIds -> ProductRows \cup {NoProductRow}]
  /\ embedding \in 0..Len(versions)

ReaderTyped ==
  /\ ruled \in Rules /\ cachedVersion \in Nat
  /\ loaded \in [version : Nat, products : SUBSET ServedRows, state : {"none", "ok", "stale"},
                torn : BOOLEAN]
  /\ lock \in Threads \cup {Nowhere}
  /\ rows \in LoadReads
  /\ thread \in [Threads -> LoadReaders]

OneLoads == \A t \in Threads : thread[t].at \in {"load", "tags", "swap"} <=> lock = t

(* What is read of a version was there, and versions only grow. *)
ReaderKnows(t) ==
  /\ thread[t].polled <= activeVersion /\ thread[t].shown <= loaded.version
  /\ thread[t].at = "hand" => thread[t].polled <= cachedVersion
  /\ thread[t].at \in BetweenReads =>
       /\ rows.version \in 1..activeVersion
       /\ thread[t].polled <= rows.version /\ cachedVersion <= rows.version
  /\ thread[t].at = "swap" => rows.version = cachedVersion
VersionsGrow ==
  /\ loaded.version <= cachedVersion /\ cachedVersion <= activeVersion
  /\ Swapping \/ loaded.version = cachedVersion
  /\ \A t \in Threads : ReaderKnows(t)

(* While every load makes its version the active one: products are of that *)
(* version or older ones, and its tags were computed from what they say. *)
TablesFit ==
  /\ activeVersion = Len(versions)
  /\ \A p \in ProductIds : ~Absent(p) => product[p].content <= activeVersion
  /\ activeVersion # 0 /\ versions[activeVersion].rule # Nowhere =>
       \A p \in RowsOf(activeVersion) :
         product[p].tags = <<product[p].content, versions[activeVersion].rule>>

RowsFit ==
  \A t \in Threads : thread[t].at \in BetweenReads =>
    /\ \A served \in rows.products : served.content <= rows.version
    /\ rows.rule # Nowhere => \A served \in rows.products : served.tags = <<served.content, rows.rule>>
    /\ thread[t].at = "swap" /\ rows.state = "ok" /\ ~rows.torn => rows.rule = ruled

CacheFits ==
  /\ \A served \in loaded.products : served.content <= loaded.version
  /\ TagsAreComputed

LoadsInv ==
  /\ TablesTyped /\ ReaderTyped /\ OneLoads /\ VersionsGrow
  /\ ~Inactive => TablesFit /\ RowsFit /\ CacheFits

LEMMA LoadsStart ==
  ASSUME LoadsAssumption, LoadsInit
  PROVE  LoadsInv
<1>1. versions = <<>> /\ Len(versions) = 0 /\ versions \in Seq(VersionRows)
  BY DEF LoadsInit
<1>2. TablesTyped
  BY <1>1 DEF LoadsInit, TablesTyped, LoadsAssumption
<1>3. ReaderTyped
  BY DEF LoadsInit, ReaderTyped, NotRead, Asleep, LoadStages, LoadReads, LoadReaders
<1>4. OneLoads /\ VersionsGrow
  BY DEF LoadsInit, OneLoads, VersionsGrow, ReaderKnows, BetweenReads, Asleep, LoadsAssumption
<1>5. TablesFit /\ RowsFit /\ CacheFits
  BY <1>1 DEF LoadsInit, TablesFit, RowsFit, CacheFits, TagsAreComputed, Absent, NoProductRow, Asleep,
         BetweenReads
<1> QED BY <1>2, <1>3, <1>4, <1>5 DEF LoadsInv

(* The tables change, nobody reads. *)
LEMMA TablesMove ==
  ASSUME LoadsAssumption, LoadsInv, TablesTyped', activeVersion <= activeVersion',
         ~Inactive => TablesFit', UNCHANGED reader
  PROVE  LoadsInv'
<1>1. UNCHANGED <<ruled, cachedVersion, loaded, lock, rows, thread>>
  BY DEF reader
<1>2. ReaderTyped' /\ OneLoads'
  BY <1>1 DEF LoadsInv, ReaderTyped, OneLoads
<1>3. activeVersion \in Nat /\ activeVersion' \in Nat
  BY DEF LoadsInv, TablesTyped
<1>4. /\ cachedVersion \in Nat /\ rows.version \in Nat
      /\ \A t \in Threads : thread[t].polled \in Nat
  BY DEF LoadsInv, ReaderTyped, LoadReads, LoadReaders
<1>5. VersionsGrow'
  BY <1>1, <1>3, <1>4 DEF LoadsInv, VersionsGrow, ReaderKnows, Swapping
<1>6. ~Inactive => RowsFit' /\ CacheFits'
  BY <1>1 DEF LoadsInv, RowsFit, CacheFits, TagsAreComputed
<1> QED BY <1>2, <1>5, <1>6 DEF LoadsInv

LEMMA LoadCatalogKeeps ==
  ASSUME LoadsAssumption, LoadsInv, NEW package \in Packages, NEW ids \in SUBSET ProductIds,
         NEW activate \in BOOLEAN, LoadCatalog(package, ids, activate)
  PROVE  LoadsInv'
<1>1. /\ versions \in Seq(VersionRows) /\ Len(versions) \in Nat /\ Len(versions) <= MaxVersions
      /\ activeVersion \in 0..Len(versions) /\ product \in [ProductIds -> ProductRows \cup {NoProductRow}]
      /\ embedding \in 0..Len(versions) /\ MaxVersions \in Nat
  BY DEF LoadsInv, TablesTyped, LoadsAssumption
<1>2. PICK v, new : v = Len(versions) + 1 /\ new = [package |-> package, rule |-> Nowhere, model |-> Nowhere]
  OBVIOUS
<1>3. /\ Len(versions) < MaxVersions /\ (activate \/ Inactive)
      /\ versions' = Append(versions, new)
      /\ product' = [p \in ProductIds |-> IF p \in ids THEN Written(p, package, v) ELSE product[p]]
      /\ activeVersion' = IF activate THEN v ELSE activeVersion
      /\ UNCHANGED <<embedding, reader>>
  BY <1>2 DEF LoadCatalog
<1>4. new \in VersionRows /\ new.rule = Nowhere
  BY <1>2 DEF VersionRows
<1>5. /\ versions' \in Seq(VersionRows) /\ Len(versions') = v /\ versions'[v] = new /\ v \in Nat
      /\ \A k \in 1..Len(versions) : versions'[k] = versions[k]
  BY <1>1, <1>2, <1>3, <1>4
<1>6. \A p \in ProductIds : product[p] # NoProductRow => product[p] \in ProductRows /\ ~Absent(p)
  BY <1>1 DEF Absent, ProductRows, LoadsAssumption
<1>7. \A p \in ProductIds :
        Written(p, package, v) \in ProductRows /\ Written(p, package, v).content = v
  <2> SUFFICES ASSUME NEW p \in ProductIds
               PROVE  Written(p, package, v) \in ProductRows /\ Written(p, package, v).content = v
    OBVIOUS
  <2>1. CASE Absent(p)
    <3>1. Written(p, package, v) = [package |-> package, content |-> v, tags |-> <<>>, vector |-> FALSE]
      BY <2>1 DEF Written
    <3> QED BY <1>5, <3>1 DEF ProductRows, Marks
  <2>2. CASE ~Absent(p)
    <3>1. product[p] \in ProductRows
      BY <1>1, <2>2 DEF Absent, NoProductRow
    <3>2. Written(p, package, v) = [product[p] EXCEPT !.package = package, !.content = v]
      BY <2>2 DEF Written
    <3> QED BY <1>5, <3>1, <3>2 DEF ProductRows
  <2> QED BY <2>1, <2>2
<1>8. product' \in [ProductIds -> ProductRows \cup {NoProductRow}]
  BY <1>1, <1>3, <1>7
<1>9. TablesTyped' /\ activeVersion <= activeVersion'
  BY <1>1, <1>2, <1>3, <1>5, <1>8 DEF TablesTyped
<1>10. ASSUME ~Inactive PROVE TablesFit'
  <2>1. activeVersion' = v /\ Len(versions') = v /\ activeVersion = Len(versions)
    BY <1>3, <1>5, <1>10 DEF LoadsInv, TablesFit
  <2>2. \A p \in ProductIds : Absent(p)' \/ product'[p].content <= v
    <3> SUFFICES ASSUME NEW p \in ProductIds PROVE Absent(p)' \/ product'[p].content <= v
      OBVIOUS
    <3>1. CASE p \in ids
      BY <1>3, <1>5, <1>7, <3>1
    <3>2. CASE p \notin ids
      <4>1. product'[p] = product[p]
        BY <1>3, <3>2
      <4>2. ~Absent(p) => product[p] \in ProductRows /\ product[p].content <= Len(versions)
        BY <1>1, <1>10, <2>1 DEF LoadsInv, TablesFit, Absent, NoProductRow
      <4>3. product[p] \in ProductRows => product[p].content \in Nat
        BY DEF ProductRows
      <4> QED BY <1>1, <1>2, <4>1, <4>2, <4>3 DEF Absent
    <3> QED BY <3>1, <3>2
  <2>3. versions'[activeVersion'].rule = Nowhere
    BY <1>4, <1>5, <2>1
  <2> QED BY <2>1, <2>2, <2>3 DEF TablesFit, Absent
<1> QED BY <1>3, <1>9, <1>10, TablesMove

LEMMA LoadTagsKeeps ==
  ASSUME LoadsAssumption, LoadsInv, NEW rule \in Rules, NEW ifChanged \in BOOLEAN,
         LoadTags(rule, ifChanged)
  PROVE  LoadsInv'
<1>1. /\ versions \in Seq(VersionRows) /\ Len(versions) \in Nat /\ Len(versions) <= MaxVersions
      /\ activeVersion \in 1..Len(versions) /\ product \in [ProductIds -> ProductRows \cup {NoProductRow}]
      /\ embedding \in 0..Len(versions)
      /\ \A k \in 1..Len(versions) : versions[k] \in VersionRows
  BY ElementOfSeq DEF LoadsInv, TablesTyped, LoadTags
<1>2. /\ product' = [p \in ProductIds |->
            IF p \in RowsOf(activeVersion) THEN [product[p] EXCEPT !.tags = <<product[p].content, rule>>]
                                           ELSE product[p]]
      /\ versions' = [versions EXCEPT ![activeVersion].rule = rule]
      /\ UNCHANGED <<activeVersion, embedding, reader>>
  BY DEF LoadTags
<1>3. PICK a, new : a = activeVersion /\ new = [versions[a] EXCEPT !.rule = rule]
  OBVIOUS
<1>4. new \in VersionRows /\ new.rule = rule /\ new.package = versions[a].package
  BY <1>1, <1>3 DEF VersionRows
<1>5. /\ versions' \in Seq(VersionRows) /\ Len(versions') = Len(versions) /\ versions'[a] = new
  <2>1. versions' = [versions EXCEPT ![a] = new]
    BY <1>2, <1>3
  <2> QED BY <1>1, <1>3, <1>4, <2>1
<1>6. ASSUME NEW p \in RowsOf(a)
      PROVE  product[p] \in ProductRows /\ product'[p] \in ProductRows
             /\ product'[p].package = product[p].package /\ product'[p].content = product[p].content
             /\ product'[p].tags = <<product[p].content, rule>>
  <2>1. p \in ProductIds /\ product[p].package \in Packages
    BY <1>1, <1>3 DEF RowsOf, VersionRows
  <2>2. product[p] \in ProductRows
    BY <1>1, <2>1 DEF NoProductRow, LoadsAssumption
  <2>3. product'[p] = [product[p] EXCEPT !.tags = <<product[p].content, rule>>]
    BY <1>2, <1>3, <1>6, <2>1
  <2>4. <<product[p].content, rule>> \in Marks
    BY <2>2 DEF ProductRows, Marks
  <2> QED BY <2>2, <2>3, <2>4 DEF ProductRows
<1>7. \A p \in ProductIds \ RowsOf(a) : product'[p] = product[p]
  BY <1>2, <1>3
<1>8. \A p \in ProductIds : product'[p].package = product[p].package
  BY <1>6, <1>7
<1>9. product' \in [ProductIds -> ProductRows \cup {NoProductRow}]
  BY <1>1, <1>2, <1>6, <1>7
<1>10. TablesTyped' /\ activeVersion <= activeVersion'
  BY <1>1, <1>2, <1>5, <1>9 DEF TablesTyped
<1>11. ASSUME ~Inactive PROVE TablesFit'
  <2>1. activeVersion' = a /\ Len(versions') = a
    BY <1>2, <1>3, <1>5, <1>11 DEF LoadsInv, TablesFit
  <2>2. \A p \in ProductIds : Absent(p)' \/ product'[p].content <= a
    BY <1>3, <1>6, <1>7, <1>8, <1>11 DEF LoadsInv, TablesFit, Absent
  <2>3. \A p \in ProductIds : p \in RowsOf(a)' => p \in RowsOf(a)
    BY <1>4, <1>5, <1>8 DEF RowsOf
  <2>4. \A p \in RowsOf(a)' : product'[p].tags = <<product'[p].content, versions'[a].rule>>
    BY <1>4, <1>5, <1>6, <2>3 DEF RowsOf
  <2>5. RowsOf(activeVersion)' = RowsOf(a)'
    BY <2>1 DEF RowsOf
  <2> QED BY <2>1, <2>2, <2>4, <2>5 DEF TablesFit, Absent
<1> QED BY <1>2, <1>10, <1>11, TablesMove

LEMMA LoadEmbeddingsKeeps ==
  ASSUME LoadsAssumption, LoadsInv, LoadEmbeddings
  PROVE  LoadsInv'
<1>1. /\ versions \in Seq(VersionRows) /\ Len(versions) \in Nat /\ Len(versions) <= MaxVersions
      /\ activeVersion \in 0..Len(versions) /\ product \in [ProductIds -> ProductRows \cup {NoProductRow}]
      /\ embedding \in 1..Len(versions)
      /\ \A k \in 1..Len(versions) : versions[k] \in VersionRows
  BY ElementOfSeq DEF LoadsInv, TablesTyped, LoadEmbeddings
<1>2. /\ product' = [p \in ProductIds |->
            IF Absent(p) THEN product[p] ELSE [product[p] EXCEPT !.vector = TRUE]]
      /\ versions' = [versions EXCEPT ![embedding].model = "model"]
      /\ embedding' = 0 /\ UNCHANGED <<activeVersion, reader>>
  BY DEF LoadEmbeddings
<1>3. PICK e, new : e = embedding /\ new = [versions[e] EXCEPT !.model = "model"]
  OBVIOUS
<1>4. new \in VersionRows /\ new.rule = versions[e].rule /\ new.package = versions[e].package
  BY <1>1, <1>3 DEF VersionRows
<1>5. versions' = [versions EXCEPT ![e] = new]
  BY <1>2, <1>3
<1>6. /\ versions' \in Seq(VersionRows) /\ Len(versions') = Len(versions)
      /\ \A k \in 1..Len(versions) : versions'[k].rule = versions[k].rule
                                     /\ versions'[k].package = versions[k].package
  BY <1>1, <1>3, <1>4, <1>5
<1>7. ASSUME NEW p \in ProductIds
      PROVE  product'[p] \in ProductRows \cup {NoProductRow} /\ product'[p].package = product[p].package
             /\ (~Absent(p) => /\ product'[p].content = product[p].content
                               /\ product'[p].tags = product[p].tags)
  <2>1. CASE Absent(p)
    BY <1>1, <1>2, <2>1
  <2>2. CASE ~Absent(p)
    <3>1. product[p] \in ProductRows
      BY <1>1, <2>2 DEF Absent, NoProductRow
    <3>2. product'[p] = [product[p] EXCEPT !.vector = TRUE]
      BY <1>2, <2>2
    <3> QED BY <3>1, <3>2 DEF ProductRows
  <2> QED BY <2>1, <2>2
<1>8. product' \in [ProductIds -> ProductRows \cup {NoProductRow}]
  BY <1>2, <1>7
<1>9. TablesTyped' /\ activeVersion <= activeVersion'
  BY <1>1, <1>2, <1>6, <1>8 DEF TablesTyped
<1>10. ASSUME ~Inactive PROVE TablesFit'
  <2>1. activeVersion' = activeVersion /\ activeVersion = Len(versions) /\ Len(versions') = Len(versions)
    BY <1>2, <1>6, <1>10 DEF LoadsInv, TablesFit
  <2>2. \A p \in ProductIds : Absent(p)' \/ product'[p].content <= activeVersion
    BY <1>7, <1>10 DEF LoadsInv, TablesFit, Absent
  <2>3. activeVersion # 0 /\ versions'[activeVersion].rule # Nowhere =>
          \A p \in ProductIds : product'[p].package = versions'[activeVersion].package =>
            product'[p].tags = <<product'[p].content, versions'[activeVersion].rule>>
    <3> SUFFICES ASSUME activeVersion # 0, versions'[activeVersion].rule # Nowhere, NEW p \in ProductIds,
                        product'[p].package = versions'[activeVersion].package
                 PROVE  product'[p].tags = <<product'[p].content, versions'[activeVersion].rule>>
      OBVIOUS
    <3>1. activeVersion \in 1..Len(versions) /\ versions[activeVersion].package \in Packages
      BY <1>1 DEF VersionRows
    <3>2. product[p].package = versions[activeVersion].package
          /\ versions'[activeVersion].rule = versions[activeVersion].rule
      BY <1>6, <1>7, <3>1
    <3>3. ~Absent(p) /\ p \in RowsOf(activeVersion)
      BY <3>1, <3>2 DEF Absent, RowsOf, LoadsAssumption
    <3>4. product[p].tags = <<product[p].content, versions[activeVersion].rule>>
      BY <1>10, <3>2, <3>3 DEF LoadsInv, TablesFit
    <3> QED BY <1>7, <3>2, <3>3, <3>4
  <2> QED BY <2>1, <2>2, <2>3 DEF TablesFit, Absent, RowsOf
<1> QED BY <1>2, <1>9, <1>10, TablesMove

LEMMA ReadActiveKeeps ==
  ASSUME LoadsAssumption, LoadsInv, NEW ifEmpty \in BOOLEAN, ReadActive(ifEmpty)
  PROVE  LoadsInv'
<1>1. embedding' = activeVersion /\ UNCHANGED <<versions, activeVersion, product, reader>>
  BY DEF ReadActive
<1>2. TablesTyped' /\ activeVersion <= activeVersion'
  BY <1>1 DEF LoadsInv, TablesTyped
<1>3. ~Inactive => TablesFit'
  BY <1>1 DEF LoadsInv, TablesFit, Absent, RowsOf
<1> QED BY <1>1, <1>2, <1>3, TablesMove

(* One thread moves on, between the reads. *)
LEMMA ThreadMoves ==
  ASSUME LoadsAssumption, LoadsInv, NEW t \in Threads,
         NEW w \in LoadReaders, thread' = [thread EXCEPT ![t] = w], w.at \notin BetweenReads,
         w.polled <= activeVersion, w.shown <= loaded.version,
         w.at = "hand" => w.polled <= cachedVersion,
         thread[t].at \notin BetweenReads \/ (thread[t].at = "tags" /\ lock' # t),
         lock' \in Threads \cup {Nowhere},
         lock' = lock \/ (lock = t /\ lock' = Nowhere) \/ (lock = Nowhere /\ lock' = t),
         w.at = "load" <=> lock' = t,
         UNCHANGED <<database, ruled, cachedVersion, loaded>>,
         UNCHANGED rows \/ (rows' = NotRead /\ lock = t)
  PROVE  LoadsInv'
<1>1. UNCHANGED <<versions, activeVersion, product, embedding, ruled, cachedVersion, loaded>>
  BY DEF database
<1>2. /\ thread \in [Threads -> LoadReaders] /\ thread' \in [Threads -> LoadReaders]
      /\ thread'[t] = w /\ \A u \in Threads \ {t} : thread'[u] = thread[u]
  BY DEF LoadsInv, ReaderTyped
<1>3. TablesTyped' /\ (~Inactive => TablesFit')
  BY <1>1 DEF LoadsInv, TablesTyped, TablesFit, Absent, RowsOf
<1>4. NotRead \in LoadReads
  BY DEF NotRead, LoadReads
<1>5. ReaderTyped'
  BY <1>1, <1>2, <1>4 DEF LoadsInv, ReaderTyped
<1>6. OneLoads'
  <2>1. \A u \in Threads \ {t} : lock' = u <=> lock = u
    BY DEF LoadsAssumption
  <2> QED BY <1>2, <2>1 DEF LoadsInv, OneLoads, BetweenReads
<1>7. \A u \in Threads : thread'[u].at \in BetweenReads => u # t /\ thread[u].at \in BetweenReads /\ rows' = rows
  BY <1>2 DEF LoadsInv, OneLoads, BetweenReads
<1>8. VersionsGrow'
  <2>1. Swapping <=> Swapping'
    BY <1>2 DEF Swapping, BetweenReads
  <2>2. ASSUME NEW u \in Threads PROVE ReaderKnows(u)'
    <3>1. CASE u = t
      BY <1>1, <1>2, <3>1 DEF ReaderKnows, BetweenReads
    <3>2. CASE u # t
      BY <1>1, <1>2, <1>7, <3>2 DEF LoadsInv, VersionsGrow, ReaderKnows, BetweenReads
    <3> QED BY <3>1, <3>2
  <2> QED BY <1>1, <2>1, <2>2 DEF LoadsInv, VersionsGrow
<1>9. ~Inactive => RowsFit' /\ CacheFits'
  <2>1. \A u \in Threads : thread'[u].at \in BetweenReads => thread'[u] = thread[u]
    BY <1>2, <1>7
  <2> QED BY <1>1, <1>7, <2>1 DEF LoadsInv, RowsFit, CacheFits, TagsAreComputed
<1> QED BY <1>3, <1>5, <1>6, <1>8, <1>9 DEF LoadsInv

LEMMA ReadProductsKeeps ==
  ASSUME LoadsAssumption, LoadsInv, NEW t \in Threads, ReadProducts(t)
  PROVE  LoadsInv'
<1>1. /\ versions \in Seq(VersionRows) /\ activeVersion \in 0..Len(versions) /\ Len(versions) \in Nat
      /\ product \in [ProductIds -> ProductRows \cup {NoProductRow}]
      /\ thread \in [Threads -> LoadReaders]
      /\ thread[t].at = "load" /\ lock = t /\ thread[t].polled <= activeVersion
      /\ thread[t] \in LoadReaders /\ thread[t].shown <= loaded.version
      /\ cachedVersion \in Nat /\ cachedVersion <= activeVersion
  BY DEF LoadsInv, TablesTyped, ReaderTyped, OneLoads, VersionsGrow, ReaderKnows, ReadProducts
<1>2. CASE MovesTo(t, "rest") /\ lock' = Nowhere /\ UNCHANGED rows
  <2>1. PICK w : w = [thread[t] EXCEPT !.at = "rest"]
    OBVIOUS
  <2>2. w \in LoadReaders /\ w.at = "rest" /\ w.polled = thread[t].polled
        /\ w.shown = thread[t].shown
    BY <1>1, <2>1 DEF LoadStages, LoadReaders
  <2>3. thread' = [thread EXCEPT ![t] = w]
    BY <1>2, <2>1 DEF MovesTo
  <2>4. UNCHANGED <<database, ruled, cachedVersion, loaded>>
    BY DEF ReadProducts
  <2> QED BY <1>1, <1>2, <2>2, <2>3, <2>4, ThreadMoves DEF LoadsAssumption, BetweenReads
<1>3. CASE ~(MovesTo(t, "rest") /\ lock' = Nowhere /\ UNCHANGED rows)
  <2>1. PICK got, w, ps : /\ ps = {[id |-> p, content |-> product[p].content,
                                    tags |-> product[p].tags] : p \in RowsOf(activeVersion)}
                          /\ got = [version |-> activeVersion, rule |-> versions[activeVersion].rule,
                                    state |-> "none", torn |-> FALSE, products |-> ps]
                          /\ w = [thread[t] EXCEPT !.at = "tags"]
    OBVIOUS
  <2>2. /\ activeVersion # 0 /\ rows' = got /\ thread' = [thread EXCEPT ![t] = w]
        /\ UNCHANGED <<versions, activeVersion, product, embedding, ruled, cachedVersion, loaded, lock>>
    BY <1>3, <2>1 DEF ReadProducts, VersionRead, MovesTo, database
  <2>3. versions[activeVersion] \in VersionRows /\ activeVersion \in 1..Len(versions)
    BY <1>1, <2>2, ElementOfSeq
  <2>4. \A p \in RowsOf(activeVersion) : p \in ProductIds /\ product[p] \in ProductRows /\ ~Absent(p)
    BY <1>1, <2>3 DEF RowsOf, NoProductRow, VersionRows, LoadsAssumption, Absent
  <2>5. ps \subseteq ServedRows
    BY <2>1, <2>4 DEF ServedRows, ProductRows
  <2>6. /\ got \in LoadReads
        /\ got.version = activeVersion /\ got.products = ps /\ got.rule = versions[activeVersion].rule
    BY <1>1, <2>1, <2>3, <2>5 DEF VersionRows, LoadReads
  <2>7. /\ w \in LoadReaders /\ w.at = "tags" /\ w.polled = thread[t].polled
        /\ w.shown = thread[t].shown
    BY <1>1, <2>1 DEF LoadStages, LoadReaders
  <2>8. /\ thread' \in [Threads -> LoadReaders]
        /\ thread'[t] = w /\ \A u \in Threads \ {t} : thread'[u] = thread[u]
    BY <1>1, <2>2, <2>7
  <2>9. TablesTyped' /\ ReaderTyped'
    BY <2>2, <2>6, <2>8 DEF LoadsInv, TablesTyped, ReaderTyped
  <2>10. OneLoads'
    BY <1>1, <2>2, <2>7, <2>8 DEF LoadsInv, OneLoads
  <2>11. \A u \in Threads : thread'[u].at \in BetweenReads => u = t
    BY <1>1, <2>2, <2>8 DEF LoadsInv, OneLoads, BetweenReads
  <2>12. VersionsGrow'
    <3>1. ~Swapping /\ ~Swapping'
      BY <1>1, <2>7, <2>8 DEF Swapping, LoadsInv, OneLoads
    <3>2. ReaderKnows(t)'
      BY <1>1, <2>2, <2>3, <2>6, <2>7, <2>8 DEF ReaderKnows, BetweenReads
    <3>3. ASSUME NEW u \in Threads, u # t PROVE ReaderKnows(u)'
      BY <2>2, <2>8, <2>11, <3>3 DEF LoadsInv, VersionsGrow, ReaderKnows, BetweenReads
    <3> QED BY <2>2, <3>1, <3>2, <3>3 DEF LoadsInv, VersionsGrow
  <2>13. ASSUME ~Inactive PROVE TablesFit' /\ RowsFit' /\ CacheFits'
    <3>1. TablesFit /\ CacheFits
      BY <2>13 DEF LoadsInv
    <3>2. TablesFit' /\ CacheFits'
      BY <2>2, <3>1 DEF TablesFit, Absent, RowsOf, CacheFits, TagsAreComputed
    <3>3. \A p \in RowsOf(activeVersion) : product[p].content <= activeVersion
      BY <2>4, <3>1 DEF TablesFit
    <3>4. \A served \in ps : served.content <= activeVersion
      BY <2>1, <3>3
    <3>5. versions[activeVersion].rule # Nowhere =>
            \A p \in RowsOf(activeVersion) : product[p].tags = <<product[p].content, versions[activeVersion].rule>>
      BY <2>2, <3>1 DEF TablesFit
    <3>6. versions[activeVersion].rule # Nowhere =>
            \A served \in ps : served.tags = <<served.content, versions[activeVersion].rule>>
      BY <2>1, <3>5
    <3> QED BY <2>2, <2>6, <2>7, <2>8, <2>11, <3>2, <3>4, <3>6 DEF RowsFit
  <2> QED BY <2>9, <2>10, <2>12, <2>13 DEF LoadsInv
<1> QED BY <1>2, <1>3

LEMMA SetVersionKeeps ==
  ASSUME LoadsAssumption, LoadsInv, NEW t \in Threads, SetVersion(t)
  PROVE  LoadsInv'
<1>1. /\ thread \in [Threads -> LoadReaders] /\ thread[t] \in LoadReaders
      /\ thread[t].at = "tags" /\ lock = t /\ rows \in LoadReads /\ ReaderKnows(t)
      /\ activeVersion \in Nat /\ cachedVersion \in Nat /\ loaded.version \in Nat
      /\ loaded.version <= cachedVersion
  BY DEF LoadsInv, TablesTyped, ReaderTyped, OneLoads, VersionsGrow, SetVersion
<1>2. PICK new, w : /\ new = [rows EXCEPT !.state = TagsState(rows.version),
                                          !.torn = rows.rule # versions[rows.version].rule]
                    /\ w = [thread[t] EXCEPT !.at = "swap"]
  OBVIOUS
<1>3. /\ cachedVersion' = rows.version /\ rows' = new /\ thread' = [thread EXCEPT ![t] = w]
      /\ UNCHANGED <<versions, activeVersion, product, embedding, ruled, loaded, lock>>
  BY <1>2 DEF SetVersion, MovesTo, database
<1>4. /\ TagsState(rows.version) \in {"none", "ok", "stale"}
      /\ TagsState(rows.version) = "ok" => versions[rows.version].rule = ruled
  BY DEF TagsState
<1>5. /\ new \in LoadReads /\ new.version = rows.version /\ new.products = rows.products
      /\ new.rule = rows.rule
      /\ new.state = "ok" /\ ~new.torn => rows.rule = ruled
  BY <1>1, <1>2, <1>4 DEF LoadReads
<1>6. /\ w \in LoadReaders /\ w.at = "swap" /\ w.polled = thread[t].polled
      /\ w.shown = thread[t].shown
  BY <1>1, <1>2 DEF LoadStages, LoadReaders
<1>7. /\ thread' \in [Threads -> LoadReaders] /\ thread'[t] = w
      /\ \A u \in Threads \ {t} : thread'[u] = thread[u]
  BY <1>1, <1>3, <1>6
<1>8. TablesTyped' /\ ReaderTyped' /\ OneLoads'
  <2>1. rows.version \in Nat
    BY <1>1 DEF LoadReads
  <2> QED BY <1>1, <1>3, <1>5, <1>6, <1>7, <2>1 DEF LoadsInv, TablesTyped, ReaderTyped, OneLoads
<1>9. \A u \in Threads : thread'[u].at \in BetweenReads => u = t
  BY <1>1, <1>7 DEF LoadsInv, OneLoads, BetweenReads
<1>10. VersionsGrow'
  <2>1. Swapping'
    BY <1>6, <1>7 DEF Swapping
  <2>2. cachedVersion <= rows.version /\ rows.version \in 1..activeVersion
        /\ thread[t].polled <= rows.version
    BY <1>1 DEF ReaderKnows, BetweenReads
  <2>3. ReaderKnows(t)'
    BY <1>1, <1>3, <1>5, <1>6, <1>7, <2>2 DEF ReaderKnows, BetweenReads
  <2>4. ASSUME NEW u \in Threads, u # t PROVE ReaderKnows(u)'
    <3>1. thread[u] \in LoadReaders /\ ReaderKnows(u)
      BY <1>1 DEF LoadsInv, VersionsGrow
    <3> QED BY <1>1, <1>3, <1>7, <1>9, <2>2, <2>4, <3>1 DEF ReaderKnows, BetweenReads, LoadReaders
  <2> QED BY <1>1, <1>3, <2>1, <2>2, <2>3, <2>4 DEF VersionsGrow
<1>11. ASSUME ~Inactive PROVE TablesFit' /\ RowsFit' /\ CacheFits'
  <2>1. TablesFit' /\ CacheFits'
    BY <1>3, <1>11 DEF LoadsInv, TablesFit, Absent, RowsOf, CacheFits, TagsAreComputed
  <2>2. RowsFit'
    BY <1>1, <1>3, <1>5, <1>9, <1>11 DEF LoadsInv, RowsFit, BetweenReads
  <2> QED BY <2>1, <2>2
<1> QED BY <1>8, <1>10, <1>11 DEF LoadsInv

LEMMA PublishKeeps ==
  ASSUME LoadsAssumption, LoadsInv, NEW t \in Threads, PutInPlace(t)
  PROVE  LoadsInv'
<1>1. /\ thread \in [Threads -> LoadReaders] /\ thread[t] \in LoadReaders
      /\ thread[t].at = "swap" /\ lock = t /\ rows \in LoadReads /\ ReaderKnows(t)
      /\ rows.version = cachedVersion /\ cachedVersion \in Nat /\ cachedVersion <= activeVersion
      /\ loaded.version \in Nat /\ loaded.version <= cachedVersion
  BY DEF LoadsInv, TablesTyped, ReaderTyped, OneLoads, VersionsGrow, ReaderKnows, PutInPlace
<1>2. PICK new, w : /\ new = [version |-> rows.version, products |-> rows.products,
                              state |-> rows.state, torn |-> rows.torn]
                    /\ w = [thread[t] EXCEPT !.at = "hand"]
  OBVIOUS
<1>3. /\ loaded' = new /\ rows' = NotRead /\ lock' = Nowhere /\ thread' = [thread EXCEPT ![t] = w]
      /\ UNCHANGED <<versions, activeVersion, product, embedding, ruled, cachedVersion>>
  BY <1>2 DEF PutInPlace, MovesTo, database
<1>4. /\ new \in [version : Nat, products : SUBSET ServedRows, state : {"none", "ok", "stale"},
                  torn : BOOLEAN]
      /\ new.version = rows.version /\ new.products = rows.products
      /\ new.state = rows.state /\ new.torn = rows.torn
  BY <1>1, <1>2 DEF LoadReads
<1>5. /\ w \in LoadReaders /\ w.at = "hand" /\ w.polled = thread[t].polled
      /\ w.shown = thread[t].shown
  BY <1>1, <1>2 DEF LoadStages, LoadReaders
<1>6. /\ thread' \in [Threads -> LoadReaders] /\ thread'[t] = w
      /\ \A u \in Threads \ {t} : thread'[u] = thread[u]
  BY <1>1, <1>3, <1>5
<1>7. TablesTyped' /\ ReaderTyped'
  <2>1. NotRead \in LoadReads
    BY DEF NotRead, LoadReads
  <2> QED BY <1>3, <1>4, <1>6, <2>1 DEF LoadsInv, TablesTyped, ReaderTyped
<1>8. \A u \in Threads : thread'[u].at \notin {"load", "tags", "swap"}
  BY <1>1, <1>5, <1>6 DEF LoadsInv, OneLoads
<1>9. OneLoads'
  BY <1>3, <1>8 DEF OneLoads, LoadsAssumption
<1>10. VersionsGrow'
  <2>1. ReaderKnows(t)'
    BY <1>1, <1>3, <1>4, <1>5, <1>6 DEF ReaderKnows, BetweenReads, LoadReaders
  <2>2. ASSUME NEW u \in Threads, u # t PROVE ReaderKnows(u)'
    <3>1. thread[u] \in LoadReaders /\ ReaderKnows(u)
      BY <1>1 DEF LoadsInv, VersionsGrow
    <3> QED BY <1>1, <1>3, <1>4, <1>6, <1>8, <2>2, <3>1 DEF ReaderKnows, BetweenReads, LoadReaders
  <2> QED BY <1>1, <1>3, <1>4, <2>1, <2>2 DEF VersionsGrow
<1>11. ASSUME ~Inactive PROVE TablesFit' /\ RowsFit' /\ CacheFits'
  <2>1. TablesFit' /\ RowsFit'
    BY <1>3, <1>8, <1>11 DEF LoadsInv, TablesFit, Absent, RowsOf, RowsFit, BetweenReads
  <2>2. /\ \A served \in rows.products : served.content <= rows.version
        /\ rows.rule # Nowhere =>
             \A served \in rows.products : served.tags = <<served.content, rows.rule>>
        /\ rows.state = "ok" /\ ~rows.torn => rows.rule = ruled
    BY <1>1, <1>11 DEF LoadsInv, RowsFit, BetweenReads
  <2>3. ruled \in Rules /\ ruled # Nowhere
    BY DEF LoadsInv, ReaderTyped, LoadsAssumption
  <2> QED BY <1>3, <1>4, <2>1, <2>2, <2>3 DEF CacheFits, TagsAreComputed
<1> QED BY <1>7, <1>9, <1>10, <1>11 DEF LoadsInv

LEMMA ThreadStepKeeps ==
  ASSUME LoadsAssumption, LoadsInv, NEW t \in Threads, ThreadStep(t)
  PROVE  LoadsInv'
<1>1. /\ thread \in [Threads -> LoadReaders] /\ thread[t] \in LoadReaders
      /\ thread[t].polled <= activeVersion /\ activeVersion \in Nat
      /\ loaded.version \in Nat /\ thread[t].shown <= loaded.version
      /\ thread[t].at \in {"load", "tags", "swap"} <=> lock = t
      /\ lock \in Threads \cup {Nowhere} /\ t # Nowhere
  BY DEF LoadsInv, TablesTyped, ReaderTyped, VersionsGrow, ReaderKnows, OneLoads, LoadsAssumption
(* The record of the thread, gone to another place. *)
<1>2. ASSUME NEW at \in LoadStages
      PROVE  \E w \in LoadReaders :
               /\ w = [thread[t] EXCEPT !.at = at] /\ w.at = at
               /\ w.polled = thread[t].polled /\ w.shown = thread[t].shown
  <2>1. PICK w : w = [thread[t] EXCEPT !.at = at]
    OBVIOUS
  <2>2. /\ w \in LoadReaders /\ w.at = at
        /\ w.polled = thread[t].polled /\ w.shown = thread[t].shown
    BY <1>1, <2>1 DEF LoadReaders
  <2> QED BY <2>1, <2>2
<1> USE DEF BetweenReads
<1>3. CASE PollVersion(t)
  <2>1. PICK w : w = [at |-> "polled", polled |-> activeVersion, shown |-> loaded.version]
    OBVIOUS
  <2>2. /\ w \in LoadReaders /\ w.at = "polled" /\ w.polled = activeVersion
        /\ w.shown = loaded.version
    BY <1>1, <2>1 DEF LoadStages, LoadReaders
  <2>3. /\ thread[t].at = "rest" /\ thread' = [thread EXCEPT ![t] = w]
        /\ UNCHANGED <<database, ruled, cachedVersion, loaded>> /\ UNCHANGED rows /\ lock' = lock
    BY <1>3, <2>1 DEF PollVersion
  <2>4. /\ lock' \in Threads \cup {Nowhere} /\ (w.at = "load" <=> lock' = t)
        /\ w.polled <= activeVersion /\ w.shown <= loaded.version
    BY <1>1, <2>2, <2>3
  <2> QED BY <1>1, <2>2, <2>3, <2>4, ThreadMoves
<1>4. CASE UpToDate(t)
  <2>1. PICK w \in LoadReaders :
          /\ w = [thread[t] EXCEPT !.at = "hand"] /\ w.at = "hand"
          /\ w.polled = thread[t].polled /\ w.shown = thread[t].shown
    BY <1>2 DEF LoadStages
  <2>2. /\ thread[t].at = "polled" /\ thread' = [thread EXCEPT ![t] = w] /\ w.polled = cachedVersion
        /\ UNCHANGED <<database, ruled, cachedVersion, loaded>> /\ UNCHANGED rows /\ lock' = lock
    BY <1>4, <2>1 DEF UpToDate, Outdated, MovesTo
  <2>3. /\ lock' \in Threads \cup {Nowhere} /\ (w.at = "load" <=> lock' = t)
        /\ w.polled <= cachedVersion
    BY <1>1, <2>1, <2>2 DEF LoadReaders
  <2> QED BY <1>1, <2>1, <2>2, <2>3, ThreadMoves
<1>5. CASE Acquire(t)
  <2>1. PICK w \in LoadReaders :
          /\ w = [thread[t] EXCEPT !.at = "load"] /\ w.at = "load"
          /\ w.polled = thread[t].polled /\ w.shown = thread[t].shown
    BY <1>2 DEF LoadStages
  <2>2. /\ thread[t].at = "polled" /\ thread' = [thread EXCEPT ![t] = w]
        /\ UNCHANGED <<database, ruled, cachedVersion, loaded>> /\ UNCHANGED rows
        /\ lock = Nowhere /\ lock' = t
    BY <1>5, <2>1 DEF Acquire, MovesTo
  <2> QED BY <1>1, <2>1, <2>2, ThreadMoves
<1>6. CASE LoadFails(t)
  <2>1. PICK w \in LoadReaders :
          /\ w = [thread[t] EXCEPT !.at = "rest"] /\ w.at = "rest"
          /\ w.polled = thread[t].polled /\ w.shown = thread[t].shown
    BY <1>2 DEF LoadStages
  <2>2. /\ thread[t].at \in {"load", "tags"} /\ thread' = [thread EXCEPT ![t] = w]
        /\ UNCHANGED <<database, ruled, cachedVersion, loaded>> /\ rows' = NotRead /\ lock' = Nowhere
    BY <1>6, <2>1 DEF LoadFails, MovesTo
  <2> QED BY <1>1, <2>1, <2>2, ThreadMoves
<1>7. CASE HandOver(t)
  <2>1. PICK w : w = Asleep
    OBVIOUS
  <2>2. w \in LoadReaders /\ w.at = "rest" /\ w.polled = 0 /\ w.shown = 0
    BY <2>1 DEF LoadStages, Asleep, LoadReaders
  <2>3. /\ thread[t].at = "hand" /\ thread' = [thread EXCEPT ![t] = w]
        /\ UNCHANGED <<database, ruled, cachedVersion, loaded>> /\ UNCHANGED rows /\ lock' = lock
    BY <1>7, <2>1 DEF HandOver
  <2>4. /\ lock' \in Threads \cup {Nowhere} /\ (w.at = "load" <=> lock' = t)
        /\ w.polled <= activeVersion /\ w.shown <= loaded.version
    BY <1>1, <2>2, <2>3
  <2> QED BY <1>1, <2>2, <2>3, <2>4, ThreadMoves
<1> QED BY <1>3, <1>4, <1>5, <1>6, <1>7, ReadProductsKeeps, SetVersionKeeps, PublishKeeps DEF ThreadStep

LEMMA LoadsKeep ==
  ASSUME LoadsAssumption, LoadsInv, [LoadsNext]_loadsVars
  PROVE  LoadsInv'
<1>1. CASE UNCHANGED <<versions, activeVersion, product, embedding, ruled, cachedVersion, loaded,
                      lock, rows, thread>>
  <2>1. TablesTyped' /\ ReaderTyped' /\ OneLoads' /\ VersionsGrow'
    BY <1>1 DEF LoadsInv, TablesTyped, ReaderTyped, OneLoads, VersionsGrow, ReaderKnows, Swapping
  <2>2. ~Inactive => TablesFit' /\ RowsFit' /\ CacheFits'
    BY <1>1 DEF LoadsInv, TablesFit, Absent, RowsOf, RowsFit, CacheFits, TagsAreComputed
  <2> QED BY <2>1, <2>2 DEF LoadsInv
<1>2. CASE UNCHANGED loadsVars \/ OpenVectors
  BY <1>1, <1>2 DEF loadsVars, OpenVectors, database
<1>3. ASSUME NEW package \in Packages, NEW ids \in SUBSET ProductIds, NEW activate \in BOOLEAN,
             (\E ifEmpty \in BOOLEAN : LoadBundle(package, ids, activate, ifEmpty))
               \/ LoadPackage(package, ids, activate)
      PROVE  LoadsInv'
  BY <1>3, LoadCatalogKeeps DEF LoadBundle, LoadPackage
<1>4. ASSUME NEW t \in Threads, ThreadStep(t) PROVE LoadsInv'
  BY <1>4, ThreadStepKeeps
<1> QED BY <1>2, <1>3, <1>4, LoadTagsKeeps, ReadActiveKeeps, LoadEmbeddingsKeeps DEF LoadsNext

(* For any packages, products, rules and threads: the pair a request is *)
(* handed is never older than the version that was active when it asked, *)
(* or, while another thread is between setting _version and _snapshot, the *)
(* pair that was there when it asked; no version comes with products that *)
(* are newer while every load makes its version active, and stored tags are *)
(* used only where they are what the process would compute itself *)
(* (catalog.py, load_catalog.py). *)
THEOREM ServedProductsAreOfOneVersion ==
  ASSUME LoadsAssumption
  PROVE  LoadsSpec => [](ServedIsOneVersion /\ (~Inactive => TagsAreComputed))
<1>1. LoadsInit => LoadsInv
  BY LoadsStart
<1>2. LoadsInv /\ [LoadsNext]_loadsVars => LoadsInv'
  BY LoadsKeep
<1>3. LoadsInv => ServedIsOneVersion /\ (~Inactive => TagsAreComputed)
  <2> SUFFICES ASSUME LoadsInv PROVE ServedIsOneVersion /\ (~Inactive => TagsAreComputed)
    OBVIOUS
  <2>1. /\ \A t \in Threads : thread[t].polled \in Nat /\ thread[t].shown \in Nat
        /\ loaded.version \in Nat
    BY DEF LoadsInv, ReaderTyped, LoadReaders
  <2> QED BY <2>1 DEF LoadsInv, VersionsGrow, ReaderKnows, CacheFits, ServedIsOneVersion
<1> QED BY <1>1, <1>2, <1>3, PTL DEF LoadsSpec

(* The catalog's readers keep to their types, and one of them loads. *)
THEOREM LoadsTypes ==
  ASSUME LoadsAssumption
  PROVE  LoadsSpec => []LoadsTypeOK
<1>1. LoadsInit => LoadsInv
  BY LoadsStart
<1>2. LoadsInv /\ [LoadsNext]_loadsVars => LoadsInv'
  BY LoadsKeep
<1>3. LoadsInv => LoadsTypeOK
  <2> SUFFICES ASSUME LoadsInv PROVE LoadsTypeOK
    OBVIOUS
  <2>1. loaded.version \in 0..MaxVersions /\ cachedVersion \in 0..MaxVersions
    BY LoadsAssumption DEF LoadsInv, TablesTyped, ReaderTyped, VersionsGrow, LoadsAssumption
  <2>2. \A p \in ProductIds : product[p].package \in Packages \cup {Nowhere}
    BY DEF LoadsInv, TablesTyped, ProductRows, NoProductRow
  <2> QED BY <2>1, <2>2 DEF LoadsInv, TablesTyped, ReaderTyped, OneLoads, LoadReaders, LoadStages,
              LoadsTypeOK
<1> QED BY <1>1, <1>2, <1>3, PTL DEF LoadsSpec

-----------------------------------------------------------------------------
(* The tags of products and of people (TagVocabulary). *)

(* A set of numbers has a least one: the intervals below them are finite, *)
(* and the strict subset order on finite sets is well-founded. *)
LEMMA SmallestIndex ==
  ASSUME NEW S \in SUBSET Nat, S # {}
  PROVE  \E i \in S : \A j \in S : i <= j
<1> DEFINE Below == {0..i : i \in S}
<1>1. Below # {}
  OBVIOUS
<1>2. Below \subseteq FiniteSubsetsOf(Nat)
  <2> SUFFICES ASSUME NEW i \in S PROVE 0..i \in SUBSET Nat /\ IsFiniteSet(0..i)
    BY DEF FiniteSubsetsOf
  <2> QED BY FS_Interval
<1>3. IsWellFoundedOn(StrictSubsetOrdering(Nat), FiniteSubsetsOf(Nat))
  BY FS_StrictSubsetOrderingWellFounded
<1> HIDE DEF Below
<1>4. PICK b \in Below : \A c \in Below : ~(<<c, b>> \in StrictSubsetOrdering(Nat))
  BY <1>1, <1>2, <1>3, WFMin
<1>5. PICK i \in S : b = 0..i
  BY DEF Below
<1>6. ASSUME NEW j \in S, j < i PROVE FALSE
  <2>1. 0..j \in Below
    BY DEF Below
  <2>2. 0..j \subseteq 0..i /\ 0..j # 0..i /\ 0..j \in SUBSET Nat /\ 0..i \in SUBSET Nat
    BY <1>6
  <2> QED BY <1>4, <1>5, <2>1, <2>2 DEF StrictSubsetOrdering
<1> QED BY <1>6

(* What tags a thread may have computed for a product, whatever brands it *)
(* found: the partner of the product is among them or not. *)
PartnersOf(p) == SUBSET {Shelf[p].partner}
Asks == {q.tag : q \in Questions}
NamingStages == {"rest", "look", "check", "name", "keep", "answered", "failed"}
ShelfPartners == {Shelf[p].partner : p \in Shelved}
Namings == [at : NamingStages, product : Shelved \cup {NoProduct}, dislike : Asks \cup {NoProduct},
            key : Nat, partner : SUBSET ShelfPartners, hit : BOOLEAN,
            clean : BOOLEAN]
UnderWay == {"look", "check", "name", "keep"}

VocabularyTyped ==
  /\ key \in Nat
  /\ setter \in [at : {"idle", "clear", "update", "count"},
                 new : {{}} \cup {BrandsOf(c) : c \in Catalogs}]
  /\ naming \in [Namers -> Namings]

(* A thread computes for the brands there were or are, never for later *)
(* ones; what it asks is in the vocabulary. *)
NamingFits ==
  \A t \in Namers :
    LET q == naming[t]
    IN  /\ q.at # "rest" => q.product \in Shelved /\ q.dislike \in Asks
        /\ q.at \in UnderWay => q.key <= key /\ Canonicals(q.dislike) # {}
        /\ q.at \in {"look", "check", "name"} => q.partner = {}
        /\ q.at = "keep" => q.partner \in PartnersOf(q.product)
        /\ setter.at = "idle" /\ q.key = key =>
             /\ q.at = "name" => Partner(q.product, brands) # {}
             /\ q.at = "keep" => q.partner = Partner(q.product, brands)

ComputedFits ==
  \A e \in computed :
    /\ e.key \in Nat /\ e.key <= key
    /\ \E P \in PartnersOf(e.product) : e.tags = TagsWith(e.product, P)
    /\ setter.at = "idle" /\ e.key = key => e.tags = TagsOf(e.product, brands)

(* A question during which the brands stay. *)
CleanFits ==
  \A t \in Namers :
    LET q == naming[t]
    IN  q.clean =>
          /\ setter.at = "idle" /\ q.at # "failed"
          /\ q.at \in UnderWay => q.key = key
          /\ q.at = "answered" =>
               q.hit = IF Canonicals(q.dislike) = {} THEN Literal(q.dislike, q.product)
                       ELSE Hits(q.dislike, q.product, TagsOf(q.product, brands))

AnswerFits ==
  \A t \in Namers :
    LET q == naming[t]
    IN  q.at = "answered" /\ Canonicals(q.dislike) # {} =>
          \E P \in PartnersOf(q.product) : q.hit = Hits(q.dislike, q.product, TagsWith(q.product, P))

VocabularyInv == VocabularyTyped /\ NamingFits /\ ComputedFits /\ CleanFits /\ AnswerFits

LEMMA PartnerIsOfTheProduct ==
  ASSUME NEW p, NEW known
  PROVE  Partner(p, known) \in PartnersOf(p)
BY DEF Partner, PartnersOf

LEMMA VocabularyStarts ==
  ASSUME VocabularyInit
  PROVE  VocabularyInv
<1>1. VocabularyTyped
  BY DEF VocabularyInit, VocabularyTyped, Namings, NamingStages, NotNaming
<1>2. NamingFits /\ ComputedFits /\ CleanFits /\ AnswerFits
  BY DEF VocabularyInit, NamingFits, ComputedFits, CleanFits, AnswerFits, NotNaming, UnderWay
<1> QED BY <1>1, <1>2 DEF VocabularyInv

(* The brands are set. *)
LEMMA SetterKeeps ==
  ASSUME VocabularyInv, (\E c \in Catalogs : SetBrands(c)) \/ Clear \/ Update \/ CountUp
  PROVE  VocabularyInv'
<1>1. CASE \E c \in Catalogs : SetBrands(c)
  <2>1. /\ setter.at = "idle" /\ setter'.at = "clear" /\ UNCHANGED <<brands, key, computed>>
        /\ naming' = [t \in Namers |-> [naming[t] EXCEPT !.clean = FALSE]]
        /\ setter' \in [at : {"idle", "clear", "update", "count"},
                        new : {{}} \cup {BrandsOf(c) : c \in Catalogs}]
    BY <1>1 DEF SetBrands
  <2>2. \A t \in Namers :
          /\ naming'[t] \in Namings /\ naming'[t].clean = FALSE
          /\ naming'[t].at = naming[t].at /\ naming'[t].product = naming[t].product
          /\ naming'[t].dislike = naming[t].dislike /\ naming'[t].key = naming[t].key
          /\ naming'[t].partner = naming[t].partner /\ naming'[t].hit = naming[t].hit
    BY <2>1 DEF VocabularyInv, VocabularyTyped, Namings
  <2>3. VocabularyTyped'
    BY <2>1, <2>2 DEF VocabularyInv, VocabularyTyped
  <2>4. NamingFits'
    BY <2>1, <2>2 DEF VocabularyInv, NamingFits
  <2>5. ComputedFits' /\ CleanFits'
    BY <2>1, <2>2 DEF VocabularyInv, ComputedFits, CleanFits
  <2>6. AnswerFits'
    BY <2>1, <2>2 DEF VocabularyInv, AnswerFits
  <2> QED BY <2>3, <2>4, <2>5, <2>6 DEF VocabularyInv
<1>2. CASE Clear \/ Update \/ CountUp
  <2>1. /\ setter.at # "idle"
        /\ setter' \in [at : {"idle", "clear", "update", "count"},
                        new : {{}} \cup {BrandsOf(c) : c \in Catalogs}]
        /\ UNCHANGED <<computed, naming>>
        /\ (setter'.at # "idle" /\ key' = key) \/ key' = key + 1
    BY <1>2 DEF Clear, Update, CountUp, VocabularyInv, VocabularyTyped
  <2>2. key \in Nat /\ key' \in Nat /\ key <= key' /\ \A t \in Namers : naming[t].key \in Nat
    BY <2>1 DEF VocabularyInv, VocabularyTyped, Namings
  <2>3. VocabularyTyped'
    BY <2>1, <2>2 DEF VocabularyInv, VocabularyTyped
  <2>4. NamingFits'
    BY <2>1, <2>2 DEF VocabularyInv, NamingFits, UnderWay
  <2>5. ComputedFits'
    BY <2>1, <2>2 DEF VocabularyInv, ComputedFits
  <2>6. CleanFits' /\ AnswerFits'
    BY <2>1, <2>2 DEF VocabularyInv, CleanFits, AnswerFits
  <2> QED BY <2>3, <2>4, <2>5, <2>6 DEF VocabularyInv
<1> QED BY <1>1, <1>2

(* One thread goes on to v, and what is remembered grows by what it found. *)
LEMMA NamerMoves ==
  ASSUME VocabularyInv, NEW t \in Namers, NEW v \in Namings, NamingGoes(t, v), ComputedFits',
         NEW p \in Shelved, NEW d \in Asks, v.product = p, v.dislike = d,
         v.at # "rest",
         v.at \in UnderWay => v.key <= key /\ Canonicals(d) # {},
         v.at \in {"look", "check", "name"} => v.partner = {},
         v.at = "keep" => v.partner \in PartnersOf(p),
         setter.at = "idle" /\ v.key = key =>
           /\ v.at = "name" => Partner(p, brands) # {}
           /\ v.at = "keep" => v.partner = Partner(p, brands),
         v.clean =>
           /\ setter.at = "idle" /\ v.at # "failed"
           /\ v.at \in UnderWay => v.key = key
           /\ v.at = "answered" =>
                v.hit = IF Canonicals(d) = {} THEN Literal(d, p)
                        ELSE Hits(d, p, TagsOf(p, brands)),
         v.at = "answered" /\ Canonicals(d) # {} =>
           \E P \in PartnersOf(p) : v.hit = Hits(d, p, TagsWith(p, P))
  PROVE  VocabularyInv'
<1>1. /\ naming' \in [Namers -> Namings] /\ naming'[t] = v
      /\ \A u \in Namers \ {t} : naming'[u] = naming[u]
      /\ UNCHANGED <<brands, key, setter>>
  BY DEF NamingGoes, VocabularyInv, VocabularyTyped
<1>2. VocabularyTyped'
  BY <1>1 DEF VocabularyInv, VocabularyTyped
<1>3. NamingFits'
  <2> SUFFICES ASSUME NEW u \in Namers
      PROVE  LET q == naming'[u]
             IN  /\ q.at # "rest" => q.product \in Shelved /\ q.dislike \in Asks
                 /\ q.at \in UnderWay => q.key <= key /\ Canonicals(q.dislike) # {}
                 /\ q.at \in {"look", "check", "name"} => q.partner = {}
                 /\ q.at = "keep" => q.partner \in PartnersOf(q.product)
                 /\ setter.at = "idle" /\ q.key = key =>
                      /\ q.at = "name" => Partner(q.product, brands) # {}
                      /\ q.at = "keep" => q.partner = Partner(q.product, brands)
    BY <1>1 DEF NamingFits
  <2>1. CASE u = t
    BY <1>1, <2>1
  <2>2. CASE u # t
    BY <1>1, <2>2 DEF VocabularyInv, NamingFits
  <2> QED BY <2>1, <2>2
<1>4. CleanFits'
  <2> SUFFICES ASSUME NEW u \in Namers, naming'[u].clean
      PROVE  LET q == naming'[u]
             IN  /\ setter.at = "idle" /\ q.at # "failed"
                 /\ q.at \in UnderWay => q.key = key
                 /\ q.at = "answered" =>
                      q.hit = IF Canonicals(q.dislike) = {} THEN Literal(q.dislike, q.product)
                              ELSE Hits(q.dislike, q.product, TagsOf(q.product, brands))
    BY <1>1 DEF CleanFits
  <2>1. CASE u = t
    BY <1>1, <2>1
  <2>2. CASE u # t
    BY <1>1, <2>2 DEF VocabularyInv, CleanFits
  <2> QED BY <2>1, <2>2
<1>5. AnswerFits'
  <2> SUFFICES ASSUME NEW u \in Namers, naming'[u].at = "answered", Canonicals(naming'[u].dislike) # {}
      PROVE  \E P \in PartnersOf(naming'[u].product) :
               naming'[u].hit = Hits(naming'[u].dislike, naming'[u].product, TagsWith(naming'[u].product, P))
    BY DEF AnswerFits
  <2>1. CASE u = t
    BY <1>1, <2>1
  <2>2. CASE u # t
    BY <1>1, <2>2 DEF VocabularyInv, AnswerFits
  <2> QED BY <2>1, <2>2
<1> QED BY <1>2, <1>3, <1>4, <1>5 DEF VocabularyInv

LEMMA AskKeeps ==
  ASSUME VocabularyAssumption, VocabularyInv, NEW t \in Namers, NEW q \in Questions,
         Ask(t, q.tag, q.product)
  PROVE  VocabularyInv'
<1> DEFINE d == q.tag  p == q.product
           asked == [NotNaming EXCEPT !.product = p, !.dislike = d, !.clean = setter.at = "idle"]
           v == IF Canonicals(d) # {} THEN [asked EXCEPT !.at = "look", !.key = key]
                ELSE [asked EXCEPT !.at = "answered", !.hit = Literal(d, p)]
<1>1. p \in Shelved /\ d \in Asks /\ key \in Nat
  BY DEF VocabularyAssumption, Asks, VocabularyInv, VocabularyTyped
<1>2. NamingGoes(t, v) /\ UNCHANGED computed /\ UNCHANGED <<brands, key, setter>>
  BY DEF Ask, NamingGoes
<1>3. ComputedFits'
  BY <1>2 DEF VocabularyInv, ComputedFits
<1>4. Literal(d, p) \in BOOLEAN
  BY DEF Literal
<1>5. CASE Canonicals(d) # {}
  <2>1. v = [at |-> "look", product |-> p, dislike |-> d, key |-> key, partner |-> {},
             hit |-> FALSE, clean |-> setter.at = "idle"]
    BY <1>5 DEF NotNaming
  <2> HIDE DEF v
  <2>2. v \in Namings
    BY <2>1, <1>1 DEF Namings, NamingStages
  <2>3. /\ v.at = "look" /\ v.partner = {} /\ v.product = p /\ v.dislike = d /\ v.key = key
        /\ v.clean => setter.at = "idle"
    BY <2>1
  <2> HIDE DEF d, p
  <2> QED BY <1>1, <1>2, <1>3, <1>5, <2>2, <2>3, NamerMoves
<1>6. CASE Canonicals(d) = {}
  <2>1. v = [at |-> "answered", product |-> p, dislike |-> d, key |-> 0, partner |-> {},
             hit |-> Literal(d, p), clean |-> setter.at = "idle"]
    BY <1>6 DEF NotNaming
  <2> HIDE DEF v
  <2>2. v \in Namings
    BY <2>1, <1>1, <1>4 DEF Namings, NamingStages
  <2>3. /\ v.at = "answered" /\ v.product = p /\ v.dislike = d /\ v.hit = Literal(d, p)
        /\ v.clean => setter.at = "idle"
    BY <2>1
  <2> HIDE DEF d, p
  <2> QED BY <1>1, <1>2, <1>3, <1>6, <2>2, <2>3, NamerMoves DEF UnderWay
<1> QED BY <1>5, <1>6

(* A thread that has the tags answers with them. *)
LEMMA AnswerKeeps ==
  ASSUME VocabularyInv, NEW t \in Namers, naming[t].at \in UnderWay, NEW tags,
         NamingGoes(t, AnsweredWith(t, tags)), ComputedFits',
         \E P \in PartnersOf(naming[t].product) : tags = TagsWith(naming[t].product, P),
         setter.at = "idle" /\ naming[t].key = key => tags = TagsOf(naming[t].product, brands)
  PROVE  VocabularyInv'
<1> DEFINE q == naming[t]  v == AnsweredWith(t, tags)
<1>1. /\ q \in Namings /\ q.at # "rest" /\ q.product \in Shelved /\ q.dislike \in Asks
      /\ Canonicals(q.dislike) # {} /\ (q.clean => setter.at = "idle" /\ q.key = key)
  BY DEF VocabularyInv, VocabularyTyped, NamingFits, CleanFits, UnderWay
<1>2. Hits(q.dislike, q.product, tags) \in BOOLEAN
  BY DEF Hits
<1>3. v \in Namings
  BY <1>1, <1>2 DEF AnsweredWith, Namings, NamingStages
<1>4. /\ v.at = "answered" /\ v.product = q.product /\ v.dislike = q.dislike
      /\ v.hit = Hits(q.dislike, q.product, tags) /\ v.clean = q.clean
  BY <1>1 DEF AnsweredWith, Namings
<1> HIDE DEF v, q
<1>5. NamingGoes(t, v)
  BY DEF v
<1>6. \E P \in PartnersOf(q.product) : v.hit = Hits(q.dislike, q.product, TagsWith(q.product, P))
  BY <1>4 DEF q
<1>7. v.clean => v.hit = Hits(q.dislike, q.product, TagsOf(q.product, brands))
  BY <1>1, <1>4 DEF q
<1>8. v.clean => setter.at = "idle"
  BY <1>1, <1>4
<1> QED BY <1>1, <1>3, <1>4, <1>5, <1>6, <1>7, <1>8, NamerMoves DEF UnderWay

LEMMA LookUpKeeps ==
  ASSUME VocabularyInv, NEW t \in Namers, LookUp(t)
  PROVE  VocabularyInv'
<1> DEFINE q == naming[t]
<1>1. /\ q \in Namings /\ q.product \in Shelved /\ q.dislike \in Asks /\ q.key <= key
      /\ Canonicals(q.dislike) # {} /\ (q.clean => setter.at = "idle" /\ q.key = key)
      /\ q.at = "look" /\ q.partner = {}
  BY DEF VocabularyInv, VocabularyTyped, NamingFits, CleanFits, UnderWay, LookUp
<1>2. UNCHANGED computed /\ UNCHANGED <<brands, key, setter>>
  BY DEF LookUp, NamingGoes
<1>3. ComputedFits'
  BY <1>2 DEF VocabularyInv, ComputedFits
<1>4. CASE NamingGoes(t, [q EXCEPT !.at = "check"])
  <2> DEFINE v == [q EXCEPT !.at = "check"]
  <2>1. /\ v \in Namings /\ v.at = "check" /\ v.product = q.product /\ v.dislike = q.dislike
        /\ v.key = q.key /\ v.clean = q.clean /\ v.partner = {}
    BY <1>1 DEF Namings, NamingStages
  <2>2. NamingGoes(t, v)
    BY <1>4
  <2> HIDE DEF v, q
  <2> QED BY <1>1, <1>3, <2>1, <2>2, NamerMoves
<1>5. ASSUME NEW e \in Recalled(t), NamingGoes(t, AnsweredWith(t, e.tags)) PROVE VocabularyInv'
  <2>1. e \in computed /\ e.product = q.product /\ e.key = q.key
    BY <1>5 DEF Recalled
  <2>2. /\ \E P \in PartnersOf(q.product) : e.tags = TagsWith(q.product, P)
        /\ setter.at = "idle" /\ q.key = key => e.tags = TagsOf(q.product, brands)
    BY <2>1 DEF VocabularyInv, ComputedFits
  <2> QED BY <1>1, <1>3, <1>5, <2>2, AnswerKeeps DEF UnderWay
<1> QED BY <1>4, <1>5 DEF LookUp

LEMMA PartnerKeeps ==
  ASSUME VocabularyInv, NEW t \in Namers, CheckPartner(t) \/ NamePartner(t)
  PROVE  VocabularyInv'
<1> DEFINE q == naming[t]  found == Partner(q.product, brands)
<1>1. /\ q \in Namings /\ q.product \in Shelved /\ q.dislike \in Asks /\ q.key <= key
      /\ Canonicals(q.dislike) # {} /\ (q.clean => setter.at = "idle" /\ q.key = key)
      /\ setter.at = "idle" /\ q.key = key /\ q.at = "name" => found # {}
      /\ q.at \in {"check", "name"} /\ q.partner = {}
  BY DEF VocabularyInv, VocabularyTyped, NamingFits, CleanFits, UnderWay, CheckPartner, NamePartner
<1>2. UNCHANGED computed /\ UNCHANGED <<brands, key, setter>>
  BY DEF CheckPartner, NamePartner, NamingGoes
<1>3. ComputedFits'
  BY <1>2 DEF VocabularyInv, ComputedFits
<1>4. found \in PartnersOf(q.product) /\ {} \in PartnersOf(q.product)
      /\ found \in SUBSET ShelfPartners
  BY <1>1, PartnerIsOfTheProduct DEF PartnersOf, ShelfPartners
<1> HIDE DEF found
<1>5. PICK v : /\ NamingGoes(t, v) /\ v \in Namings /\ v.product = q.product /\ v.dislike = q.dislike
               /\ v.key = q.key /\ v.clean = q.clean
               /\ \/ v.at = "name" /\ found # {} /\ v.partner = {}
                  \/ v.at = "keep" /\ v.partner = found
                  \/ v.at = "failed" /\ q.at = "name" /\ found = {}
  <2>1. CASE CheckPartner(t) /\ found = {}
    <3>1. q.at = "check" /\ NamingGoes(t, [q EXCEPT !.at = "keep"])
      BY <2>1 DEF CheckPartner, found
    <3> QED BY <3>1, <1>1, <2>1 DEF Namings, NamingStages
  <2>2. CASE CheckPartner(t) /\ found # {}
    <3>1. NamingGoes(t, [q EXCEPT !.at = "name"])
      BY <2>2 DEF CheckPartner, found
    <3> QED BY <3>1, <1>1, <2>2 DEF Namings, NamingStages
  <2>3. CASE NamePartner(t) /\ found = {}
    <3>1. q.at = "name" /\ NamingGoes(t, [q EXCEPT !.at = "failed"])
      BY <2>3 DEF NamePartner, found
    <3> QED BY <3>1, <1>1, <2>3 DEF Namings, NamingStages
  <2>4. CASE NamePartner(t) /\ found # {}
    <3>1. NamingGoes(t, [q EXCEPT !.at = "keep", !.partner = found])
      BY <2>4 DEF NamePartner, found
    <3> DEFINE v == [q EXCEPT !.at = "keep", !.partner = found]
    <3>2. /\ v \in Namings /\ v.product = q.product /\ v.dislike = q.dislike
          /\ v.key = q.key /\ v.clean = q.clean /\ v.at = "keep" /\ v.partner = found
      BY <1>1, <1>4 DEF Namings, NamingStages
    <3> HIDE DEF v
    <3>3. NamingGoes(t, v)
      BY <3>1 DEF v
    <3> QED BY <3>2, <3>3
  <2> QED BY <2>1, <2>2, <2>3, <2>4
<1>6. v.clean => v.at # "failed"
  BY <1>1, <1>5
<1> HIDE DEF q
<1>7. setter.at = "idle" /\ v.key = key =>
        /\ v.at = "name" => Partner(q.product, brands) # {}
        /\ v.at = "keep" => v.partner = Partner(q.product, brands)
  BY <1>5 DEF found
<1>8. v.at = "keep" => v.partner \in PartnersOf(q.product)
  BY <1>4, <1>5
<1>10. v.at \in {"look", "check", "name"} => v.partner = {}
  BY <1>5
<1>9. v.at # "rest" /\ v.at # "answered" /\ v.key <= key /\ (v.clean => setter.at = "idle" /\ v.key = key)
  BY <1>1, <1>5
<1> QED BY <1>1, <1>3, <1>5, <1>6, <1>7, <1>8, <1>9, <1>10, NamerMoves

LEMMA KeepKeeps ==
  ASSUME VocabularyInv, NEW t \in Namers, KeepTags(t)
  PROVE  VocabularyInv'
<1> DEFINE q == naming[t]
           tags == TagsWith(q.product, q.partner)
           new == [product |-> q.product, key |-> q.key, tags |-> tags]
<1>1. /\ q \in Namings /\ q.product \in Shelved /\ q.key \in Nat /\ q.key <= key
      /\ q.at = "keep" /\ q.partner \in PartnersOf(q.product)
      /\ (setter.at = "idle" /\ q.key = key => q.partner = Partner(q.product, brands))
  BY DEF VocabularyInv, VocabularyTyped, NamingFits, Namings, UnderWay, KeepTags
<1>2. NamingGoes(t, AnsweredWith(t, tags)) /\ UNCHANGED <<brands, key, setter>>
  BY DEF KeepTags, NamingGoes
<1>3. computed' \subseteq computed \cup {new}
  BY DEF KeepTags
<1>4. /\ \E P \in PartnersOf(q.product) : tags = TagsWith(q.product, P)
      /\ setter.at = "idle" /\ q.key = key => tags = TagsOf(q.product, brands)
  BY <1>1 DEF TagsOf
<1>5. ComputedFits'
  <2> SUFFICES ASSUME NEW e \in computed'
      PROVE  /\ e.key \in Nat /\ e.key <= key
             /\ \E P \in PartnersOf(e.product) : e.tags = TagsWith(e.product, P)
             /\ setter.at = "idle" /\ e.key = key => e.tags = TagsOf(e.product, brands)
    BY <1>2 DEF ComputedFits
  <2>1. CASE e \in computed
    BY <2>1 DEF VocabularyInv, ComputedFits
  <2>2. CASE e = new
    <3>1. e.product = q.product /\ e.key = q.key /\ e.tags = tags
      BY <2>2
    <3> HIDE DEF tags, new
    <3> QED BY <3>1, <1>1, <1>4
  <2> QED BY <1>3, <2>1, <2>2
<1> HIDE DEF tags
<1>6. naming[t].at \in UnderWay
  BY <1>1 DEF UnderWay
<1> QED BY <1>2, <1>4, <1>5, <1>6, AnswerKeeps

LEMMA VocabularyKeeps ==
  ASSUME VocabularyAssumption, VocabularyInv, [VocabularyNext]_tagVars
  PROVE  VocabularyInv'
<1>1. CASE UNCHANGED tagVars
  BY <1>1 DEF tagVars, VocabularyInv, VocabularyTyped, NamingFits, ComputedFits, CleanFits, AnswerFits
<1>2. CASE (\E c \in Catalogs : SetBrands(c)) \/ Clear \/ Update \/ CountUp
  BY <1>2, SetterKeeps
<1>3. ASSUME NEW t \in Namers, NEW q \in Questions, Ask(t, q.tag, q.product) PROVE VocabularyInv'
  BY <1>3, AskKeeps
<1>4. ASSUME NEW t \in Namers, LookUp(t) \/ CheckPartner(t) \/ NamePartner(t) \/ KeepTags(t)
      PROVE  VocabularyInv'
  BY <1>4, LookUpKeeps, PartnerKeeps, KeepKeeps
<1> QED BY <1>1, <1>2, <1>3, <1>4 DEF VocabularyNext

(* The name a row goes by is the name of no other row. *)
LEMMA CanonicalOfRow ==
  ASSUME VocabularyAssumption, NEW i \in DOMAIN BrandRows, NEW b,
         BrandCanonical(b) = BrandRows[i].canon
  PROVE  b \in BrandRows[i].names
<1>1. CASE RowsWith(b) = {}
  BY <1>1 DEF BrandCanonical, VocabularyAssumption
<1>2. CASE RowsWith(b) # {}
  <2>1. RowsWith(b) \in SUBSET Nat
    BY DEF RowsWith, VocabularyAssumption
  <2>2. \E j \in RowsWith(b) : \A k \in RowsWith(b) : j <= k
    BY <1>2, <2>1, SmallestIndex
  <2>3. PICK j \in RowsWith(b) : BrandCanonical(b) = BrandRows[j].canon
    BY <1>2, <2>2 DEF BrandCanonical
  <2>4. j \in DOMAIN BrandRows /\ b \in BrandRows[j].names
    BY <2>3 DEF RowsWith
  <2> QED BY <2>3, <2>4 DEF VocabularyAssumption
<1> QED BY <1>1, <1>2

(* Whatever partners were found, a product has its own brands' names, and *)
(* not the name of a row that has none of its brands and is another *)
(* company than they are. *)
LEMMA OwnBrandIsTagged ==
  ASSUME NEW p \in Shelved, NEW P, NEW b \in Shelf[p].brand
  PROVE  <<"brand", BrandCanonical(b)>> \in TagsWith(p, P)
BY DEF TagsWith

LEMMA OtherCompanyIsNot ==
  ASSUME VocabularyAssumption, NEW p \in Shelved, NEW P \in PartnersOf(p),
         NEW i \in DOMAIN BrandRows, BrandRows[i].distinct \cap Shelf[p].brand # {},
         BrandRows[i].names \cap ({Shelf[p].partner} \union Shelf[p].brand) = {}
  PROVE  <<"brand", BrandRows[i].canon>> \notin TagsWith(p, P)
<1> DEFINE s == Shelf[p]  c == BrandRows[i].canon
           mentioned == {r \in {BrandRows[j] : j \in DOMAIN BrandRows} :
                           ~s.compatible /\ r.distinct \cap s.brand = {} /\ Surfaces(r) \cap s.words # {}}
           named == {BrandCanonical(b) : b \in s.brand \union P} \union {r.canon : r \in mentioned}
<1>1. c \notin {BrandCanonical(b) : b \in s.brand \union P}
  <2> SUFFICES ASSUME NEW b \in s.brand \union P, BrandCanonical(b) = c PROVE FALSE
    OBVIOUS
  <2>1. b \in BrandRows[i].names
    BY CanonicalOfRow
  <2>2. b \in {s.partner} \union s.brand
    BY DEF PartnersOf
  <2> QED BY <2>1, <2>2
<1>2. c \notin {r.canon : r \in mentioned}
  <2> SUFFICES ASSUME NEW r \in mentioned, r.canon = c PROVE FALSE
    OBVIOUS
  <2>1. PICK j \in DOMAIN BrandRows : r = BrandRows[j]
    OBVIOUS
  <2>2. j = i
    BY <2>1 DEF VocabularyAssumption
  <2>3. r.distinct \cap s.brand = {}
    OBVIOUS
  <2> QED BY <2>1, <2>2, <2>3
<1>3. <<"brand", c>> \in TagsWith(p, P) => c \in named
  <2> SUFFICES ASSUME <<"brand", c>> \in TagsWith(p, P) PROVE c \in named
    OBVIOUS
  <2>1. TagsWith(p, P) = ({"brand"} \X named) \union ({"ip"} \X IpTags(s)) \union ({"category"} \X GroupTags(s))
    BY DEF TagsWith
  <2> HIDE DEF named, s, c
  <2> QED BY <2>1
<1> QED BY <1>1, <1>2, <1>3

(* For any products, vocabulary, catalogs and threads, however the brands *)
(* are replaced while tags are computed: no tag of other brands is *)
(* remembered for those there are, a question during which they stay is *)
(* answered from them, and a dislike of a brand hits the products of that *)
(* brand and not those of a company that only sounds like it (vocab.py). *)
THEOREM DislikesMeetProducts ==
  ASSUME VocabularyAssumption
  PROVE  VocabularySpec => [](TagsFollowBrands /\ NamesMeet)
<1>1. VocabularyInit => VocabularyInv
  BY VocabularyStarts
<1>2. VocabularyInv /\ [VocabularyNext]_tagVars => VocabularyInv'
  BY VocabularyKeeps
<1>3. VocabularyInv => TagsFollowBrands
  BY DEF VocabularyInv, ComputedFits, CleanFits, TagsFollowBrands
<1>4. VocabularyInv => NamesMeet
  <2> SUFFICES ASSUME VocabularyInv, NEW t \in Namers,
                      naming[t].at = "answered", naming[t].dislike.axis = "brand"
      PROVE  LET q == naming[t]
             IN  /\ (\E i \in RowsWith(q.dislike.text), b \in Shelf[q.product].brand :
                        BrandRows[i].canon = BrandCanonical(b)) => q.hit
                 /\ (\A i \in RowsWith(q.dislike.text) :
                        /\ BrandRows[i].distinct \cap Shelf[q.product].brand # {}
                        /\ BrandRows[i].names \cap ({Shelf[q.product].partner} \union Shelf[q.product].brand) = {})
                      /\ RowsWith(q.dislike.text) # {} => ~q.hit
    BY DEF NamesMeet
  <2> DEFINE d == naming[t].dislike  p == naming[t].product
  <2>1. p \in Shelved /\ Canonicals(d) = {BrandRows[i].canon : i \in RowsWith(d.text)}
    BY DEF VocabularyInv, NamingFits, Canonicals
  <2>2. RowsWith(d.text) \subseteq DOMAIN BrandRows
    BY DEF RowsWith
  <2>3. RowsWith(d.text) # {} =>
          \E P \in PartnersOf(p) : naming[t].hit = Hits(d, p, TagsWith(p, P))
    BY <2>1 DEF VocabularyInv, AnswerFits
  <2>4. ASSUME NEW i \in RowsWith(d.text), NEW b \in Shelf[p].brand,
               BrandRows[i].canon = BrandCanonical(b)
        PROVE  naming[t].hit
    <3>1. PICK P \in PartnersOf(p) : naming[t].hit = Hits(d, p, TagsWith(p, P))
      BY <2>3
    <3>2. <<"brand", BrandCanonical(b)>> \in TagsWith(p, P) /\ BrandCanonical(b) \in Canonicals(d)
      BY <2>1, <2>4, OwnBrandIsTagged
    <3> HIDE DEF d, p
    <3>3. d.axis = "brand"
      BY DEF d
    <3> QED BY <3>1, <3>2, <3>3 DEF Hits
  <2>5. ASSUME RowsWith(d.text) # {},
               \A i \in RowsWith(d.text) :
                 /\ BrandRows[i].distinct \cap Shelf[p].brand # {}
                 /\ BrandRows[i].names \cap ({Shelf[p].partner} \union Shelf[p].brand) = {}
        PROVE  ~naming[t].hit
    <3>1. PICK P \in PartnersOf(p) : naming[t].hit = Hits(d, p, TagsWith(p, P))
      BY <2>3, <2>5
    <3>2. \A i \in RowsWith(d.text) : <<"brand", BrandRows[i].canon>> \notin TagsWith(p, P)
      BY <2>1, <2>2, <2>5, OtherCompanyIsNot
    <3>3. d.axis = "brand"
      OBVIOUS
    <3> HIDE DEF d, p
    <3>4. \A c \in Canonicals(d) : <<"brand", c>> \notin TagsWith(p, P)
      BY <2>1, <3>2
    <3> QED BY <3>1, <3>3, <3>4 DEF Hits
  <2> QED BY <2>4, <2>5
<1> QED BY <1>1, <1>2, <1>3, <1>4, PTL DEF VocabularySpec

(* What is remembered keeps to its size, and has a product and a key once. *)
CacheOfOne ==
  /\ key <= MaxKey /\ (setter.at # "idle" => key < MaxKey)
  /\ IsFiniteSet(computed) /\ Cardinality(computed) <= MaxComputed
  /\ \A e, f \in computed : e.product = f.product /\ e.key = f.key => e = f

LEMMA CacheOfOneStep ==
  ASSUME VocabularyAssumption, VocabularyInv, CacheOfOne, [VocabularyNext]_tagVars
  PROVE  CacheOfOne'
<1>1. MaxKey \in Nat /\ MaxComputed \in Nat /\ key \in Nat
  BY DEF VocabularyAssumption, VocabularyInv, VocabularyTyped
<1>2. CASE UNCHANGED <<key, computed>> /\ (setter' = setter \/ setter'.at = "idle" \/ key < MaxKey)
  BY <1>2 DEF CacheOfOne
<1>3. CASE CountUp
  BY <1>1, <1>3 DEF CountUp, CacheOfOne
<1>4. ASSUME NEW t \in Namers, KeepTags(t) PROVE CacheOfOne'
  <2> DEFINE new == [product |-> naming[t].product, key |-> naming[t].key,
                     tags |-> TagsWith(naming[t].product, naming[t].partner)]
  <2>1. UNCHANGED <<key, setter>>
    BY <1>4 DEF KeepTags, NamingGoes
  <2>2. new.product = naming[t].product /\ new.key = naming[t].key
    OBVIOUS
  <2>3. \/ UNCHANGED computed
        \/ Recalled(t) = {} /\ Cardinality(computed) < MaxComputed /\ computed' = computed \cup {new}
        \/ Recalled(t) = {} /\ \E old \in computed : computed' = (computed \ {old}) \cup {new}
    BY <1>4 DEF KeepTags
  <2> HIDE DEF new
  <2>4. ASSUME Recalled(t) = {}, computed' \subseteq computed \cup {new}
        PROVE  \A e, f \in computed' : e.product = f.product /\ e.key = f.key => e = f
    BY <2>2, <2>4 DEF Recalled, CacheOfOne
  <2>5. IsFiniteSet(computed) /\ Cardinality(computed) \in Nat
    BY FS_CardinalityType DEF CacheOfOne
  <2>6. CASE UNCHANGED computed
    BY <2>1, <2>6 DEF CacheOfOne
  <2>7. CASE Recalled(t) = {} /\ Cardinality(computed) < MaxComputed /\ computed' = computed \cup {new}
    <3>1. IsFiniteSet(computed') /\ Cardinality(computed') <= Cardinality(computed) + 1
      BY <2>5, <2>7, FS_AddElement
    <3>2. Cardinality(computed') <= MaxComputed
      BY <1>1, <2>5, <2>7, <3>1, FS_CardinalityType
    <3> QED BY <2>1, <2>4, <2>7, <3>1, <3>2 DEF CacheOfOne
  <2>8. ASSUME Recalled(t) = {}, NEW old \in computed, computed' = (computed \ {old}) \cup {new}
        PROVE  CacheOfOne'
    <3> DEFINE rest == computed \ {old}
    <3>1. IsFiniteSet(rest) /\ Cardinality(rest) = Cardinality(computed) - 1
      BY <2>5, FS_RemoveElement
    <3>2. Cardinality(rest) \in Nat
      BY <3>1, FS_CardinalityType
    <3> HIDE DEF rest
    <3>3. computed' = rest \cup {new}
      BY <2>8 DEF rest
    <3>4. IsFiniteSet(computed') /\ Cardinality(computed') <= Cardinality(rest) + 1
      BY <3>1, <3>2, <3>3, FS_AddElement
    <3>5. Cardinality(computed') <= MaxComputed
      BY <1>1, <2>5, <3>1, <3>2, <3>4, FS_CardinalityType DEF CacheOfOne
    <3>6. computed' \subseteq computed \cup {new}
      BY <2>8
    <3> QED BY <2>1, <2>4, <2>8, <3>4, <3>5, <3>6 DEF CacheOfOne
  <2> QED BY <2>3, <2>6, <2>7, <2>8
<1>5. ASSUME NEW t \in Namers, LookUp(t) \/ CheckPartner(t) \/ NamePartner(t)
      PROVE  UNCHANGED <<key, computed, setter>>
  BY <1>5 DEF LookUp, CheckPartner, NamePartner, NamingGoes
<1>6. ASSUME NEW t \in Namers, NEW q \in Questions, Ask(t, q.tag, q.product)
      PROVE  UNCHANGED <<key, computed, setter>>
  BY <1>6 DEF Ask, NamingGoes
<1>7. ASSUME (\E c \in Catalogs : SetBrands(c)) \/ Clear \/ Update
      PROVE  UNCHANGED <<key, computed>> /\ key < MaxKey
  BY <1>7 DEF SetBrands, Clear, Update, CacheOfOne
<1>8. CASE UNCHANGED tagVars
  BY <1>2, <1>8 DEF tagVars
<1> QED BY <1>2, <1>3, <1>4, <1>5, <1>6, <1>7, <1>8 DEF VocabularyNext

(* The vocabulary keeps to its types, and its cache to its size. *)
THEOREM VocabularyTypes ==
  ASSUME VocabularyAssumption
  PROVE  VocabularySpec => []VocabularyTypeOK
<1>1. VocabularyInit => VocabularyInv
  BY VocabularyStarts
<1>2. VocabularyInv /\ [VocabularyNext]_tagVars => VocabularyInv'
  BY VocabularyKeeps
<1>3. VocabularyInit => CacheOfOne
  <2>1. IsFiniteSet({}) /\ Cardinality({}) = 0
    BY FS_EmptySet
  <2> QED BY <2>1 DEF VocabularyInit, CacheOfOne, VocabularyAssumption
<1>4. VocabularyInv /\ CacheOfOne /\ [VocabularyNext]_tagVars => CacheOfOne'
  BY CacheOfOneStep
<1>5. VocabularyInv /\ CacheOfOne => VocabularyTypeOK
  BY DEF VocabularyInv, VocabularyTyped, CacheOfOne, Namings, NamingStages, VocabularyTypeOK,
         VocabularyAssumption
<1> QED BY <1>1, <1>2, <1>3, <1>4, <1>5, PTL DEF VocabularySpec

-----------------------------------------------------------------------------
(* The pool of a profile. *)

RequestTyped(q) ==
  /\ DOMAIN q = {"views", "category", "disliked", "rating", "model", "unavailable",
                 "hit", "penalty", "s0", "empty"}
  /\ q.views \in [Goods -> Nat \cup {Unknown}]
  /\ q.rating \in [Goods -> (1..5) \cup {Unknown}]
  /\ q.penalty \in BOOLEAN

(* Counting some of the products. *)
LEMMA GoodsAreCounted ==
  ASSUME PoolAssumption, NEW S \in SUBSET Goods
  PROVE  IsFiniteSet(S) /\ Cardinality(S) \in Nat
<1>1. IsFiniteSet(Goods)
  BY DEF PoolAssumption
<1> QED BY <1>1, FS_Subset, FS_CardinalityType

(* A score is a number. *)
LEMMA ScoresAreNumbers ==
  ASSUME PoolAssumption, NEW q, RequestTyped(q), NEW i \in Goods
  PROVE  Score(q, i) \in Int
<1>1. Popularity(q, i) \in Int
  <2> DEFINE known == {j \in Candidates(q) : q.views[j] # Unknown}
             lower == {j \in known : q.views[j] < q.views[i]}
  <2>1. known \in SUBSET Goods /\ lower \in SUBSET Goods
    BY DEF Candidates
  <2>2. Cardinality(known) \in Nat /\ Cardinality(lower) \in Nat
    BY <2>1, GoodsAreCounted
  <2>3. Popularity(q, i) = LET span == Cardinality(known) - 1
                           IN IF span <= 0 \/ q.views[i] = Unknown THEN 0 ELSE (2 * Unit * Cardinality(lower)) \div span
    BY DEF Popularity
  <2> HIDE DEF known, lower
  <2>4. PICK span \in Int : span = Cardinality(known) - 1
    BY <2>2
  <2>5. PICK n \in Int : n = 2 * Unit * Cardinality(lower)
    BY <2>2 DEF Unit
  <2>6. CASE span <= 0 \/ q.views[i] = Unknown
    BY <2>3, <2>4, <2>6
  <2>7. CASE ~(span <= 0 \/ q.views[i] = Unknown)
    <3>1. Popularity(q, i) = n \div span
      BY <2>3, <2>4, <2>5, <2>7
    <3>2. span > 0
      BY <2>7
    <3> QED BY <3>1, <3>2
  <2> QED BY <2>6, <2>7
<1>2. ASSUME NEW c PROVE Bias(q, c) \in Int
  <2> DEFINE rated == {j \in RatedGoods(q) : q.category[j] = c}
             stars(s) == Cardinality({j \in rated : q.rating[j] = s})
  <2>1. /\ Cardinality(rated) \in Nat
        /\ \A s : stars(s) \in Nat
    <3>1. rated \in SUBSET Goods /\ \A s : {j \in rated : q.rating[j] = s} \in SUBSET Goods
      BY DEF RatedGoods
    <3> QED BY <3>1, GoodsAreCounted
  <2>2. Bias(q, c) = (Unit * (2 * stars(5) + stars(4) - stars(2) - 2 * stars(1))) \div (Cardinality(rated) + 2)
    BY DEF Bias
  <2> HIDE DEF rated, stars
  <2>3. PICK n \in Int : n = Unit * (2 * stars(5) + stars(4) - stars(2) - 2 * stars(1))
    BY <2>1 DEF Unit
  <2>4. PICK d \in Nat : d = Cardinality(rated) + 2 /\ d > 0
    BY <2>1
  <2>5. Bias(q, c) = n \div d
    BY <2>2, <2>3, <2>4
  <2> QED BY <2>4, <2>5
<1>3. PICK p \in Int, b \in Int : p = Popularity(q, i) /\ b = Bias(q, q.category[i])
  BY <1>1, <1>2
<1> QED BY <1>3 DEF Score, Unit

(* Of two products one is above the other, and not both. *)
LEMMA AboveIsAnOrder ==
  ASSUME PoolAssumption, NEW q, RequestTyped(q)
  PROVE  /\ \A i \in Goods : ~Above(q, i, i)
         /\ \A i, j \in Goods : i # j => Above(q, i, j) \/ Above(q, j, i)
         /\ \A i, j, k \in Goods : Above(q, i, j) /\ Above(q, j, k) => Above(q, i, k)
<1>1. \A i \in Goods : Score(q, i) \in Int
  BY ScoresAreNumbers
<1>2. Goods \subseteq Nat
  BY DEF PoolAssumption
<1> QED BY <1>1, <1>2 DEF Above

(* The ranking has every scored product in one place, those above it *)
(* before it. *)
LEMMA RankingIsRight ==
  ASSUME PoolAssumption, NEW q, RequestTyped(q)
  PROVE  LET N == Cardinality(Scored(q)) R == RankedGoods(q)
         IN /\ N \in Nat /\ R \in [1..N -> Scored(q)]
            /\ \A i \in Scored(q) : \E n \in 1..N : R[n] = i
            /\ \A m, n \in 1..N : m < n <=> Above(q, R[m], R[n])
<1> DEFINE S == Scored(q)
           N == Cardinality(S)
           R == RankedGoods(q)
           up(i) == {j \in S : Above(q, j, i)}
<1>1. S \in SUBSET Goods /\ \A i : up(i) \in SUBSET Goods
  BY DEF Scored, Candidates
<1>2. IsFiniteSet(S) /\ N \in Nat /\ \A i : IsFiniteSet(up(i)) /\ Cardinality(up(i)) \in Nat
  BY <1>1, GoodsAreCounted
<1>3. ASSUME NEW i \in S PROVE Cardinality(up(i)) \in 0..(N-1)
  <2>1. up(i) \in SUBSET (S \ {i})
    BY <1>1, AboveIsAnOrder
  <2>2. IsFiniteSet(S \ {i}) /\ Cardinality(S \ {i}) = N - 1
    BY <1>2, FS_RemoveElement
  <2>3. Cardinality(up(i)) <= N - 1
    BY <2>1, <2>2, FS_Subset
  <2> QED BY <1>2, <2>3
<1>4. ASSUME NEW i \in S, NEW j \in S, Above(q, i, j) PROVE Cardinality(up(i)) < Cardinality(up(j))
  <2>1. i \notin up(i)
    BY <1>1, AboveIsAnOrder
  <2>2. up(i) \cup {i} \in SUBSET up(j)
    BY <1>1, <1>4, AboveIsAnOrder
  <2>3. Cardinality(up(i) \cup {i}) = Cardinality(up(i)) + 1
    BY <1>2, <2>1, FS_AddElement
  <2>4. Cardinality(up(i) \cup {i}) <= Cardinality(up(j))
    BY <1>2, <2>2, FS_Subset
  <2> QED BY <1>2, <2>3, <2>4
<1>5. ASSUME NEW i \in S, NEW j \in S, Cardinality(up(i)) = Cardinality(up(j)) PROVE i = j
  <2>1. ~Above(q, i, j) /\ ~Above(q, j, i)
    BY <1>2, <1>4, <1>5
  <2> QED BY <1>1, <2>1, AboveIsAnOrder
<1>6. \A n \in 1..N : \E i \in S : Cardinality(up(i)) = n - 1
  <2> DEFINE place == [i \in S |-> Cardinality(up(i))]
  <2>1. place \in Injection(S, 0..(N-1))
    <3>1. place \in [S -> 0..(N-1)]
      BY <1>3
    <3>2. \A i, j \in S : place[i] = place[j] => i = j
      BY <1>5
    <3> HIDE DEF place
    <3> QED BY <3>1, <3>2 DEF Injection, IsInjective
  <2>2. IsFiniteSet(0..(N-1)) /\ Cardinality(0..(N-1)) = N
    <3>1. N \in Nat
      BY <1>2
    <3> HIDE DEF N, S
    <3> QED BY <3>1, FS_Interval
  <2>3. place \in Surjection(S, 0..(N-1))
    BY <2>1, <2>2, FS_Injection
  <2>4. \A k \in 0..(N-1) : \E i \in S : place[i] = k
    BY <2>3 DEF Surjection
  <2>5. \A n \in 1..N : n - 1 \in 0..(N-1)
    BY <1>2
  <2> QED BY <2>4, <2>5
<1>7. R = [n \in 1..N |-> CHOOSE i \in S : Cardinality(up(i)) = n - 1]
  BY DEF RankedGoods
<1>8. \A n \in 1..N : R[n] \in S /\ Cardinality(up(R[n])) = n - 1
  BY <1>6, <1>7
<1>9. R \in [1..N -> S]
  BY <1>7, <1>8
<1> HIDE DEF R, up
<1>10. \A i \in S : \E n \in 1..N : R[n] = i
  <2> SUFFICES ASSUME NEW i \in S PROVE \E n \in 1..N : R[n] = i
    OBVIOUS
  <2>1. Cardinality(up(i)) + 1 \in 1..N /\ (Cardinality(up(i)) + 1) - 1 = Cardinality(up(i))
    BY <1>2, <1>3
  <2> QED BY <1>5, <1>8, <2>1
<1>11. \A m, n \in 1..N : m < n <=> Above(q, R[m], R[n])
  <2> SUFFICES ASSUME NEW m \in 1..N, NEW n \in 1..N PROVE m < n <=> Above(q, R[m], R[n])
    OBVIOUS
  <2>1. R[m] \in S /\ R[n] \in S /\ Cardinality(up(R[m])) = m - 1 /\ Cardinality(up(R[n])) = n - 1
    BY <1>8
  <2>2. Above(q, R[m], R[n]) => m < n
    BY <1>4, <2>1
  <2>3. ASSUME m < n PROVE Above(q, R[m], R[n])
    <3>1. R[m] # R[n]
      BY <2>1, <2>3
    <3>2. ~Above(q, R[n], R[m])
      BY <1>4, <2>1, <2>3
    <3> QED BY <1>1, <2>1, <3>1, <3>2, AboveIsAnOrder
  <2> QED BY <2>2, <2>3
<1> QED BY <1>2, <1>9, <1>10, <1>11 DEF R

(* The places of a ranking are those of its order. *)
LEMMA RankingOrder ==
  ASSUME PoolAssumption, NEW q, RequestTyped(q)
  PROVE  /\ Range(RankedGoods(q)) = Scored(q)
         /\ \A i, j \in Scored(q) : Precedes(RankedGoods(q), i, j) <=> Above(q, i, j)
<1> DEFINE R == RankedGoods(q)
<1>1. PICK N \in Nat :
        /\ R \in [1..N -> Scored(q)]
        /\ \A i \in Scored(q) : \E n \in 1..N : R[n] = i
        /\ \A m, n \in 1..N : m < n <=> Above(q, R[m], R[n])
  BY RankingIsRight
<1> HIDE DEF R
<1>2. Range(R) = Scored(q)
  BY <1>1 DEF Range
<1>3. ASSUME NEW i \in Scored(q), NEW j \in Scored(q) PROVE Precedes(R, i, j) <=> Above(q, i, j)
  <2>1. PICK m \in 1..N, n \in 1..N : R[m] = i /\ R[n] = j
    BY <1>1
  <2>2. Above(q, i, j) => Precedes(R, i, j)
    BY <1>1, <2>1 DEF Precedes
  <2>3. Precedes(R, i, j) => Above(q, i, j)
    BY <1>1 DEF Precedes
  <2> QED BY <2>2, <2>3
<1> QED BY <1>2, <1>3 DEF R

(* Without the dislikes, both modes score alike. *)
LEMMA ModesScoreAlike ==
  ASSUME PoolAssumption, NEW q, RequestTyped(q), NEW w, w = [q EXCEPT !.penalty = ~@]
  PROVE  /\ RequestTyped(w)
         /\ \A i : Disliked(w, i) <=> Disliked(q, i)
         /\ {i \in Scored(w) : ~Disliked(q, i)} = {i \in Scored(q) : ~Disliked(q, i)}
         /\ \A i, j \in Goods : ~Disliked(q, i) /\ ~Disliked(q, j) => (Above(w, i, j) <=> Above(q, i, j))
<1>1. /\ w.views = q.views /\ w.category = q.category /\ w.disliked = q.disliked
      /\ w.rating = q.rating /\ w.unavailable = q.unavailable /\ w.penalty \in BOOLEAN
      /\ DOMAIN w = DOMAIN q
  BY DEF RequestTyped
<1>2. RequestTyped(w)
  BY <1>1 DEF RequestTyped
<1>3. \A i : Disliked(w, i) <=> Disliked(q, i)
  BY <1>1 DEF Disliked
<1>4. Candidates(w) = Candidates(q) /\ RatedGoods(w) = RatedGoods(q)
  BY <1>1 DEF Candidates, RatedGoods
<1>5. {i \in Scored(w) : ~Disliked(q, i)} = {i \in Scored(q) : ~Disliked(q, i)}
  BY <1>3, <1>4 DEF Scored
<1>6. \A i : Popularity(w, i) = Popularity(q, i)
  BY <1>1, <1>4 DEF Popularity
<1>7. \A c : Bias(w, c) = Bias(q, c)
  BY <1>1, <1>4 DEF Bias
<1>8. \A i : ~Disliked(q, i) => Score(w, i) = Score(q, i)
  BY <1>1, <1>3, <1>6, <1>7 DEF Score
<1> QED BY <1>2, <1>3, <1>5, <1>8 DEF Above

(* What the choice knows of its input. *)
PoolTyped ==
  /\ RequestTyped(given) /\ ranking = RankedGoods(given)
  /\ stage \in {"start", "near", "capped", "open", "disliked", "done"}
  /\ next \in Nat \ {0}

Choosing == ~given.s0 /\ ~given.empty

(* A product is served: it is in the pool or one of its model is. *)
Passed(i) == \E k \in DOMAIN picked : picked[k] = i \/ Twins(given, i, picked[k])
Share(c) == Cardinality(InCategory(picked, c))

PicksFit ==
  /\ picked \in Seq(Scored(given)) /\ Len(picked) <= PoolSize
  /\ \A k \in DOMAIN picked : ~Excluded(given, picked[k])
  /\ \A j, k \in DOMAIN picked : j # k => picked[j] # picked[k] /\ ~Twins(given, picked[j], picked[k])

(* What is still to be tried, and what is in the pool, before the dislikes. *)
StagesFit ==
  /\ stage = "start" => picked = <<>>
  /\ stage \in {"start", "near"} => next = 1
  /\ near \subseteq {i \in Scored(given) : Usable(given, i)}
  /\ stage = "near" => \A k \in DOMAIN picked : picked[k] \notin near
  /\ stage \in {"start", "near", "capped", "open"} => \A k \in DOMAIN picked : ~Disliked(given, picked[k])

WithinCap == \A c : Share(c) <= CatCap
Tried(i) == \E n \in 1..Len(ranking) : n < next /\ ranking[n] = i

(* With the cap, then without it, then the dislikes: what a pass tried is *)
(* served, or the reason is the cap, or the pool is full. *)
CapFirst ==
  /\ stage \in {"start", "near", "capped"} => WithinCap
  /\ stage = "capped" => \A i \in Scored(given) :
       Usable(given, i) /\ Tried(i) => Passed(i) \/ Share(given.category[i]) >= CatCap
  /\ stage \in {"open", "disliked", "done"} =>
       \/ Full /\ WithinCap
       \/ \A i \in Scored(given) : Usable(given, i) => Passed(i) \/ Share(given.category[i]) >= CatCap

LikedNext ==
  /\ stage = "open" => \A i \in Scored(given) : Usable(given, i) /\ Tried(i) => Passed(i)
  /\ stage \in {"disliked", "done"} => Full \/ \A i \in Scored(given) : Usable(given, i) => Passed(i)
  /\ (\E k \in DOMAIN picked : Disliked(given, picked[k])) =>
       \A i \in Scored(given) : Usable(given, i) => Passed(i)

DislikedLast ==
  /\ stage = "disliked" => \A i \in Scored(given) :
       Disliked(given, i) /\ ~Excluded(given, i) /\ Tried(i) => Passed(i)
  /\ stage = "done" => Full \/ \A i \in Scored(given) : ~Excluded(given, i) => Passed(i)

ChoiceInv == PicksFit /\ StagesFit /\ CapFirst /\ LikedNext /\ DislikedLast
PoolInv ==
  /\ PoolTyped
  /\ Choosing => ChoiceInv
  /\ ~Choosing => stage \in {"start", "done"}

(* The ranking, by its places. *)
LEMMA RankingPlaces ==
  ASSUME PoolAssumption, PoolTyped
  PROVE  /\ Len(ranking) \in Nat /\ DOMAIN ranking = 1..Len(ranking)
         /\ \A n \in 1..Len(ranking) : ranking[n] \in Scored(given)
         /\ \A i \in Scored(given) : \E n \in 1..Len(ranking) : ranking[n] = i
         /\ Range(ranking) = Scored(given)
<1>1. PICK N \in Nat :
        /\ ranking \in [1..N -> Scored(given)]
        /\ \A i \in Scored(given) : \E n \in 1..N : ranking[n] = i
  BY RankingIsRight DEF PoolTyped
<1>2. ranking \in Seq(Scored(given)) /\ Len(ranking) = N
  BY <1>1
<1>3. Range(ranking) = Scored(given)
  BY RankingOrder DEF PoolTyped
<1> QED BY <1>1, <1>2, <1>3

(* The share of a category. *)
LEMMA SharesAreCounted ==
  ASSUME picked \in Seq(Scored(given)), NEW c
  PROVE  InCategory(picked, c) \subseteq 1..Len(picked) /\ IsFiniteSet(InCategory(picked, c)) /\ Share(c) \in Nat
<1>1. InCategory(picked, c) \subseteq 1..Len(picked)
  BY DEF InCategory
<1>2. IsFiniteSet(1..Len(picked))
  BY FS_Interval
<1>3. IsFiniteSet(InCategory(picked, c))
  BY <1>1, <1>2, FS_Subset
<1> QED BY <1>1, <1>3, FS_CardinalityType DEF Share

(* A product is taken. *)
LEMMA Taken ==
  ASSUME PoolTyped, PicksFit, NEW i \in Scored(given), ~Excluded(given, i), ~Full,
         PoolSize \in Nat,
         \A k \in DOMAIN picked : picked[k] # i /\ ~Twins(given, i, picked[k]),
         picked' = Append(picked, i), UNCHANGED given
  PROVE  /\ PicksFit' /\ Passed(i)'
         /\ \A j : Passed(j) => Passed(j)'
         /\ \A c : Share(c) \in Nat /\ Share(c)' = IF given.category[i] = c THEN Share(c) + 1 ELSE Share(c)
         /\ \A k \in DOMAIN picked' : picked'[k] = i \/ \E l \in DOMAIN picked : picked'[k] = picked[l]
<1>1. /\ picked \in Seq(Scored(given)) /\ Len(picked) \in Nat /\ Len(picked) < PoolSize
      /\ DOMAIN picked = 1..Len(picked)
  BY DEF PicksFit, Full
<1>2. /\ picked' \in Seq(Scored(given)) /\ Len(picked') = Len(picked) + 1
      /\ DOMAIN picked' = 1..(Len(picked) + 1)
      /\ picked'[Len(picked) + 1] = i
      /\ \A k \in 1..Len(picked) : picked'[k] = picked[k]
  BY <1>1
<1>3. \A k \in DOMAIN picked' : k = Len(picked) + 1 \/ k \in DOMAIN picked
  BY <1>1, <1>2
<1>4. \A j : Twins(given, i, j) <=> Twins(given, j, i)
  BY DEF Twins
<1>5. PicksFit'
  <2>1. Len(picked') <= PoolSize
    BY <1>1, <1>2
  <2>2. \A k \in DOMAIN picked' : ~Excluded(given, picked'[k])
    BY <1>1, <1>2, <1>3 DEF PicksFit
  <2>3. \A j, k \in DOMAIN picked' : j # k => picked'[j] # picked'[k] /\ ~Twins(given, picked'[j], picked'[k])
    BY <1>1, <1>2, <1>3, <1>4 DEF PicksFit
  <2> QED BY <1>2, <2>1, <2>2, <2>3 DEF PicksFit
<1>6. Passed(i)' /\ \A j : Passed(j) => Passed(j)'
  BY <1>1, <1>2 DEF Passed
<1>7. ASSUME NEW c
      PROVE  Share(c) \in Nat /\ Share(c)' = IF given.category[i] = c THEN Share(c) + 1 ELSE Share(c)
  <2>1. IsFiniteSet(InCategory(picked, c)) /\ Share(c) \in Nat /\ InCategory(picked, c) \subseteq 1..Len(picked)
    BY <1>1, SharesAreCounted
  <2>2. CASE given.category[i] = c
    <3>1. InCategory(picked, c)' = InCategory(picked, c) \cup {Len(picked) + 1}
      BY <1>1, <1>2, <2>2 DEF InCategory
    <3>2. Len(picked) + 1 \notin InCategory(picked, c)
      BY <1>1, <2>1
    <3> QED BY <2>1, <2>2, <3>1, <3>2, FS_AddElement DEF Share
  <2>3. CASE given.category[i] # c
    <3>1. InCategory(picked, c)' = InCategory(picked, c)
      BY <1>1, <1>2, <2>3 DEF InCategory
    <3> QED BY <2>1, <2>3, <3>1 DEF Share
  <2> QED BY <2>2, <2>3
<1> QED BY <1>1, <1>2, <1>3, <1>5, <1>6, <1>7

LEMMA NothingTaken ==
  ASSUME UNCHANGED <<given, picked>>
  PROVE  /\ PicksFit <=> PicksFit'
         /\ \A i : Passed(i) <=> Passed(i)'
         /\ \A c : Share(c)' = Share(c)
         /\ (Full <=> Full') /\ (WithinCap <=> WithinCap')
<1>1. PicksFit <=> PicksFit'
  BY DEF PicksFit
<1>2. \A i : Passed(i) <=> Passed(i)'
  BY DEF Passed
<1>3. \A c : Share(c)' = Share(c)
  BY DEF Share, InCategory
<1>4. Full <=> Full'
  BY DEF Full
<1> QED BY <1>1, <1>2, <1>3, <1>4 DEF WithinCap

(* The choice begins, or does not. *)
LEMMA ChoiceBegins ==
  ASSUME PoolAssumption, PoolInv, Start
  PROVE  PoolInv'
<1>1. PoolTyped'
  BY DEF PoolInv, PoolTyped, Start
<1>2. CASE ~Choosing
  <2>1. stage' = "done" /\ ~Choosing'
    BY <1>2 DEF Start, Choosing
  <2> QED BY <1>1, <2>1 DEF PoolInv
<1>3. CASE Choosing
  <2>1. /\ stage = "start" /\ next' = next /\ next = 1 /\ UNCHANGED <<given, ranking, picked>>
        /\ stage' \in {"near", "capped"} /\ picked = <<>> /\ Choosing' /\ ChoiceInv
        /\ near' = near \/ near' \subseteq {i \in Range(ranking) : Usable(given, i)}
    BY <1>3 DEF Start, Choosing, PoolInv, ChoiceInv, StagesFit
  <2>2. Range(ranking) = Scored(given)
    BY RankingPlaces DEF PoolInv
  <2>3. PicksFit' /\ (\A c : Share(c)' = Share(c)) /\ (WithinCap <=> WithinCap') /\ picked' = <<>>
    BY <2>1, NothingTaken DEF ChoiceInv
  <2>4. \A i : ~Tried(i)'
    BY <2>1 DEF Tried
  <2>5. StagesFit'
    <3>1. near' \subseteq {i \in Scored(given) : Usable(given, i)}
      BY <2>1, <2>2 DEF ChoiceInv, StagesFit
    <3>2. DOMAIN picked' = {}
      BY <2>3
    <3>3. near' \subseteq {i \in Scored(given)' : Usable(given, i)'}
      BY <2>1, <3>1 DEF Scored, Candidates, Disliked, Usable, Excluded, RatedGoods
    <3> QED BY <2>1, <2>3, <3>2, <3>3 DEF StagesFit
  <2>6. CapFirst' /\ LikedNext' /\ DislikedLast'
    <3>1. DOMAIN picked' = {} /\ WithinCap'
      BY <2>1, <2>3 DEF ChoiceInv, CapFirst
    <3> QED BY <2>1, <2>4, <3>1 DEF CapFirst, LikedNext, DislikedLast
  <2> QED BY <1>1, <2>1, <2>3, <2>5, <2>6 DEF PoolInv, ChoiceInv
<1> QED BY <1>2, <1>3

(* The vectors' candidates, tried with the cap. *)
LEMMA NearPicked ==
  ASSUME PoolAssumption, PoolInv, NEW i \in Goods, PickNear(i)
  PROVE  PoolInv'
<1>1. /\ stage = "near" /\ i \in near /\ ~Full /\ near' = near \ {i}
      /\ UNCHANGED <<given, ranking, stage, next>>
      /\ Choosing /\ ChoiceInv /\ PoolTyped
  BY DEF PickNear, PoolInv
<1>2. PoolTyped' /\ Choosing'
  BY <1>1 DEF PoolTyped, Choosing
<1>3. /\ i \in Scored(given) /\ ~Excluded(given, i) /\ ~Disliked(given, i)
      /\ near \subseteq {j \in Scored(given) : Usable(given, j)}
      /\ \A k \in DOMAIN picked : picked[k] # i /\ picked[k] \notin near /\ ~Disliked(given, picked[k])
  BY <1>1 DEF ChoiceInv, StagesFit, Usable
<1>4. PicksFit' /\ WithinCap' /\
      \A k \in DOMAIN picked' : picked'[k] = i \/ \E l \in DOMAIN picked : picked'[k] = picked[l]
  <2>1. CASE Takes(i, TRUE)
    <3>1. /\ picked' = Append(picked, i) /\ \A k \in DOMAIN picked : ~Twins(given, i, picked[k])
          /\ Share(given.category[i]) < CatCap
      BY <2>1 DEF PickNear, Takes, Share
    <3>2. /\ PicksFit'
          /\ \A c : Share(c) \in Nat /\ Share(c)' = IF given.category[i] = c THEN Share(c) + 1 ELSE Share(c)
          /\ \A k \in DOMAIN picked' : picked'[k] = i \/ \E l \in DOMAIN picked : picked'[k] = picked[l]
      BY <1>1, <1>3, <3>1, Taken DEF ChoiceInv, PoolAssumption
    <3>3. \A c : Share(c) <= CatCap
      BY <1>1 DEF ChoiceInv, CapFirst, WithinCap
    <3>4. \A c : Share(c)' <= CatCap
      BY <3>1, <3>2, <3>3 DEF PoolAssumption
    <3> QED BY <3>2, <3>4 DEF WithinCap
  <2>2. CASE ~Takes(i, TRUE)
    <3>1. picked' = picked
      BY <2>2 DEF PickNear
    <3> QED BY <1>1, <3>1, NothingTaken DEF ChoiceInv, CapFirst
  <2> QED BY <2>1, <2>2
<1>5. StagesFit'
  <2>1. \A k \in DOMAIN picked' : picked'[k] \notin near' /\ ~Disliked(given, picked'[k])
    BY <1>1, <1>3, <1>4
  <2>2. near' \subseteq {j \in Scored(given)' : Usable(given, j)'}
    BY <1>1, <1>3 DEF Scored, Candidates, Disliked, Usable, Excluded, RatedGoods
  <2>3. \A j : Disliked(given, j)' <=> Disliked(given, j)
    BY <1>1 DEF Disliked
  <2> QED BY <1>1, <2>1, <2>2, <2>3 DEF StagesFit, ChoiceInv, Disliked
<1>6. CapFirst' /\ LikedNext' /\ DislikedLast'
  <2>1. (\A k \in DOMAIN picked : ~Disliked(given, picked[k]))'
    BY <1>1, <1>3, <1>4 DEF Disliked
  <2> QED BY <1>1, <1>4, <2>1 DEF CapFirst, LikedNext, DislikedLast
<1> QED BY <1>2, <1>4, <1>5, <1>6 DEF PoolInv, ChoiceInv

(* The vectors are done with, or failed: the passes over the ranking begin. *)
LEMMA NearEnds ==
  ASSUME PoolAssumption, PoolInv, EndNear \/ NearFails
  PROVE  PoolInv'
<1>1. /\ stage = "near" /\ stage' = "capped" /\ near' = {}
      /\ UNCHANGED <<given, ranking, next>> /\ (picked' = picked \/ picked' = <<>>)
      /\ Choosing /\ ChoiceInv /\ PoolTyped /\ next = 1
  BY DEF EndNear, NearFails, PoolInv, ChoiceInv, StagesFit
<1>2. PoolTyped' /\ Choosing'
  BY <1>1 DEF PoolTyped, Choosing
<1>3. \A i : ~Tried(i)'
  BY <1>1 DEF Tried
<1>4. PicksFit' /\ WithinCap' /\ (\A k \in DOMAIN picked : ~Disliked(given, picked[k]))'
  <2>1. CASE picked' = picked
    BY <1>1, <2>1, NothingTaken DEF ChoiceInv, CapFirst, StagesFit, Disliked
  <2>2. CASE picked' = <<>>
    <3>1. DOMAIN picked' = {} /\ Len(picked') = 0 /\ picked' \in Seq(Scored(given)')
      BY <2>2
    <3>2. PicksFit'
      BY <3>1 DEF PicksFit, PoolAssumption
    <3>3. \A c : Share(c)' = 0
      <4>1. \A c : InCategory(picked, c)' = {}
        BY <3>1 DEF InCategory
      <4> QED BY <4>1, FS_EmptySet DEF Share
    <3> QED BY <3>1, <3>2, <3>3 DEF WithinCap, PoolAssumption
  <2> QED BY <1>1, <2>1, <2>2
<1>5. StagesFit' /\ CapFirst' /\ LikedNext' /\ DislikedLast'
  BY <1>1, <1>3, <1>4 DEF StagesFit, CapFirst, LikedNext, DislikedLast
<1> QED BY <1>2, <1>4, <1>5 DEF PoolInv, ChoiceInv

(* A pass over the ranking is over. *)
LEMMA PassEnds ==
  ASSUME PoolAssumption, PoolInv, Choosing, stage \in {"capped", "open", "disliked"},
         next > Len(ranking) \/ Full, stage' = Following, next' = 1,
         UNCHANGED <<given, ranking, near, picked>>
  PROVE  PoolInv'
<1>1. /\ PoolTyped /\ ChoiceInv /\ next \in Nat /\ given.penalty \in BOOLEAN
      /\ stage' \in {"open", "disliked", "done"}
  BY DEF PoolInv, PoolTyped, RequestTyped, Following
<1>2. PoolTyped' /\ Choosing'
  BY <1>1 DEF PoolTyped, Choosing
<1>3. /\ PicksFit' /\ \A i : Passed(i) <=> Passed(i)'
      /\ \A c : Share(c)' = Share(c)
      /\ (Full <=> Full') /\ (WithinCap <=> WithinCap')
  BY <1>1, NothingTaken DEF ChoiceInv
<1>4. /\ \A i : /\ Disliked(given, i)' <=> Disliked(given, i)
                /\ Usable(given, i)' <=> Usable(given, i)
                /\ Excluded(given, i)' <=> Excluded(given, i)
      /\ Scored(given)' = Scored(given)
      /\ given'.category = given.category
  BY DEF Disliked, Usable, Excluded, Scored, Candidates, RatedGoods
<1>5. \A i : ~Tried(i)'
  BY <1>1 DEF Tried
<1>6. ~Full => \A i \in Scored(given) : Tried(i)
  BY <1>1, RankingPlaces DEF Tried
<1>7. StagesFit'
  <2>1. near' \subseteq {i \in Scored(given)' : Usable(given, i)'}
    BY <1>1, <1>4 DEF ChoiceInv, StagesFit
  <2>2. stage' = "open" => \A k \in DOMAIN picked : ~Disliked(given, picked[k])
    BY <1>1 DEF ChoiceInv, StagesFit, Following
  <2>3. stage' = "open" => (\A k \in DOMAIN picked : ~Disliked(given, picked[k]))'
    BY <2>2 DEF Disliked
  <2> QED BY <1>1, <2>1, <2>3 DEF StagesFit
<1>8. CapFirst'
  <2>1. \/ Full /\ WithinCap
        \/ \A i \in Scored(given) : Usable(given, i) => Passed(i) \/ Share(given.category[i]) >= CatCap
    BY <1>1, <1>6 DEF ChoiceInv, CapFirst
  <2>2. (\/ Full /\ WithinCap
         \/ \A i \in Scored(given) : Usable(given, i) => Passed(i) \/ Share(given.category[i]) >= CatCap)'
    <3>1. CASE Full /\ WithinCap
      BY <1>3, <3>1
    <3>2. CASE \A i \in Scored(given) : Usable(given, i) => Passed(i) \/ Share(given.category[i]) >= CatCap
      BY <1>3, <1>4, <3>2
    <3> QED BY <2>1, <3>1, <3>2
  <2> QED BY <1>1, <2>2 DEF CapFirst
<1>9. LikedNext'
  <2>1. stage # "capped" => Full \/ \A i \in Scored(given) : Usable(given, i) => Passed(i)
    BY <1>1, <1>6 DEF ChoiceInv, LikedNext
  <2>2. stage' \in {"disliked", "done"} => stage # "capped"
    BY DEF Following
  <2>3. stage' \in {"disliked", "done"} =>
          (Full \/ \A i \in Scored(given) : Usable(given, i) => Passed(i))'
    BY <1>3, <1>4, <2>1, <2>2
  <2>4. ((\E k \in DOMAIN picked : Disliked(given, picked[k])) =>
           \A i \in Scored(given) : Usable(given, i) => Passed(i))'
    <3>1. (\E k \in DOMAIN picked : Disliked(given, picked[k])) =>
             \A i \in Scored(given) : Usable(given, i) => Passed(i)
      BY <1>1 DEF ChoiceInv, LikedNext
    <3>2. (\E k \in DOMAIN picked : Disliked(given, picked[k]))' <=> \E k \in DOMAIN picked : Disliked(given, picked[k])
      BY DEF Disliked
    <3> QED BY <1>3, <1>4, <3>1, <3>2
  <2> QED BY <1>5, <2>3, <2>4 DEF LikedNext
<1>10. DislikedLast'
  <2>1. ASSUME stage' = "done"
        PROVE  Full \/ \A i \in Scored(given) : ~Excluded(given, i) => Passed(i)
    <3>1. stage # "capped" /\ (stage = "open" => ~given.penalty)
      BY <1>1, <2>1 DEF Following
    <3>2. Full \/ \A i \in Scored(given) : Usable(given, i) => Passed(i)
      BY <1>1, <1>6, <3>1 DEF ChoiceInv, LikedNext
    <3>3. stage = "open" => \A i \in Scored(given) : ~Disliked(given, i)
      BY <3>1 DEF Scored
    <3>4. stage = "disliked" => Full \/ \A i \in Scored(given) :
             Disliked(given, i) /\ ~Excluded(given, i) => Passed(i)
      BY <1>1, <1>6 DEF ChoiceInv, DislikedLast
    <3> QED BY <3>1, <3>2, <3>3, <3>4 DEF Usable
  <2>2. stage' = "done" => (Full \/ \A i \in Scored(given) : ~Excluded(given, i) => Passed(i))'
    BY <1>3, <1>4, <2>1
  <2> QED BY <1>5, <2>2 DEF DislikedLast
<1> QED BY <1>2, <1>3, <1>7, <1>8, <1>9, <1>10 DEF PoolInv, ChoiceInv

(* A pass tries the next product of the ranking. *)
LEMMA PassTries ==
  ASSUME PoolAssumption, PoolInv, Choosing, stage \in {"capped", "open", "disliked"},
         next <= Len(ranking), ~Full, NEW i, i = ranking[next],
         next' = next + 1,
         picked' = IF Offered(i) /\ Takes(i, stage = "capped") THEN Append(picked, i) ELSE picked,
         UNCHANGED <<given, ranking, near, stage>>
  PROVE  PoolInv'
<1>1. PoolTyped /\ ChoiceInv /\ next \in Nat /\ next \in 1..Len(ranking) /\ i \in Scored(given)
  <2>1. PoolTyped /\ ChoiceInv /\ next \in Nat \ {0}
    BY DEF PoolInv, PoolTyped
  <2> QED BY <2>1, RankingPlaces
<1>2. PoolTyped' /\ Choosing'
  BY <1>1 DEF PoolTyped, Choosing
<1>3. /\ \A j : /\ Disliked(given, j)' <=> Disliked(given, j)
                /\ Usable(given, j)' <=> Usable(given, j)
                /\ Excluded(given, j)' <=> Excluded(given, j)
      /\ Scored(given)' = Scored(given)
      /\ given'.category = given.category
  BY DEF Disliked, Usable, Excluded, Scored, Candidates, RatedGoods
<1>4. \A j : Tried(j)' => Tried(j) \/ j = i
  BY <1>1 DEF Tried
<1>5. \A c : Share(c) \in Nat
  BY <1>1, SharesAreCounted DEF ChoiceInv, PicksFit
<1>6. DOMAIN picked = 1..Len(picked) /\ picked \in Seq(Scored(given))
  BY <1>1 DEF ChoiceInv, PicksFit
<1>7. /\ PicksFit' /\ \A j : Passed(j) => Passed(j)'
      /\ \A c : Share(c)' \in Nat /\ Share(c)' >= Share(c)
      /\ Offered(i) => Passed(i)' \/ (stage = "capped" /\ Share(given.category[i])' >= CatCap)
      /\ (stage = "capped" => WithinCap')
      /\ \A k \in DOMAIN picked' : (picked'[k] = i /\ Offered(i)) \/ \E l \in DOMAIN picked : picked'[k] = picked[l]
  <2>1. CASE Offered(i) /\ Takes(i, stage = "capped")
    <3>1. /\ picked' = Append(picked, i) /\ ~Excluded(given, i)
          /\ \A k \in DOMAIN picked : picked[k] # i /\ ~Twins(given, i, picked[k])
      BY <1>6, <2>1 DEF Offered, Takes, Usable, Range
    <3>2. /\ PicksFit' /\ Passed(i)'
          /\ \A j : Passed(j) => Passed(j)'
          /\ \A c : Share(c) \in Nat /\ Share(c)' = IF given.category[i] = c THEN Share(c) + 1 ELSE Share(c)
          /\ \A k \in DOMAIN picked' : picked'[k] = i \/ \E l \in DOMAIN picked : picked'[k] = picked[l]
      BY <1>1, <3>1, Taken DEF ChoiceInv, PoolAssumption
    <3>3. stage = "capped" => WithinCap'
      <4>1. stage = "capped" => WithinCap /\ Share(given.category[i]) < CatCap
        BY <1>1, <2>1 DEF ChoiceInv, CapFirst, Takes, Share
      <4> QED BY <3>2, <4>1 DEF WithinCap, PoolAssumption
    <3> QED BY <2>1, <3>2, <3>3
  <2>2. CASE ~(Offered(i) /\ Takes(i, stage = "capped"))
    <3>1. picked' = picked
      BY <2>2
    <3>2. /\ PicksFit' /\ (\A j : Passed(j) <=> Passed(j)') /\ (\A c : Share(c)' = Share(c))
          /\ (WithinCap <=> WithinCap')
      BY <1>1, <3>1, NothingTaken DEF ChoiceInv
    <3>3. Offered(i) => Passed(i) \/ (stage = "capped" /\ Share(given.category[i]) >= CatCap)
      BY <1>5, <2>2 DEF Takes, Passed, Share, PoolAssumption
    <3>4. stage = "capped" => WithinCap
      BY <1>1 DEF ChoiceInv, CapFirst
    <3>5. \A k \in DOMAIN picked' : \E l \in DOMAIN picked : picked'[k] = picked[l]
      BY <3>1
    <3> QED BY <1>5, <3>2, <3>3, <3>4, <3>5
  <2> QED BY <2>1, <2>2
<1>8. /\ Usable(given, i) => Passed(i)' \/ (stage = "capped" /\ Share(given.category[i])' >= CatCap) \/ stage = "disliked"
      /\ stage = "disliked" /\ Disliked(given, i) /\ ~Excluded(given, i) => Passed(i)'
  <2>1. i \in Range(picked) => Passed(i)
    BY DEF Passed, Range
  <2> QED BY <1>7, <2>1 DEF Offered
<1>9. StagesFit'
  <2>1. near' \subseteq {j \in Scored(given)' : Usable(given, j)'}
    BY <1>1, <1>3 DEF ChoiceInv, StagesFit
  <2>2. stage # "disliked" /\ Offered(i) => ~Disliked(given, i)
    BY DEF Offered, Usable
  <2>3. stage # "disliked" => \A k \in DOMAIN picked : ~Disliked(given, picked[k])
    BY <1>1 DEF ChoiceInv, StagesFit
  <2>4. stage # "disliked" => (\A k \in DOMAIN picked : ~Disliked(given, picked[k]))'
    BY <1>7, <2>2, <2>3 DEF Disliked
  <2> QED BY <2>1, <2>4 DEF StagesFit
<1>10. CapFirst'
  <2>1. stage = "capped" => \A j \in Scored(given) :
          Usable(given, j) /\ Tried(j)' => Passed(j)' \/ Share(given.category[j])' >= CatCap
    <3> SUFFICES ASSUME stage = "capped", NEW j \in Scored(given), Usable(given, j), Tried(j)'
                 PROVE  Passed(j)' \/ Share(given.category[j])' >= CatCap
      OBVIOUS
    <3>1. CASE Tried(j)
      <4>1. Passed(j) \/ Share(given.category[j]) >= CatCap
        BY <1>1, <3>1 DEF ChoiceInv, CapFirst
      <4>2. PICK c : c = given.category[j]
        OBVIOUS
      <4>3. Share(c)' \in Nat /\ Share(c)' >= Share(c) /\ Share(c) \in Nat /\ CatCap \in Nat
        BY <1>5, <1>7 DEF PoolAssumption
      <4>4. Share(c)' = Share(given.category[j])'
        BY <4>2
      <4> QED BY <1>7, <4>1, <4>2, <4>3, <4>4
    <3>2. CASE j = i
      BY <1>8, <3>2
    <3> QED BY <1>4, <3>1, <3>2
  <2>2. stage \in {"open", "disliked"} => \A j \in Scored(given) :
          Usable(given, j) => Passed(j)' \/ Share(given.category[j])' >= CatCap
    <3> SUFFICES ASSUME stage \in {"open", "disliked"}, NEW j \in Scored(given), Usable(given, j)
                 PROVE  Passed(j)' \/ Share(given.category[j])' >= CatCap
      OBVIOUS
    <3>1. Passed(j) \/ Share(given.category[j]) >= CatCap
      BY <1>1 DEF ChoiceInv, CapFirst
    <3>2. PICK c : c = given.category[j]
      OBVIOUS
    <3>3. Share(c)' \in Nat /\ Share(c)' >= Share(c) /\ Share(c) \in Nat /\ CatCap \in Nat
      BY <1>5, <1>7 DEF PoolAssumption
    <3> QED BY <1>7, <3>1, <3>2, <3>3
  <2> QED BY <1>3, <1>7, <2>1, <2>2 DEF CapFirst
<1>11. LikedNext'
  <2>1. stage = "open" => \A j \in Scored(given) : Usable(given, j) /\ Tried(j)' => Passed(j)'
    BY <1>1, <1>4, <1>7, <1>8 DEF ChoiceInv, LikedNext
  <2>2. stage = "disliked" => \A j \in Scored(given) : Usable(given, j) => Passed(j)'
    BY <1>1, <1>7 DEF ChoiceInv, LikedNext
  <2>3. ASSUME (\E k \in DOMAIN picked : Disliked(given, picked[k]))'
        PROVE  \A j \in Scored(given) : Usable(given, j) => Passed(j)'
    <3>1. CASE stage = "disliked"
      BY <2>2, <3>1
    <3>2. CASE stage # "disliked"
      <4>1. stage' # "disliked" /\ stage' \in {"capped", "open"}
        BY <3>2
      <4> QED BY <1>9, <2>3, <4>1 DEF StagesFit
    <3> QED BY <3>1, <3>2
  <2> QED BY <1>3, <2>1, <2>2, <2>3 DEF LikedNext
<1>12. DislikedLast'
  <2>1. stage = "disliked" => \A j \in Scored(given) :
          Disliked(given, j) /\ ~Excluded(given, j) /\ Tried(j)' => Passed(j)'
    BY <1>1, <1>4, <1>7, <1>8 DEF ChoiceInv, DislikedLast
  <2> QED BY <1>3, <2>1 DEF DislikedLast
<1> QED BY <1>2, <1>7, <1>9, <1>10, <1>11, <1>12 DEF PoolInv, ChoiceInv

LEMMA PoolGoesOn ==
  ASSUME PoolAssumption, PoolInv, [PoolNext]_poolVars
  PROVE  PoolInv'
<1>1. CASE UNCHANGED poolVars
  <2>1. UNCHANGED <<given, ranking, stage, next, near, picked>>
    BY <1>1 DEF poolVars
  <2>2. (Choosing <=> Choosing') /\ (PoolTyped <=> PoolTyped') /\ (PicksFit <=> PicksFit')
    BY <2>1 DEF Choosing, PoolTyped, PicksFit
  <2>3. StagesFit <=> StagesFit'
    BY <2>1 DEF StagesFit
  <2>4. /\ \A i : (Passed(i) <=> Passed(i)') /\ (Tried(i) <=> Tried(i)')
        /\ \A c : Share(c)' = Share(c)
        /\ (Full <=> Full') /\ (WithinCap <=> WithinCap')
    BY <2>1, NothingTaken DEF Tried
  <2>5. (CapFirst <=> CapFirst') /\ (LikedNext <=> LikedNext') /\ (DislikedLast <=> DislikedLast')
    BY <2>1, <2>4 DEF CapFirst, LikedNext, DislikedLast
  <2> QED BY <2>1, <2>2, <2>3, <2>5 DEF PoolInv, ChoiceInv
<1>2. CASE PickNext
  <2>1. Choosing
    BY <1>2 DEF PickNext, PoolInv
  <2>2. CASE next > Len(ranking) \/ Full
    BY <1>2, <2>1, <2>2, PassEnds DEF PickNext
  <2>3. CASE ~(next > Len(ranking) \/ Full)
    <3>1. next <= Len(ranking)
      BY <2>3, RankingPlaces DEF PoolInv, PoolTyped
    <3> QED BY <1>2, <2>1, <2>3, <3>1, PassTries DEF PickNext
  <2> QED BY <2>2, <2>3
<1>3. ASSUME NEW i \in Goods, PickNear(i) PROVE PoolInv'
  BY <1>3, NearPicked
<1> QED BY <1>1, <1>2, <1>3, ChoiceBegins, NearEnds DEF PoolNext

(* The first of the ranking are no more than the pool holds. *)
LEMMA WholeIsShort ==
  ASSUME PoolAssumption, PoolTyped
  PROVE  Len(Whole(given, ranking)) <= PoolSize
<1> DEFINE free == {n \in DOMAIN ranking : ~Excluded(given, ranking[n])}
           least == IF Cardinality(free) < PoolSize THEN Cardinality(free) ELSE PoolSize
           size == IF given.empty THEN 0 ELSE least
           at(k) == ranking[CHOOSE n \in free : Cardinality({m \in free : m <= n}) = k]
<1>1. Len(ranking) \in Nat /\ DOMAIN ranking = 1..Len(ranking)
  BY RankingPlaces
<1>2. IsFiniteSet(1..Len(ranking))
  BY <1>1, FS_Interval
<1>3. Cardinality(free) \in Nat
  BY <1>1, <1>2, FS_Subset, FS_CardinalityType
<1>4. Whole(given, ranking) = [k \in 1..size |-> at(k)]
  BY DEF Whole
<1> HIDE DEF free, at
<1>5. size \in Nat /\ size <= PoolSize
  BY <1>3 DEF PoolAssumption
<1> HIDE DEF size
<1>6. Len([k \in 1..size |-> at(k)]) = size
  BY <1>5
<1> QED BY <1>4, <1>5, <1>6

(* The choice keeps to the ranking and to its size. *)
ChoiceFits ==
  /\ next <= Len(ranking) + 1
  /\ Len(picked) <= PoolSize
  /\ ~Choosing => near = {}

LEMMA ChoiceFitsStep ==
  ASSUME PoolAssumption, PoolInv, ChoiceFits, [PoolNext]_poolVars
  PROVE  ChoiceFits'
<1>1. PoolTyped /\ Len(ranking) \in Nat /\ next \in Nat /\ 1 <= Len(ranking) + 1
  BY RankingPlaces DEF PoolInv, PoolTyped
<1>2. UNCHANGED <<given, ranking>> /\ Choosing' = Choosing
  <2>1. UNCHANGED <<given, ranking>>
    BY DEF PoolNext, Start, PickNear, EndNear, NearFails, PickNext, poolVars
  <2> QED BY <2>1 DEF Choosing
<1>3. next' <= Len(ranking) + 1
  <2>1. next' = next \/ next' = 1 \/ (next' = next + 1 /\ ~(next > Len(ranking)))
    BY DEF PoolNext, Start, PickNear, EndNear, NearFails, PickNext, poolVars
  <2> QED BY <1>1, <2>1 DEF ChoiceFits
<1>4. CASE Choosing
  <2>1. Len(picked') <= PoolSize
    BY <1>2, <1>4, PoolGoesOn DEF PoolInv, ChoiceInv, PicksFit
  <2> QED BY <1>2, <1>3, <1>4, <2>1 DEF ChoiceFits
<1>5. CASE ~Choosing
  <2>1. stage \in {"start", "done"} /\ near = {}
    BY <1>5 DEF PoolInv, ChoiceFits
  <2>2. UNCHANGED picked \/ picked' = Whole(given, ranking)
    BY <1>5, <2>1 DEF PoolNext, Start, PickNear, EndNear, NearFails, PickNext, poolVars, Choosing
  <2>3. near' = {}
    BY <1>5, <2>1 DEF PoolNext, Start, PickNear, EndNear, NearFails, PickNext, poolVars, Choosing
  <2>4. Len(picked') <= PoolSize
    BY <1>1, <2>2, WholeIsShort DEF ChoiceFits
  <2> QED BY <1>2, <1>3, <2>3, <2>4 DEF ChoiceFits
<1> QED BY <1>4, <1>5

LEMMA PoolStarts ==
  ASSUME PoolAssumption, PoolInit
  PROVE  PoolInv
<1>1. /\ RequestTyped(given) /\ ranking = RankedGoods(given) /\ stage = "start" /\ next = 1
      /\ near = {} /\ picked = <<>>
  BY DEF PoolInit, PoolAssumption, RequestTyped
<1>2. DOMAIN picked = {} /\ Len(picked) = 0 /\ picked \in Seq(Scored(given))
  BY <1>1
<1>3. PicksFit /\ WithinCap
  <2>1. \A c : Share(c) = 0
    <3>1. \A c : InCategory(picked, c) = {}
      BY <1>2 DEF InCategory
    <3> QED BY <3>1, FS_EmptySet DEF Share
  <2> QED BY <1>2, <2>1 DEF PicksFit, WithinCap, PoolAssumption
<1> QED BY <1>1, <1>2, <1>3 DEF PoolInv, PoolTyped, ChoiceInv, StagesFit, CapFirst, LikedNext, DislikedLast

(* The choice keeps to its types: the ranking has no product twice, the *)
(* pool no more than it may hold. *)
THEOREM PoolTypes ==
  ASSUME PoolAssumption
  PROVE  PoolSpec => []PoolTypeOK
<1>1. PoolInit => PoolInv
  BY PoolStarts
<1>2. PoolInv /\ [PoolNext]_poolVars => PoolInv'
  BY PoolGoesOn
<1>3. PoolInit => ChoiceFits
  <2> SUFFICES ASSUME PoolInit PROVE ChoiceFits
    OBVIOUS
  <2>1. Len(ranking) \in Nat
    BY PoolStarts, RankingPlaces DEF PoolInv
  <2>2. next = 1 /\ Len(picked) = 0 /\ near = {}
    BY DEF PoolInit
  <2> QED BY <2>1, <2>2 DEF ChoiceFits, PoolAssumption
<1>4. PoolInv /\ ChoiceFits /\ [PoolNext]_poolVars => ChoiceFits'
  BY ChoiceFitsStep
<1>5. PoolInv /\ ChoiceFits => PoolTypeOK
  <2> SUFFICES ASSUME PoolInv, ChoiceFits PROVE PoolTypeOK
    OBVIOUS
  <2>1. Len(ranking) \in Nat /\ RequestTyped(given)
    BY RankingPlaces DEF PoolInv, PoolTyped
  <2>2. near \subseteq Goods
    BY DEF PoolInv, ChoiceFits, ChoiceInv, StagesFit, Scored, Candidates
  <2>3. Len(ranking) <= Cardinality(Goods)
    <3>1. Scored(given) \subseteq Goods
      BY DEF Scored, Candidates
    <3>2. Cardinality(Scored(given)) <= Cardinality(Goods)
      BY <3>1, FS_Subset DEF PoolAssumption
    <3>3. Len(ranking) = Cardinality(Scored(given))
      BY <2>1, RankingIsRight DEF PoolInv, PoolTyped
    <3> QED BY <3>2, <3>3
  <2> QED BY <2>1, <2>2, <2>3 DEF PoolInv, PoolTyped, ChoiceFits, PoolTypeOK
<1> QED BY <1>1, <1>2, <1>3, <1>4, <1>5, PTL DEF PoolSpec

(* For any catalog, views, ratings, dislikes, models, sizes and caps, and *)
(* wherever the search by tags ends or fails: the pool has nothing that *)
(* was received, is out of stock or is hit by a disliked tag, no product *)
(* and no model twice, and gives way in order, the cap of a category *)
(* first and the dislikes last; and both modes rank the products that *)
(* nobody dislikes alike (selection.py select_pool, pipeline.py *)
(* rank_products). *)
THEOREM PoolsAreRight ==
  ASSUME PoolAssumption
  PROVE  PoolSpec => [](PoolIsRight /\ ModesAgree)
<1>1. PoolInit => PoolInv
  BY PoolStarts
<1>2. PoolInv /\ [PoolNext]_poolVars => PoolInv'
  BY PoolGoesOn
<1>3. PoolInv => PoolIsRight
  <2> SUFFICES ASSUME PoolInv, stage = "done", Choosing PROVE PoolIsRight
    BY DEF PoolIsRight, Choosing
  <2>1. ChoiceInv /\ PoolTyped /\ picked \in Seq(Scored(given)) /\ DOMAIN picked = 1..Len(picked)
    BY DEF PoolInv, ChoiceInv, PicksFit
  <2>2. \A i \in Range(picked) : \E k \in DOMAIN picked : picked[k] = i
    BY DEF Range
  <2>3. \A i \in Range(picked) : ~Excluded(given, i) /\ i \notin given.unavailable
    BY <2>1, <2>2 DEF ChoiceInv, PicksFit, Scored, Candidates
  <2>4. \A j, k \in DOMAIN picked : j # k => picked[j] # picked[k] /\ ~Twins(given, picked[j], picked[k])
    BY <2>1 DEF ChoiceInv, PicksFit
  <2>5. \A i : LeftOut(i) => i \in Scored(given) /\ ~Excluded(given, i) /\ ~Passed(i)
    BY <2>1, RankingPlaces DEF LeftOut, Passed, Range
  <2>6. ~Full => ~\E i \in Goods : LeftOut(i)
    BY <2>1, <2>5 DEF ChoiceInv, DislikedLast
  <2>7. (\E i \in Range(picked) : Disliked(given, i)) => ~\E i \in Goods : LeftOut(i) /\ ~Disliked(given, i)
    BY <2>1, <2>2, <2>5 DEF ChoiceInv, LikedNext, Usable
  <2>8. ASSUME NEW i \in Range(picked), Cardinality(InCategory(picked, given.category[i])) > CatCap,
               NEW j \in Goods, LeftOut(j), ~Disliked(given, j)
        PROVE  ~(Cardinality(InCategory(picked, given.category[j])) < CatCap)
    <3>1. \A c : Share(c) \in Nat
      BY <2>1, SharesAreCounted
    <3>2. ~WithinCap
      BY <2>8, <3>1 DEF WithinCap, Share, PoolAssumption
    <3>3. Share(given.category[j]) >= CatCap
      BY <2>1, <2>5, <2>8, <3>2 DEF ChoiceInv, CapFirst, Usable
    <3> QED BY <3>1, <3>3 DEF Share, PoolAssumption
  <2> QED BY <2>3, <2>4, <2>6, <2>7, <2>8 DEF PoolIsRight
<1>4. PoolInv => ModesAgree
  <2> SUFFICES ASSUME PoolInv PROVE ModesAgree
    OBVIOUS
  <2>1. PICK q : q = given
    OBVIOUS
  <2>2. PICK w : w = [q EXCEPT !.penalty = ~@]
    OBVIOUS
  <2>3. RequestTyped(q) /\ ranking = RankedGoods(q)
    BY <2>1 DEF PoolInv, PoolTyped
  <2>4. /\ RequestTyped(w)
        /\ {i \in Scored(w) : ~Disliked(q, i)} = {i \in Scored(q) : ~Disliked(q, i)}
        /\ \A i, j \in Goods : ~Disliked(q, i) /\ ~Disliked(q, j) => (Above(w, i, j) <=> Above(q, i, j))
    BY <2>2, <2>3, ModesScoreAlike
  <2>5. /\ Range(ranking) = Scored(q) /\ Range(RankedGoods(w)) = Scored(w)
        /\ \A i, j \in Scored(q) : Precedes(ranking, i, j) <=> Above(q, i, j)
        /\ \A i, j \in Scored(w) : Precedes(RankedGoods(w), i, j) <=> Above(w, i, j)
    BY <2>3, <2>4, RankingOrder
  <2>6. Scored(q) \subseteq Goods /\ Scored(w) \subseteq Goods
    BY DEF Scored, Candidates
  <2>7. {i \in Range(ranking) : ~Disliked(q, i)} = {i \in Range(RankedGoods(w)) : ~Disliked(q, i)}
    BY <2>4, <2>5
  <2>8. \A i, j \in {k \in Range(ranking) : ~Disliked(q, k)} :
          Precedes(ranking, i, j) <=> Precedes(RankedGoods(w), i, j)
    BY <2>4, <2>5, <2>6, <2>7
  <2> QED BY <2>1, <2>2, <2>7, <2>8 DEF ModesAgree
<1> QED BY <1>1, <1>2, <1>3, <1>4, PTL DEF PoolSpec
=============================================================================
