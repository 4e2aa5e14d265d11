--------------------------- MODULE SharedEmbedding --------------------------
(***************************************************************************)
(* The query encoder of Search, product-search/search/embedding.py: a      *)
(* child process that answers one line per query, an Encoder that talks to *)
(* it in the single thread of a pool, and a SharedEmbedding that queues    *)
(* queries, caches vectors and lets callers of one query share a future.   *)
(*                                                                         *)
(* Three things run at once: the event loop, the pool's thread, and the    *)
(* thread of shutdown(). A vector is named by the query it is of. The LRU  *)
(* order and malformed answers are left out.                               *)
(***************************************************************************)
EXTENDS Naturals, FiniteSets, Sequences

CONSTANTS
  Queries, Callers,
  QueueSize,     \* of PendingQueue
  CacheSize,     \* vectors that are kept
  MaxChildren,   \* bound: processes started
  None

Priorities == {0, 1, 2}   \* chat, qa, profile
Ready == "ready"
Failure == "failure"

(* A query is neither of the child's two words, and None is nothing else. *)
EncoderConstants ==
  /\ {Ready, Failure, None} \cap Queries = {} /\ None \notin Nat \cup {Ready, Failure}
  /\ {QueueSize, CacheSize, MaxChildren} \subseteq Nat

VARIABLES
  cache,     \* the vector cached for a query, or None
  pending,   \* queries with a future
  queue,     \* its entries: query, priority, sequence number
  caller,    \* each caller: what it waits for, or what it got
  worker,    \* the _work task: "none", "wait", "run", "gone"
  running,   \* the query it runs
  op,        \* where the pool's thread is in start() or encode()
  opQuery,   \* what it encodes; None for start()
  result,    \* what its future holds
  process,   \* Encoder.process: a child or None
  buffer,    \* Encoder._buffer
  child,     \* each child: alive, lines to answer, lines answered
  stopping,  \* Encoder._stopping
  closing    \* SharedEmbedding.close(): "no", "stop", "close", "done"

loopVars == <<cache, pending, queue, caller, worker, running>>
threadVars == <<op, opQuery, result, process, buffer, child>>
vars == <<loopVars, threadVars, stopping, closing>>

Children == 1..MaxChildren
Unborn == [born |-> FALSE, alive |-> FALSE, asked |-> <<>>, said |-> <<>>]
Idle == [step |-> "idle", query |-> None, vector |-> None]
Ops == {"none", "begin", "verify", "popen", "await ready", "write", "read", "fail", "over"}

TypeOK ==
  /\ cache \in [Queries -> Queries \cup {None}] /\ pending \subseteq Queries
  /\ \A e \in queue : e.query \in Queries /\ e.priority \in Priorities /\ e.at \in Nat
  /\ Cardinality(queue) <= QueueSize
  /\ worker \in {"none", "wait", "run", "gone"} /\ running \in Queries \cup {None}
  /\ op \in Ops /\ process \in Children \cup {None}
  /\ stopping \in BOOLEAN /\ closing \in {"no", "stop", "close", "done"}

(* open_search: start() of the encoder is in the pool. *)
Init ==
  /\ cache = [q \in Queries |-> None] /\ pending = {} /\ queue = {}
  /\ caller = [c \in Callers |-> Idle]
  /\ worker = "none" /\ running = None
  /\ op = "verify" /\ opQuery = None /\ result = None
  /\ process = None /\ buffer = <<>>
  /\ child = [k \in Children |-> Unborn]
  /\ stopping = FALSE /\ closing = "no"

Closed == closing # "no"

----------------------------------------------------------------------------
(* The event loop. *)

(* start() is back: the worker task begins. *)
Started ==
  /\ worker = "none" /\ op = "over" /\ result = Ready /\ ~Closed
  /\ worker' = "wait" /\ op' = "none" /\ result' = None
  /\ UNCHANGED <<cache, pending, queue, caller, running, opQuery, process, buffer, child,
                 stopping, closing>>

GetCached(c, q) ==
  /\ cache[q] # None
  /\ caller' = [caller EXCEPT ![c] = [step |-> "got", query |-> q, vector |-> cache[q]]]
  /\ UNCHANGED <<pending, queue>>

Waits(c, q) == caller' = [caller EXCEPT ![c] = [step |-> "waits", query |-> q, vector |-> None]]

(* Mutant: put into the queue again, the old entry stays. *)
PushedAgain(q, p) ==
  queue \cup {[e EXCEPT !.priority = p] : e \in {f \in queue : f.query = q /\ p < f.priority}}

(* promote(): the place among equals is kept. *)
Promoted(q, p) ==
  {IF e.query = q /\ p < e.priority THEN [e EXCEPT !.priority = p] ELSE e : e \in queue}

GetShared(c, q, p) ==
  /\ cache[q] = None /\ q \in pending
  /\ queue' = Promoted(q, p)
  /\ Waits(c, q) /\ UNCHANGED pending

(* The sequence number only orders the entries that are in the queue. *)
GetQueued(c, q, p) ==
  /\ cache[q] = None /\ q \notin pending
  /\ Cardinality(queue) < QueueSize            \* else SearchBusy
  /\ queue' = queue \cup {[query |-> q, priority |-> p, at |-> Cardinality(queue)]}
  /\ pending' = pending \cup {q}
  /\ Waits(c, q)

Get(c, q, p) ==
  /\ caller[c].step # "waits" /\ worker # "none" /\ ~Closed
  /\ GetCached(c, q) \/ GetShared(c, q, p) \/ GetQueued(c, q, p)
  /\ UNCHANGED <<cache, worker, running, threadVars, stopping, closing>>

(* wait_for of 20 seconds, or the client left; the future stays. *)
GiveUp(c) ==
  /\ caller[c].step = "waits"
  /\ caller' = [caller EXCEPT ![c] = Idle]
  /\ UNCHANGED <<cache, pending, queue, worker, running, threadVars, stopping, closing>>

First(e) ==
  \A f \in queue \ {e} : \/ e.priority < f.priority
                         \/ e.priority = f.priority /\ e.at < f.at

Behind(e) == {IF f.at > e.at THEN [f EXCEPT !.at = @ - 1] ELSE f : f \in queue \ {e}}

Work ==
  /\ worker = "wait" /\ op = "none"
  /\ \E e \in queue :
       /\ First(e)
       /\ queue' = Behind(e)
       /\ running' = e.query /\ opQuery' = e.query
  /\ worker' = "run" /\ op' = "begin"
  /\ UNCHANGED <<cache, pending, caller, result, process, buffer, child, stopping, closing>>

(* Future(q) is done: those who wait for it have a vector, or an error. *)
Settle(qs, v) ==
  caller' = [c \in Callers |->
    IF caller[c].step = "waits" /\ caller[c].query \in qs
      THEN IF v = Failure THEN Idle ELSE [caller[c] EXCEPT !.step = "got", !.vector = v]
      ELSE caller[c]]

(* The finally of _work. *)
Forgotten(q) == pending \ {q}

Cached == {q \in Queries : cache[q] # None}

(* The new vector stays, an older one may have to go. *)
Remember(q, v) ==
  IF Cardinality(Cached \ {q}) < CacheSize
    THEN cache' = [cache EXCEPT ![q] = v]
    ELSE \E old \in Cached \ {q} : cache' = [cache EXCEPT ![q] = v, ![old] = None]

Worked ==
  /\ worker = "run" /\ op = "over"
  /\ IF result = Failure THEN UNCHANGED cache ELSE Remember(running, result)
  /\ Settle({running}, result)
  /\ pending' = Forgotten(running)
  /\ worker' = "wait" /\ running' = None /\ op' = "none" /\ opQuery' = None /\ result' = None
  /\ UNCHANGED <<queue, process, buffer, child, stopping, closing>>

(* close(), or start() that failed: futures fail, the queue is emptied and *)
(* the task is cancelled before the encoder is stopped. *)
Close ==
  /\ closing = "no"
  /\ Settle(pending, Failure)
  /\ pending' = {} /\ queue' = {} /\ worker' = "gone" /\ running' = None
  /\ closing' = "stop"
  /\ UNCHANGED <<cache, threadVars, stopping>>

----------------------------------------------------------------------------
(* The pool's thread: Encoder.start and Encoder.encode. *)

ThreadFrame == UNCHANGED <<loopVars, stopping, closing>>

Goto(step) == op' = step /\ UNCHANGED <<opQuery, result>>

Killed(k) == IF k = None THEN child ELSE [child EXCEPT ![k].alive = FALSE]

(* encode(): a child that is not there or died is replaced. *)
Begin ==
  /\ op = "begin"
  /\ IF process # None /\ child[process].alive
       THEN Goto("write") /\ UNCHANGED <<process, child>>
       ELSE Goto("verify") /\ process' = None /\ child' = Killed(process)
  /\ UNCHANGED buffer /\ ThreadFrame

Verify ==
  /\ op = "verify"
  /\ Goto("popen") \/ Goto("fail")
  /\ UNCHANGED <<process, buffer, child>> /\ ThreadFrame

MayStart == ~stopping

(* Under _process_lock. (The bound on children fails as Popen may.) *)
Popen ==
  /\ op = "popen"
  /\ LET unborn == {k \in Children : ~child[k].born}
     IN IF MayStart /\ unborn # {}
          THEN LET k == CHOOSE k \in unborn : \A l \in unborn : k <= l
               IN /\ process' = k /\ buffer' = <<>>
                  /\ child' = [child EXCEPT ![k] =
                       [born |-> TRUE, alive |-> TRUE, asked |-> <<Ready>>, said |-> <<>>]]
                  /\ Goto("await ready")
          ELSE Goto("fail") /\ UNCHANGED <<process, buffer, child>>
  /\ ThreadFrame

Reading == {"await ready", "read"}

(* _read_response: what the child said goes to the buffer. *)
Receive ==
  /\ op \in Reading /\ process # None /\ buffer = <<>>
  /\ child[process].said # <<>>
  /\ buffer' = child[process].said
  /\ child' = [child EXCEPT ![process].said = <<>>]
  /\ UNCHANGED <<op, opQuery, result, process>> /\ ThreadFrame

(* The first line of it is the answer. *)
Answered ==
  /\ op \in Reading /\ buffer # <<>>
  /\ buffer' = Tail(buffer)
  /\ IF op = "read"
       THEN op' = "over" /\ result' = Head(buffer)
       ELSE IF opQuery = None THEN op' = "over" /\ result' = Ready
       ELSE op' = "write" /\ UNCHANGED result
  /\ UNCHANGED <<opQuery, process, child>> /\ ThreadFrame

Write ==
  /\ op = "write"
  /\ IF process # None /\ child[process].alive
       THEN /\ child' = [child EXCEPT ![process].asked = Append(@, opQuery)]
            /\ Goto("read")
       ELSE Goto("fail") /\ UNCHANGED child
  /\ UNCHANGED <<process, buffer>> /\ ThreadFrame

(* The time is up, the child or its pipe is gone, or shutdown() has begun. *)
ReadFails ==
  /\ op \in Reading
  /\ Goto("fail")
  /\ UNCHANGED <<process, buffer, child>> /\ ThreadFrame

(* Every failure closes the child. *)
Fails ==
  /\ op = "fail"
  /\ op' = "over" /\ result' = Failure
  /\ process' = None /\ child' = Killed(process)
  /\ UNCHANGED <<opQuery, buffer>> /\ ThreadFrame

----------------------------------------------------------------------------
(* shutdown() in a thread of its own, and the child. *)

Stop ==
  /\ closing = "stop"
  /\ stopping' = TRUE /\ closing' = "close"
  /\ UNCHANGED <<loopVars, threadVars>>

StopChild ==
  /\ closing = "close"
  /\ process' = None /\ child' = Killed(process)
  /\ closing' = "done"
  /\ UNCHANGED <<loopVars, op, opQuery, result, buffer, stopping>>

ChildSays(k) ==
  /\ child[k].alive /\ child[k].asked # <<>>
  /\ child' = [child EXCEPT ![k].asked = Tail(@),
                            ![k].said = Append(@, Head(child[k].asked))]
  /\ UNCHANGED <<loopVars, op, opQuery, result, process, buffer, stopping, closing>>

ChildDies(k) ==
  /\ child[k].alive
  /\ child' = [child EXCEPT ![k].alive = FALSE]
  /\ UNCHANGED <<loopVars, op, opQuery, result, process, buffer, stopping, closing>>

----------------------------------------------------------------------------
Loop ==
  \/ Started \/ Work \/ Worked \/ Close
  \/ \E c \in Callers : GiveUp(c) \/ \E q \in Queries, p \in Priorities : Get(c, q, p)

Thread ==
  Begin \/ Verify \/ Popen \/ Receive \/ Answered \/ Write \/ ReadFails \/ Fails

Next ==
  \/ Loop \/ Thread \/ Stop \/ StopChild
  \/ \E k \in Children : ChildSays(k) \/ ChildDies(k)

Spec == Init /\ [][Next]_vars

(* Reads have deadlines and the worker goes on; the child may be silent. *)
FairSpec ==
  /\ Spec
  /\ WF_vars(Thread) /\ WF_vars(Stop) /\ WF_vars(StopChild)
  /\ WF_vars(Work) /\ WF_vars(Worked) /\ WF_vars(Started)

----------------------------------------------------------------------------
(* A query is answered with its own vector, and so is everyone who asks it *)
(* later: an answer that comes after its time is up is never taken for the *)
(* answer to the next query. *)
VectorOfItsQuery ==
  /\ \A q \in Queries : cache[q] \in {q, None}
  /\ \A c \in Callers : caller[c].step = "got" => caller[c].vector = caller[c].query

(* A future is queued or being worked on: whatever fails, no query is left *)
(* with a future that nobody will ever settle, or is encoded twice at once. *)
PendingIsWorked ==
  /\ pending = {e.query : e \in queue} \cup ({running} \ {None})
  /\ \A e, f \in queue : e.query = f.query => e = f
  /\ running \notin {e.query : e \in queue}
  /\ \A c \in Callers : caller[c].step = "waits" => caller[c].query \in pending

(* Both are what the encoder promises while it runs. *)
EncoderIsSafe == VectorOfItsQuery /\ PendingIsWorked

(* After close() every child is gone for good, even one that the pool's *)
(* thread was about to start. *)
NoneAfterClose == Closed => \A k \in Children : ~child[k].alive
NoChildLeft == <>[]NoneAfterClose

=============================================================================
