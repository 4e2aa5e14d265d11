---------------------------- MODULE RequiredRuns ----------------------------
(***************************************************************************)
(* The guards the integrated service puts around the Profiler's pipeline   *)
(* (profiler_boundary.py, profiler_generation.py, shared_search_binding    *)
(* .py): the model and the vectors are required, so a result computed      *)
(* without them, or on a generation Search no longer holds, must not       *)
(* become a stored RESULT_READY.  The pipeline itself goes on without tags *)
(* and without vectors; what was missed is remembered for the thread, and  *)
(* the guarded store refuses the result.                                   *)
(*                                                                         *)
(* A run is a recipient and a version with one input; its lock keeps two   *)
(* workers from one run.  Bodies are what they were computed from.         *)
(***************************************************************************)
EXTENDS Integers

CONSTANTS
    Workers,   \* the worker threads
    Runs,      \* the keys of ai_profile.profile_runs
    MaxTakes,  \* bound: how many jobs are taken
    MaxSends,  \* callback_max_attempts, 3
    NoRun      \* no run, no row

VARIABLES
    bound,    \* Search answers the retained binding
    failure,  \* ExecutionState.failure, for each thread
    job,      \* the job of each worker
    row,      \* the rows of profile_runs
    sent,     \* the bodies that Backend was sent
    taken     \* how many jobs were taken

requiredVars == <<bound, failure, job, row, sent, taken>>

NoJob == [run |-> NoRun, at |-> "idle", tags |-> "none", pool |-> "ranked", sends |-> 0]
NoRow == [status |-> "NONE", body |-> NoRun]

-----------------------------------------------------------------------------
(* A body: what became of the tags and what the pool was chosen by. *)

Tags == {"ok", "none", "fail"}   \* ok; empty, skip, skip_no_signal; bad_json, fail:*
Pools == {"ranked", "vectors"}   \* select_pool by the ranking alone, or near the tags
Bodies == [tags : Tags, pool : Pools]

RequiredAssumption ==
    /\ MaxTakes \in Nat /\ MaxSends \in Nat \ {0}
    /\ NoRun \notin Runs \union Bodies

(* What the integrated service may deliver: tags there are were searched. *)
Verified(body) == body.tags # "fail" /\ (body.tags = "ok" => body.pool = "vectors")

BodyOf(w) == [tags |-> job[w].tags, pool |-> job[w].pool]

Go(w, stage) == job' = [job EXCEPT ![w].at = stage]
Leave(w) == job' = [job EXCEPT ![w] = NoJob]

-----------------------------------------------------------------------------
(* The store: the upsert keeps the body it is given none for, and *)
(* RequiredStore stands before it. *)

Upsert(w, status, body) ==
    row' = [row EXCEPT ![job[w].run] =
              [status |-> status, body |-> IF body = NoRun THEN @.body ELSE body]]

(* RequiredStore.save of RESULT_READY: the binding is checked now. *)
Failed(w) == failure[w] \/ ~bound
Refuses(w, tags) == Failed(w) \/ tags = "fail"
Checked(w) == failure' = [failure EXCEPT ![w] = Failed(w)]

(* A refusal is stored first, without the body, and then raised. *)
StoreRefusal(w) == Upsert(w, "FAILED", NoRun)

-----------------------------------------------------------------------------
(* dispatch and the stages of pipeline.profile. *)

(* decide: a stored result is sent again; a failed, dead or new run is *)
(* analysed. *)
Take(w, r) ==
    /\ job[w] = NoJob
    /\ \A v \in Workers : job[v].run # r
    /\ taken < MaxTakes
    /\ taken' = taken + 1
    /\ job' = [job EXCEPT ![w] =
         IF row[r].status \in {"NONE", "RUNNING", "FAILED"}
         THEN [NoJob EXCEPT !.run = r, !.at = "begin"]
         ELSE [NoJob EXCEPT !.run = r, !.at = "send",
                           !.tags = row[r].body.tags, !.pool = row[r].body.pool]]
    /\ UNCHANGED <<bound, failure, row, sent>>

(* RUNNING: what this thread missed in an earlier job is forgotten. *)
BeginRun(w) ==
    /\ job[w].at = "begin"
    /\ failure' = [failure EXCEPT ![w] = FALSE]
    /\ \/ Upsert(w, "RUNNING", NoRun) /\ Go(w, "active")
       \/ UNCHANGED row /\ Leave(w)
    /\ UNCHANGED <<bound, sent, taken>>

(* _fail: the run is FAILED, or even that cannot be stored. *)
FailRun(w) == (Upsert(w, "FAILED", NoRun) \/ UNCHANGED row) /\ Leave(w)

(* GuardedCatalog.active, and the disliked categories of the taxonomy. *)
Active(w) ==
    /\ job[w].at = "active"
    /\ \/ bound /\ Go(w, "tags") /\ UNCHANGED row
       \/ FailRun(w)
    /\ UNCHANGED <<bound, failure, sent, taken>>

(* _extract_tags: the transport checks the generation before it sends; a *)
(* failure leaves the run without tags. *)
ExtractTags(w) ==
    /\ job[w].at = "tags"
    /\ \E tags \in IF bound THEN Tags ELSE Tags \ {"ok"} :
          job' = [job EXCEPT ![w].tags = tags,
                             ![w].at = IF tags = "ok" THEN "encode" ELSE "ready"]
    /\ UNCHANGED <<bound, failure, row, sent, taken>>

AfterCall == [encode |-> "similarities", similarities |-> "vectors", vectors |-> "ready"]

Missed(w) == failure' = [failure EXCEPT ![w] = TRUE]

(* A call of GuardedEmbedding in _embedding_pick.  When one fails the *)
(* thread remembers it and select_pool goes on by the ranking. *)
Embed(w) ==
    /\ job[w].at \in DOMAIN AfterCall
    /\ \/ /\ bound
          /\ job' = [job EXCEPT ![w].at = AfterCall[@],
                                ![w].pool = IF job[w].at = "vectors" THEN "vectors" ELSE @]
          /\ UNCHANGED failure
       \/ Missed(w) /\ Go(w, "ready")
    /\ UNCHANGED <<bound, row, sent, taken>>

(* The result: refused, stored, or the database is away (then the row *)
(* stays RUNNING). *)
StoreResult(w) ==
    /\ job[w].at = "ready"
    /\ Checked(w)
    /\ \/ Refuses(w, job[w].tags) /\ StoreRefusal(w) /\ Leave(w)
       \/ ~Refuses(w, job[w].tags) /\ Upsert(w, "RESULT_READY", BodyOf(w)) /\ Go(w, "profile")
       \/ UNCHANGED row /\ Leave(w)
    /\ UNCHANGED <<bound, sent, taken>>

(* The recipient's profile. *)
UpsertProfile(w) ==
    /\ job[w].at = "profile"
    /\ \/ Go(w, "send") /\ UNCHANGED row
       \/ FailRun(w)
    /\ UNCHANGED <<bound, failure, sent, taken>>

-----------------------------------------------------------------------------
(* deliver: the same for a new result and for one that is sent again. *)

(* A call: Backend takes it, refuses it, or no answer came (and it may *)
(* have taken it). *)
Send(w) ==
    /\ job[w].at = "send"
    /\ sent' = [sent EXCEPT ![job[w].run] = @ \union {BodyOf(w)}]
    /\ \E next \in {"delivered", "superseded", "rejected",
                    IF job[w].sends + 1 < MaxSends THEN "send" ELSE "unanswered"} :
          job' = [job EXCEPT ![w].at = next, ![w].sends = @ + 1]
    /\ UNCHANGED <<bound, failure, row, taken>>

(* VisibleProductsBackend could not ask Search what may be shown. *)
Unseen(w) ==
    /\ job[w].at = "send"
    /\ IF job[w].sends = 0 THEN Leave(w) ELSE Go(w, "unanswered")
    /\ UNCHANGED <<bound, failure, row, sent, taken>>

StatusOf == [delivered |-> "DELIVERED", superseded |-> "SUPERSEDED", rejected |-> "FAILED"]

(* What came of it is stored, with the body. *)
StoreAnswer(w) ==
    /\ job[w].at \in DOMAIN StatusOf
    /\ Upsert(w, StatusOf[job[w].at], BodyOf(w)) \/ UNCHANGED row
    /\ Leave(w)
    /\ UNCHANGED <<bound, failure, sent, taken>>

(* Without an answer the run is RESULT_READY again, and the guard of the *)
(* store is asked again. *)
StoreUnanswered(w) ==
    /\ job[w].at = "unanswered"
    /\ Checked(w)
    /\ \/ Refuses(w, job[w].tags) /\ StoreRefusal(w)
       \/ ~Refuses(w, job[w].tags) /\ Upsert(w, "RESULT_READY", BodyOf(w))
       \/ UNCHANGED row
    /\ Leave(w)
    /\ UNCHANGED <<bound, sent, taken>>

-----------------------------------------------------------------------------
(* Search restarts or the lease ends; a refresh binds it again. *)
Search ==
    /\ bound' = ~bound
    /\ UNCHANGED <<failure, job, row, sent, taken>>

RequiredInit ==
    /\ bound = TRUE
    /\ failure = [w \in Workers |-> FALSE]
    /\ job = [w \in Workers |-> NoJob]
    /\ row = [r \in Runs |-> NoRow]
    /\ sent = [r \in Runs |-> {}]
    /\ taken = 0

RequiredNext ==
    \/ Search
    \/ \E w \in Workers :
         \/ \E r \in Runs : Take(w, r)
         \/ BeginRun(w) \/ Active(w) \/ ExtractTags(w) \/ Embed(w) \/ StoreResult(w)
         \/ UpsertProfile(w) \/ Send(w) \/ Unseen(w) \/ StoreAnswer(w) \/ StoreUnanswered(w)

RequiredSpec == RequiredInit /\ [][RequiredNext]_requiredVars

-----------------------------------------------------------------------------
(* Types. *)
RequiredTypeOK ==
    /\ bound \in BOOLEAN /\ failure \in [Workers -> BOOLEAN] /\ taken \in 0..MaxTakes
    /\ \A w \in Workers :
         /\ job[w].run \in Runs \union {NoRun}
         /\ job[w].at \in {"idle", "begin", "active", "tags", "ready", "profile", "send", "unanswered"}
                            \union DOMAIN AfterCall \union DOMAIN StatusOf
         /\ BodyOf(w) \in Bodies /\ job[w].sends \in 0..MaxSends
    /\ \A r \in Runs :
         /\ row[r].status \in {"NONE", "RUNNING", "RESULT_READY", "DELIVERED", "SUPERSEDED", "FAILED"}
         /\ row[r].body \in Bodies \union {NoRun}
         /\ sent[r] \subseteq Bodies

(* Required execution: no stored body and no body Backend was sent was *)
(* computed without the tags or the vectors it needed, although the *)
(* pipeline swallows those failures (profiler_boundary.py:100-125).  And *)
(* what makes a thread refuse a result it has just computed happened in *)
(* that very job, not in an earlier one or on another thread. *)
RequiredExecution ==
    /\ \A r \in Runs :
         /\ row[r].body # NoRun => Verified(row[r].body)
         /\ \A body \in sent[r] : Verified(body)
    /\ \A w \in Workers :
         job[w].at \in {"active", "tags", "ready"} \union DOMAIN AfterCall /\ failure[w]
            => job[w].tags = "ok" /\ job[w].pool = "ranked"

=============================================================================
