------------------------------- MODULE MCLive -------------------------------
(***************************************************************************)
(* One run for the parts that are asked to go on: the gate of the          *)
(* Profiler, the bindings and the encoder of Search, the turns of Chat.    *)
(* The initial state chooses a part, and the run is a run of that part's   *)
(* specification alone, with its fairness.  The variables v1, v2, ... are  *)
(* those of the chosen part; the ones it has no use for stay Nil.          *)
(***************************************************************************)
EXTENDS Integers, Sequences, FiniteSets, TLC

CONSTANTS
    Parts,             \* the parts that are run
    Nil,               \* whatever a part has a "nothing" for
    g1, g2, g3,        \* catalog clients, binding identifiers
    s1, s2,            \* snapshots, queries, turns
    w1, w2, w3, w4     \* workers, readers, clients, callers, processes

VARIABLES part, v1, v2, v3, v4, v5, v6, v7, v8, v9, v10, v11, v12, v13, v14, v15,
          v16, v17, v18

V11 == <<v1, v2, v3, v4, v5, v6, v7, v8, v9, v10, v11>>
V14 == <<v1, v2, v3, v4, v5, v6, v7, v8, v9, v10, v11, v12, v13, v14>>
V17 == <<v1, v2, v3, v4, v5, v6, v7, v8, v9, v10, v11, v12, v13, v14, v15, v16, v17>>
V18 == <<v1, v2, v3, v4, v5, v6, v7, v8, v9, v10, v11, v12, v13, v14, v15, v16, v17, v18>>
Above11 == <<v12, v13, v14, v15, v16, v17, v18>>
Above14 == <<v15, v16, v17, v18>>

(* SearchBindings: three generations of two products, in two pages. *)
Pages == (0 :> {1, 2}) @@ (1 :> {2, 3}) @@ (2 :> {1, 3})

(* ChatTurns: both turns are of one conversation. *)
OneConversation == [t \in {s1, s2} |-> w3]

-----------------------------------------------------------------------------
(* The parts. *)

Gate == INSTANCE ManagedSearch WITH
    Bindings <- {g1, g2, g3}, First <- g1, Snapshots <- {s1, s2},
    Slots <- {w1, w2}, Readers <- {w3}, Refresher <- w4, QueueMax <- 1,
    None <- Nil, current <- v1, snapshot <- v2, closes <- v3, retired <- v4,
    readers <- v5, reading <- v6, paused <- v7, closing <- v8, closed <- v9,
    pending <- v10, running <- v11, queue <- v12, slot <- v13, bound <- v14,
    stage <- v15, target <- v16, candidate <- v17, shutdown <- v18

Server == INSTANCE SearchBindings WITH
    Generations <- {0, 1}, Items <- Pages, Clients <- {w1},
    Idents <- {g1, g2}, Calls <- {w2}, MAX_BINDINGS <- 1,
    MAX_GENERATIONS <- 1, Lease <- 1, MaxDenied <- 1, NoBinding <- Nil,
    serving <- v1, readerCount <- v2, replaced <- v3, endings <- v4,
    entries <- v5, expiring <- v6, denied <- v7, ready <- v8, call <- v9,
    client <- v10, request <- v11

Encoder == INSTANCE SharedEmbedding WITH
    Queries <- {s1, s2}, Callers <- {w1, w2}, QueueSize <- 1,
    CacheSize <- 1, MaxChildren <- 2, None <- Nil, cache <- v1,
    pending <- v2, queue <- v3, caller <- v4, worker <- v5, running <- v6,
    op <- v7, opQuery <- v8, result <- v9, process <- v10, buffer <- v11,
    child <- v12, stopping <- v13, closing <- v14

Chat == INSTANCE ChatTurns WITH
    Proc <- {w1}, Turns <- {s1, s2}, Conv <- OneConversation, Ids <- 1..12,
    MaxActive <- 2, DailyLimit <- 2, PendingMax <- 2, Attempts <- 2,
    MaxEvents <- 0, MaxLate <- 0, MaxFaults <- 2, Pauses <- TRUE,
    Overtaking <- FALSE, None <- Nil, lease <- v1, status <- v2,
    events <- v3, paused <- v4, late <- v5, up <- v6, hb <- v7,
    healthy <- v8, owner <- v9, owned <- v10, pending <- v11, demand <- v12,
    covers <- v13, job <- v14, cancelling <- v15, released <- v16,
    faults <- v17

-----------------------------------------------------------------------------
(* What the parts assume of their constants. *)
ASSUME LiveAssumption ==
    /\ Gate!SearchConstants
    /\ Server!BindingConstants
    /\ Encoder!EncoderConstants
    /\ Chat!ChatConstants

RestNil == v15 = Nil /\ v16 = Nil /\ v17 = Nil /\ v18 = Nil

Init ==
    /\ part \in Parts
    /\ \/ part = "gate" /\ Gate!Init
       \/ /\ part = "bindings" /\ Server!BindingsInit
          /\ v12 = Nil /\ v13 = Nil /\ v14 = Nil /\ RestNil
       \/ part = "embedding" /\ Encoder!Init /\ RestNil
       \/ part = "chat" /\ Chat!Init /\ v18 = Nil

Next ==
    /\ UNCHANGED part
    /\ \/ part = "gate" /\ Gate!Next
       \/ part = "bindings" /\ Server!BindingsNext /\ UNCHANGED Above11
       \/ part = "embedding" /\ Encoder!Next /\ UNCHANGED Above14
       \/ part = "chat" /\ Chat!Next /\ UNCHANGED v18

vars == <<part, V18>>
Spec == Init /\ [][Next]_vars

(* What each part states as its FairSpec. *)
GateFairness ==
    /\ \A t \in {w1, w2, w3} : WF_V18(part = "gate" /\ Gate!ReadDone(t))
    /\ \A s \in {w1, w2} :
          /\ WF_V18(part = "gate" /\ Gate!Take(s))
          /\ WF_V18(part = "gate" /\ Gate!Begin(s))
          /\ SF_V18(part = "gate" /\ Gate!Finish(s))
    /\ WF_V18(part = "gate" /\ Gate!RefreshStep)
    /\ WF_V18(part = "gate" /\ Gate!ShutdownStep)

ServerFairness ==
    /\ WF_V11(part = "bindings" /\ Server!Tick)
    /\ WF_V11(part = "bindings" /\ Server!Watch)
    /\ WF_V11(part = "bindings" /\ Server!WatchRelease)
    /\ WF_V11(part = "bindings" /\ Server!CallEnd(w2))

EncoderFairness ==
    /\ WF_V14(part = "embedding" /\ Encoder!Thread)
    /\ WF_V14(part = "embedding" /\ Encoder!Stop)
    /\ WF_V14(part = "embedding" /\ Encoder!StopChild)
    /\ WF_V14(part = "embedding" /\ Encoder!Work)
    /\ WF_V14(part = "embedding" /\ Encoder!Worked)
    /\ WF_V14(part = "embedding" /\ Encoder!Started)

ChatFairness ==
    /\ WF_V17(part = "chat" /\ Chat!BeatMoves(w1))
    /\ WF_V17(part = "chat" /\ Chat!Restart(w1))
    /\ WF_V17(part = "chat" /\ Chat!Release(w1))
    /\ \A t \in {s1, s2} :
          /\ WF_V17(part = "chat" /\ Chat!JobMoves(w1, t))
          /\ WF_V17(part = "chat" /\ Chat!CancelOwned(w1, t))
    /\ WF_V17(part = "chat" /\ Chat!Expire)

FairSpec == Spec /\ GateFairness /\ ServerFairness /\ EncoderFairness /\ ChatFairness

-----------------------------------------------------------------------------
(* The gate opens again after every refresh, whatever failed in it, and *)
(* every client but the current one is closed in the end *)
(* (profiler_rebind.py refresh, _retire_ready). *)
GateLives ==
    /\ []<>(part = "gate" => Gate!Admitting)
    /\ \A b \in {g1, g2, g3} : []<>(part = "gate" => Gate!Released(b))

(* Search lets go: a replaced generation that no running client is bound *)
(* to is closed in the end, whoever died or was never answered *)
(* (catalog_bindings.py); and after the end of the encoder no child is *)
(* left, even one that was about to be started (embedding.py close, start). *)
SearchSettles ==
    /\ \A g \in {0, 1} : []<>(part = "bindings" /\ Server!Abandoned(g) => v4[g] = 1)
    /\ <>[](part = "embedding" => Encoder!NoneAfterClose)

(* Turns live as TurnLife says: one of a conversation at a time, each that *)
(* was admitted ends, once; and whatever failed, some process reports *)
(* ready again (store.py, runtime.py).  The first three conjuncts are *)
(* TurnLife's FairSpec, over the status of the turns. *)
ChatLives ==
    /\ part = "chat" => Chat!Life!Init
    /\ [][part = "chat" => Chat!Life!Next]_v2
    /\ \A t \in {s1, s2} : WF_v2(part = "chat" /\ Chat!Life!EndTurn(t))
    /\ []<>(part = "chat" => Chat!Healthy)
=============================================================================
