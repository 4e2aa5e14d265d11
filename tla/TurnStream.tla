---------------------------- MODULE TurnStream ----------------------------
(***************************************************************************)
(* One answer on its way to the reader.  The model's pieces are read into  *)
(* a queue, gathered and committed as numbered events (chat/app/           *)
(* streaming.py, store.py); a stream of the turn, one of a limited number, *)
(* replays the events after the reader's cursor and follows the turn       *)
(* (main.py events, resource_limits.py); the Console relays whole frames   *)
(* (console/server.py) to a page that logs them and connects again after   *)
(* its last event (static/app.js, core.js).  A page may let go of a stream *)
(* and open the next before Chat has noticed.                              *)
(*                                                                         *)
(* A piece of text is its number; event n of a turn is number n.           *)
(***************************************************************************)
EXTENDS Naturals, Sequences, FiniteSets

CONSTANTS
    Turns, Pages,
    Streams,         \* connections, each used once
    MaxPieces,       \* bound: what the model sends for one answer
    QueueSize,       \* pieces read and not yet gathered (64)
    FlushSize,       \* pieces that are committed without waiting (64 characters)
    StreamTotal, StreamPerTurn,   \* 32 and 4
    NoStream

TurnStreamAssumption ==
    /\ {QueueSize, FlushSize, StreamTotal, StreamPerTurn} \subseteq Nat \ {0}
    /\ MaxPieces \in Nat
    /\ NoStream \notin Streams

VARIABLES
    model,       \* Turns -> what the provider has sent, and how it ended
    answer,      \* Turns -> the task of the turn: what it gathered, where it is
    published,   \* Turns -> the rows of events
    signals,     \* Runtime.signals: the turns with an asyncio.Event
    slots,       \* ResourceLimits: the total, and the count of each turn
    stream,      \* Streams -> a connection of Chat and the frames on their way
    page         \* Pages -> what the browser shows

streamVars == <<model, answer, published, signals, slots, stream, page>>

TurnEndings == {"COMPLETED", "FAILED", "CANCELLED"}

Ended(t) == \E n \in 1..Len(published[t]) : published[t][n].kind \in TurnEndings
Text(t) == UNION {published[t][n].pieces : n \in 1..Len(published[t])}

(* Store.emit: nothing is added to a turn that has ended. *)
Emitted(t, kind, pieces) ==
    IF Ended(t) THEN published
    ELSE [published EXCEPT ![t] = Append(@, [kind |-> kind, pieces |-> pieces])]

(* cleanup_turn: the signal goes with the last user of it. *)
Cleaned(t, working, held) == IF working \/ held > 0 THEN signals ELSE signals \ {t}

Working(t) == answer[t].at # "gone"

Begun == [at |-> "gather", taken |-> 0, buffer |-> {}, any |-> FALSE, ending |-> "FAILED"]

Unused == [at |-> "new", turn |-> NoStream, cursor |-> 0, batch |-> <<>>, last |-> 0,
           over |-> FALSE, wire |-> <<>>, leased |-> FALSE, cut |-> FALSE]

-----------------------------------------------------------------------------
(* stream_answer: the reader of the provider and the writer of the events. *)

Send(t) ==
    /\ Working(t) /\ model[t].end = "open"
    /\ model[t].sent < MaxPieces
    /\ model[t].sent - answer[t].taken < QueueSize
    /\ model' = [model EXCEPT ![t].sent = @ + 1]
    /\ UNCHANGED <<answer, published, signals, slots, stream, page>>

ModelEnds(t, how) ==
    /\ Working(t) /\ model[t].end = "open"
    /\ model' = [model EXCEPT ![t].end = how]
    /\ UNCHANGED <<answer, published, signals, slots, stream, page>>

(* The first piece is committed at once, the next when there are enough. *)
Take(t) ==
    /\ answer[t].at = "gather"
    /\ answer[t].taken < model[t].sent
    /\ LET gathered == answer[t].buffer \cup {answer[t].taken + 1}
           now == ~answer[t].any \/ Cardinality(gathered) >= FlushSize
       IN answer' = [answer EXCEPT ![t].taken = @ + 1, ![t].buffer = gathered,
                                   ![t].at = IF now THEN "flush" ELSE "gather"]
    /\ UNCHANGED <<model, published, signals, slots, stream, page>>

(* The deadline of what is gathered passes. *)
FlushDue(t) ==
    /\ answer[t].at = "gather" /\ answer[t].buffer # {}
    /\ answer' = [answer EXCEPT ![t].at = "flush"]
    /\ UNCHANGED <<model, published, signals, slots, stream, page>>

(* What the end of the queue makes of the answer. *)
Ending(t) == IF model[t].end = "stop" /\ model[t].sent > 0 THEN "COMPLETED" ELSE "FAILED"

(* Runtime.emit: a turn that somebody else ended cancels the task. *)
Flush(t) ==
    /\ answer[t].at = "flush"
    /\ published' = Emitted(t, "answer.delta", answer[t].buffer)
    /\ answer' = [answer EXCEPT ![t].buffer = {}, ![t].any = TRUE,
                                ![t].at = IF Ended(t) THEN "cancelled" ELSE "gather"]
    /\ UNCHANGED <<model, signals, slots, stream, page>>

(* The store is away, before the commit or after it. *)
FlushFails(t) ==
    /\ answer[t].at = "flush"
    /\ published' \in {published, Emitted(t, "answer.delta", answer[t].buffer)}
    /\ answer' = [answer EXCEPT ![t].at = "finish", ![t].ending = "FAILED"]
    /\ UNCHANGED <<model, signals, slots, stream, page>>

(* Mutant: what is gathered when the queue closes is dropped. *)
CloseAtOnce(t) ==
    /\ answer[t].at = "gather"
    /\ answer[t].taken = model[t].sent /\ model[t].end # "open"
    /\ answer' = [answer EXCEPT ![t].at = "finish", ![t].ending = Ending(t)]
    /\ UNCHANGED <<model, published, signals, slots, stream, page>>

(* The queue is empty and closed; what is still gathered goes first. *)
Close(t) ==
    /\ answer[t].at = "gather"
    /\ answer[t].taken = model[t].sent /\ model[t].end # "open"
    /\ answer' = IF answer[t].buffer # {}
                 THEN [answer EXCEPT ![t].at = "flush"]
                 ELSE [answer EXCEPT ![t].at = "finish", ![t].ending = Ending(t)]
    /\ UNCHANGED <<model, published, signals, slots, stream, page>>

(* The time of the turn is over. *)
Deadline(t) ==
    /\ answer[t].at \in {"gather", "flush"}
    /\ answer' = [answer EXCEPT ![t].at = "finish", ![t].ending = "FAILED"]
    /\ UNCHANGED <<model, published, signals, slots, stream, page>>

(* Runtime.finish: three attempts, else the recovery ends the turn. *)
Finish(t) ==
    /\ answer[t].at = "finish"
    /\ published' = Emitted(t, answer[t].ending, {})
    /\ answer' = [answer EXCEPT ![t].at = "ran"]
    /\ UNCHANGED <<model, signals, slots, stream, page>>

FinishFails(t) ==
    /\ answer[t].at = "finish"
    /\ answer' = [answer EXCEPT ![t].at = "ran"]
    /\ UNCHANGED <<model, published, signals, slots, stream, page>>

(* The task is done: forget. *)
Forget(t) ==
    /\ answer[t].at \in {"ran", "cancelled"}
    /\ answer' = [answer EXCEPT ![t] = [Begun EXCEPT !.at = "gone"]]
    /\ signals' = Cleaned(t, FALSE, slots.turn[t])
    /\ UNCHANGED <<model, published, slots, stream, page>>

(* PUT .../cancellation commits the end and then cancels the task; the *)
(* recovery of a lease ends a turn without its task. *)
Cancel(t) ==
    /\ published' = Emitted(t, "CANCELLED", {})
    /\ answer' = [answer EXCEPT ![t].at = IF Working(t) THEN "cancelled" ELSE @]
    /\ UNCHANGED <<model, signals, slots, stream, page>>

Recover(t) ==
    /\ ~Ended(t)
    /\ published' = Emitted(t, "FAILED", {})
    /\ UNCHANGED <<model, answer, signals, slots, stream, page>>

-----------------------------------------------------------------------------
(* GET .../events: a slot, the first replay, then the body. *)

(* StreamLease.release: once, however often it is called. *)
Released(c) ==
    IF stream[c].leased
    THEN [total |-> slots.total - 1, turn |-> [slots.turn EXCEPT ![stream[c].turn] = @ - 1]]
    ELSE slots

Free(t) == slots.total < StreamTotal /\ slots.turn[t] < StreamPerTurn

(* Nobody reads the stream any more; what was on its way is gone. *)
Left(c) ==
    IF c = NoStream THEN stream
    ELSE [stream EXCEPT ![c].wire = <<>>, ![c].cut = TRUE]

(* connect: the page lets go of the stream it has and asks for the next. *)
Connect(p, c) ==
    /\ stream[c].at = "new"
    /\ LET t == page[p].turn
           asked == [Left(page[p].stream) EXCEPT ![c].turn = t, ![c].cursor = page[p].cursor]
           refused == [Left(page[p].stream) EXCEPT ![c] = [Unused EXCEPT !.at = "closed", !.cut = TRUE]]
       IN IF Free(t)
          THEN /\ slots' = [total |-> slots.total + 1, turn |-> [slots.turn EXCEPT ![t] = @ + 1]]
               /\ stream' = [asked EXCEPT ![c].at = "admitted", ![c].leased = TRUE]
               /\ page' = [page EXCEPT ![p].stream = c]
          ELSE /\ stream' = refused
               /\ page' = [page EXCEPT ![p].stream = NoStream]
               /\ UNCHANGED slots
    /\ UNCHANGED <<model, answer, published, signals>>

(* Store.replay: the events after a number and the state, under one lock. *)
Replay(c) ==
    LET t == stream[c].turn
        batch == [n \in 1..(Len(published[t]) - stream[c].cursor) |-> stream[c].cursor + n]
    IN [stream[c] EXCEPT !.batch = batch, !.last = Len(published[t]), !.over = Ended(t)]

Open(c) ==
    /\ stream[c].at = "admitted"
    /\ stream' = [stream EXCEPT ![c] = [Replay(c) EXCEPT !.at = "opened"]]
    /\ UNCHANGED <<model, answer, published, signals, slots, page>>

(* The store is away, or the conversation is not the path's. *)
Refuse(c) ==
    /\ stream[c].at = "admitted"
    /\ slots' = Released(c)
    /\ signals' = Cleaned(stream[c].turn, Working(stream[c].turn), slots'.turn[stream[c].turn])
    /\ stream' = [stream EXCEPT ![c] = [Unused EXCEPT !.at = "closed", !.cut = TRUE]]
    /\ UNCHANGED <<model, answer, published, page>>

Start(c) ==
    /\ stream[c].at = "opened"
    /\ signals' = signals \cup {stream[c].turn}
    /\ stream' = [stream EXCEPT ![c].at = "body"]
    /\ UNCHANGED <<model, answer, published, slots, page>>

Yield(c) ==
    /\ stream[c].at = "body" /\ stream[c].batch # <<>>
    /\ stream' = [stream EXCEPT ![c].cursor = Head(stream[c].batch),
                                ![c].wire = IF stream[c].cut THEN @ ELSE Append(@, Head(stream[c].batch)),
                                ![c].batch = Tail(@)]
    /\ UNCHANGED <<model, answer, published, signals, slots, page>>

Complete(c) == stream[c].over /\ stream[c].cursor >= stream[c].last

(* The signal, or two seconds: either way the events are read again. *)
ReadAgain(c) ==
    /\ stream[c].at = "body" /\ stream[c].batch = <<>> /\ ~Complete(c)
    /\ stream' = [stream EXCEPT ![c] = Replay(c)]
    /\ UNCHANGED <<model, answer, published, signals, slots, page>>

(* The body ends: by itself, or since the reader is gone or a read failed. *)
EndBody(c, cut) ==
    /\ stream[c].at = "body"
    /\ cut \/ (stream[c].batch = <<>> /\ Complete(c))
    /\ slots' = Released(c)
    /\ signals' = Cleaned(stream[c].turn, Working(stream[c].turn), slots'.turn[stream[c].turn])
    /\ stream' = [stream EXCEPT ![c].at = "ending", ![c].cut = @ \/ cut, ![c].leased = FALSE]
    /\ UNCHANGED <<model, answer, published, page>>

(* ManagedStreamingResponse: its end releases too, with or without a body. *)
EndResponse(c) ==
    /\ stream[c].at \in {"opened", "ending"}
    /\ slots' = Released(c)
    /\ signals' = Cleaned(stream[c].turn, Working(stream[c].turn), slots'.turn[stream[c].turn])
    /\ stream' = [stream EXCEPT ![c] = [Unused EXCEPT !.at = "closed", !.wire = stream[c].wire,
                                                 !.cut = stream[c].cut \/ stream[c].at = "opened"]]
    /\ UNCHANGED <<model, answer, published, page>>

-----------------------------------------------------------------------------
(* The relay of the Console and the page. *)

Current(p, c) == page[p].stream = c

(* EventLog.add: an event it has is not added again. *)
Logged(p, n) ==
    IF n <= page[p].cursor THEN page[p]
    ELSE [page[p] EXCEPT !.log = Append(@, n), !.cursor = n]

Receive(p, c) ==
    /\ Current(p, c) /\ stream[c].wire # <<>>
    /\ page' = [page EXCEPT ![p] = Logged(p, Head(stream[c].wire))]
    /\ stream' = [stream EXCEPT ![c].wire = Tail(@)]
    /\ UNCHANGED <<model, answer, published, signals, slots>>

(* The connection breaks (the wire, the relay, a login that was revoked): *)
(* whole frames that have not arrived are gone. *)
Break(p, c) ==
    /\ Current(p, c)
    /\ stream' = Left(c)
    /\ page' = [page EXCEPT ![p].stream = NoStream]
    /\ UNCHANGED <<model, answer, published, signals, slots>>

(* The end of a stream that nobody cut. *)
Done(p, c) ==
    /\ Current(p, c) /\ stream[c].at \in {"ending", "closed"} /\ ~stream[c].cut
    /\ stream[c].wire = <<>>
    /\ page' = [page EXCEPT ![p].stream = NoStream, ![p].whole = TRUE]
    /\ UNCHANGED <<model, answer, published, signals, slots, stream>>

-----------------------------------------------------------------------------
StreamInit ==
    /\ model = [t \in Turns |-> [sent |-> 0, end |-> "open"]]
    /\ answer = [t \in Turns |-> Begun]
    /\ published = [t \in Turns |-> <<>>]
    /\ signals = {}
    /\ slots = [total |-> 0, turn |-> [t \in Turns |-> 0]]
    /\ stream = [c \in Streams |-> Unused]
    /\ page \in [Pages -> {[turn |-> t, log |-> <<>>, cursor |-> 0, stream |-> NoStream, whole |-> FALSE] : t \in Turns}]

StreamNext ==
    \/ \E t \in Turns : \/ Send(t) \/ Take(t) \/ FlushDue(t) \/ Flush(t) \/ FlushFails(t) \/ Close(t)
                        \/ Deadline(t) \/ Finish(t) \/ FinishFails(t) \/ Forget(t) \/ Cancel(t) \/ Recover(t)
                        \/ \E how \in {"stop", "length", "error"} : ModelEnds(t, how)
    \/ \E c \in Streams : \/ Open(c) \/ Refuse(c) \/ Start(c) \/ Yield(c) \/ ReadAgain(c) \/ EndResponse(c)
                          \/ \E cut \in BOOLEAN : EndBody(c, cut)
    \/ \E p \in Pages, c \in Streams : Connect(p, c) \/ Receive(p, c) \/ Break(p, c) \/ Done(p, c)

StreamSpec == StreamInit /\ [][StreamNext]_streamVars
-----------------------------------------------------------------------------
StreamTypeOK ==
    /\ \A t \in Turns : /\ model[t].sent \in 0..MaxPieces
                        /\ model[t].end \in {"open", "stop", "length", "error"}
                        /\ answer[t].taken \in 0..model[t].sent
                        /\ answer[t].buffer \subseteq 1..answer[t].taken
                        /\ answer[t].at \in {"gather", "flush", "finish", "ran", "cancelled", "gone"}
                        /\ slots.turn[t] \in 0..StreamPerTurn
    /\ slots.total \in 0..StreamTotal
    /\ signals \subseteq Turns
    /\ \A c \in Streams : /\ stream[c].at \in {"new", "admitted", "opened", "body", "ending", "closed"}
                          /\ stream[c].turn \in Turns \cup {NoStream}
    /\ \A p \in Pages : page[p].stream \in Streams \cup {NoStream}

(* The events of a turn have the pieces of the model in their order, none *)
(* of them twice, and a turn that ended COMPLETED has every piece the *)
(* model sent, and the model had stopped by itself: what was gathered when *)
(* the queue closed is committed first, a failed commit or a stream that *)
(* broke never ends as an answer (streaming.py flush and its last lines). *)
WholeAnswer ==
    \A t \in Turns :
        LET rows == published[t]
        IN /\ \A m, n \in 1..Len(rows) : m < n =>
                 \A i \in rows[m].pieces, j \in rows[n].pieces : i < j
           /\ (\E n \in 1..Len(rows) : rows[n].kind = "COMPLETED") =>
                 Text(t) = 1..model[t].sent /\ model[t].end = "stop"

(* The page has the events of its turn from the first on, each once and in *)
(* order, over all its connections; when a stream ended that nobody cut it *)
(* has the end of the turn with everything before it (main.py events, *)
(* Store.replay, EventLog.add). *)
LogIsPrefix ==
    \A p \in Pages :
        LET log == page[p].log
            rows == published[page[p].turn]
        IN /\ log = [n \in 1..Len(log) |-> n]
           /\ Len(log) <= Len(rows)
           /\ page[p].whole => Ended(page[p].turn) /\ Len(log) = Len(rows)

(* The counters are the streams that hold a slot, through refusals, bodies *)
(* that never began and the two ends that both release; and a signal is *)
(* kept only while a task or a stream of the turn can use it *)
(* (resource_limits.py StreamLease, cleanup_turn). *)
SlotsAreExact ==
    LET Held(t) == {c \in Streams : stream[c].at \in {"admitted", "opened", "body"} /\ stream[c].turn = t}
    IN /\ \A t \in Turns : slots.turn[t] = Cardinality(Held(t))
       /\ slots.total = Cardinality(UNION {Held(t) : t \in Turns})
       /\ \A t \in signals : Working(t) \/ slots.turn[t] > 0

(* All of it, at once. *)
StreamHolds == WholeAnswer /\ LogIsPrefix /\ SlotsAreExact
=============================================================================
