---------------------------- MODULE ConsoleChat ----------------------------
(***************************************************************************)
(* The administrator console as a client of Chat (console/server.py,      *)
(* Backend) with its session store (console/admin_auth.py, AdminAuth).     *)
(* A console request names a turn and a conversation by identifiers the    *)
(* page chose; the console freezes the whole body in the session store,    *)
(* claims the conversation, sends the turn and keeps a row that lets the   *)
(* same login, and nobody else, read the turn back.  Sessions end at any   *)
(* time (log-out, expiry, a rotated password: their rows go with them),    *)
(* the console may stop between any two steps, and an HTTP request whose    *)
(* answer was lost may still reach Chat later, or never.                   *)
(***************************************************************************)
EXTENDS Naturals, FiniteSets

CONSTANTS
    Sessions,       \* logins
    Turns,          \* request ids; each goes with its own turn id
    Conversations,  \* conversation ids a page may choose
    Messages,       \* what a page may ask for: the fingerprint of its input
    QuickCheck,     \* the member of Messages that is the quick check
    MaxContext,     \* bound: how often the recipient's context changes
    MaxRows,        \* rows one session may own (256 in the code)
    Nothing         \* a model value: no row, no body, nobody

VARIABLES
    login,      \* Sessions -> the life of each login
    rows,       \* chat_admissions: Turns -> a row or Nothing
    op,         \* the chat call that holds Backend.lock
    awaited,    \* pending_turns: sent, not yet answered for the first time
    context,    \* the version of the recipient context the fixture serves
    creator,    \* Chat's conversations: who created each, or Nothing
    accepted,   \* Chat's turns: <<conversation, turn>> -> body or Nothing
    late,       \* requests without an answer that may still reach Chat
    sent,       \* history: every turn request that was ever sent
    cancels     \* history: every cancellation that was sent, and by whom

consoleVars == <<login, rows, op, awaited, context, creator, accepted, late, sent, cancels>>

Bodies == [message : Messages, context : 0..MaxContext]
Row == [owner : Sessions, conversation : Conversations, body : Bodies,
        readable : BOOLEAN, owned : BOOLEAN]
TurnRequest == [conversation : Conversations, turn : Turns, body : Bodies]
CreateRequest == [conversation : Conversations, by : Sessions]

ConsoleAssumption ==
    /\ QuickCheck \in Messages
    /\ MaxContext \in Nat
    /\ MaxRows \in Nat \ {0}
    /\ Nothing \notin Sessions
    /\ Nothing \notin Bodies
    /\ Nothing \notin Row

NoCall == [at |-> "idle"]

ConsoleInit ==
    /\ login = [s \in Sessions |-> "new"]
    /\ rows = [t \in Turns |-> Nothing]
    /\ op = NoCall
    /\ awaited = {}
    /\ context = 0
    /\ creator = [c \in Conversations |-> Nothing]
    /\ accepted = [k \in Conversations \X Turns |-> Nothing]
    /\ late = {}
    /\ sent = {}
    /\ cancels = {}

Chat == <<creator, accepted>>

-----------------------------------------------------------------------------
(* The session store *)

Live(s) == login[s] = "live"

OwnRows(s) == {t \in Turns : rows[t] # Nothing /\ rows[t].owner = s}

(* owns_chat_conversation: some row of this login has claimed c. *)
Claimed(s, c) ==
    \E t \in OwnRows(s) : rows[t].conversation = c /\ rows[t].owned

(* No row of another login names c (CONSOLE_CHAT_OWNERSHIP_MISMATCH). *)
NoneElse(s, c) ==
    \A t \in Turns : rows[t] # Nothing /\ rows[t].conversation = c => rows[t].owner = s

(* What save_chat_admission checks of a row before it writes it. *)
MaySave(t, row) ==
    /\ Live(row.owner)
    /\ NoneElse(row.owner, row.conversation)
    /\ rows[t] # Nothing => /\ rows[t].owner = row.owner
                          /\ rows[t].conversation = row.conversation
                          /\ rows[t].body = row.body
    /\ rows[t] = Nothing => Cardinality(OwnRows(row.owner)) < MaxRows

(* An UPDATE never takes back that the conversation was claimed. *)
Save(t, row) ==
    rows' = [rows EXCEPT ![t] =
                [row EXCEPT !.owned = @ \/ (rows[t] # Nothing /\ rows[t].owned)]]

SaveIfLive(t, row) ==
    IF MaySave(t, row) THEN Save(t, row) ELSE UNCHANGED rows

SignIn(s) ==
    /\ login[s] = "new"
    /\ login' = [login EXCEPT ![s] = "live"]
    /\ UNCHANGED <<rows, op, awaited, context, Chat, late, sent, cancels>>

(* Log-out, expiry, another password: the session's rows are deleted with *)
(* it (ON DELETE CASCADE).  Every use of the store deletes ended sessions *)
(* first, so the moment of the deletion cannot be told apart. *)
EndSession(s) ==
    /\ Live(s)
    /\ login' = [login EXCEPT ![s] = "over"]
    /\ rows' = [t \in Turns |-> IF t \in OwnRows(s) THEN Nothing ELSE rows[t]]
    /\ UNCHANGED <<op, awaited, context, Chat, late, sent, cancels>>

-----------------------------------------------------------------------------
(* Chat, as far as the console can see it *)

Received(create) ==
    creator' = IF creator[create.conversation] = Nothing
                 THEN [creator EXCEPT ![create.conversation] = create.by]
                 ELSE creator

Key(turn) == <<turn.conversation, turn.turn>>

Takes(turn) ==
    /\ accepted[Key(turn)] \in {Nothing, turn.body}
    /\ accepted' = [accepted EXCEPT ![Key(turn)] = turn.body]

(* A request whose answer nobody waits for reaches Chat, or is lost. *)
LateArrives ==
    \E request \in late :
        /\ late' = late \ {request}
        /\ \/ request \in CreateRequest /\ Received(request) /\ UNCHANGED accepted
           \/ request \in TurnRequest /\ Takes(request) /\ UNCHANGED creator
           \/ UNCHANGED Chat
        /\ UNCHANGED <<login, rows, op, awaited, context, sent, cancels>>

NewContext ==
    /\ context < MaxContext
    /\ context' = context + 1
    /\ UNCHANGED <<login, rows, op, awaited, Chat, late, sent, cancels>>

-----------------------------------------------------------------------------
(* Backend.chat, one action from one await to the next *)

Done == op' = NoCall

(* Under the lock: the saved row, its fingerprint, the quick check's *)
(* conversation.  An accepted turn is asked for before it may be sent. *)
Look(s, t, c, m) ==
    /\ op = NoCall
    /\ Live(s)
    /\ rows[t] # Nothing => /\ rows[t].owner = s
                          /\ rows[t].conversation = c
                          /\ rows[t].body.message = m
    /\ m = QuickCheck /\ rows[t] = Nothing => NoneElse(s, c) /\ ~Claimed(s, c)
    /\ op' = [at |-> IF rows[t] # Nothing /\ rows[t].readable THEN "ask" ELSE "prepare",
              session |-> s, turn |-> t, conversation |-> c, message |-> m,
              old |-> rows[t]]
    /\ UNCHANGED <<login, rows, awaited, context, Chat, late, sent, cancels>>

(* GET of a turn whose row is readable: 200 is the answer; only a confirmed *)
(* 404 goes on to send it again; any other status ends the call. *)
AskChat ==
    /\ op.at = "ask"
    /\ \/ Done
       \/ /\ accepted[<<op.conversation, op.turn>>] = Nothing
          /\ op' = [op EXCEPT !.at = "prepare"]
    /\ UNCHANGED <<login, rows, awaited, context, Chat, late, sent, cancels>>

(* The body of a turn: frozen with its first row, never fetched again. *)
(* The quick check carries an explicit empty context. *)
FrozenBody ==
    IF op.old # Nothing THEN op.old.body
    ELSE [message |-> op.message,
          context |-> IF op.message = QuickCheck THEN 0 ELSE context]

WasReadable == op.old # Nothing /\ op.old.readable

(* The readiness of Chat and of the fixture, the context, then the row. *)
Freeze ==
    /\ op.at = "prepare"
    /\ LET row == [owner |-> op.session, conversation |-> op.conversation,
                   body |-> FrozenBody, readable |-> WasReadable,
                   owned |-> op.old # Nothing /\ op.old.owned]
       IN  \/ /\ MaySave(op.turn, row)
              /\ Save(op.turn, row)
              /\ op' = [at |-> "claim", session |-> op.session, turn |-> op.turn,
                        old |-> op.old, row |-> row,
                        known |-> row.owned \/ Claimed(op.session, op.conversation)]
           \/ Done /\ UNCHANGED rows
    /\ UNCHANGED <<login, awaited, context, Chat, late, sent, cancels>>

Creation == [conversation |-> op.row.conversation, by |-> op.session]

(* Mutant: an existing conversation is claimed by whoever names it. *)
MineAnyway == TRUE

(* PUT conversation answered.  200 says that it existed: it may then only *)
(* be used when this login is known to have made it.  The turn's row is *)
(* made readable before the turn is sent. *)
Mine == creator[op.row.conversation] = Nothing \/ op.known

Claim ==
    /\ op.at = "claim"
    /\ Received(Creation)
    /\ LET row == [op.row EXCEPT !.owned = TRUE, !.readable = TRUE]
       IN  IF Mine /\ MaySave(op.turn, row)
             THEN /\ Save(op.turn, row)
                  /\ op' = [op EXCEPT !.at = "send", !.row = row]
                  /\ awaited' = IF WasReadable THEN awaited ELSE awaited \cup {op.turn}
             ELSE Done /\ UNCHANGED <<rows, awaited>>
    /\ UNCHANGED <<login, context, accepted, late, sent, cancels>>

(* PUT conversation refused, or without an answer: no turn is sent. *)
ClaimFails ==
    /\ op.at = "claim"
    /\ Done
    /\ \/ SaveIfLive(op.turn, op.row) /\ UNCHANGED late
       \/ late' = late \cup {Creation} /\ UNCHANGED rows
    /\ UNCHANGED <<login, awaited, context, Chat, sent, cancels>>

Request == [conversation |-> op.row.conversation, turn |-> op.turn, body |-> op.row.body]

SendTurn ==
    /\ op.at = "send"
    /\ op' = [op EXCEPT !.at = "sent"]
    /\ sent' = sent \cup {Request}
    /\ UNCHANGED <<login, rows, awaited, context, Chat, late, cancels>>

Answered == awaited' = awaited \ {op.turn}

(* rejected_admission: the turn is as readable as it was before this call. *)
PutBack == SaveIfLive(op.turn, [op.row EXCEPT !.readable = WasReadable])

(* The connection failed, nothing left the console; or the token could not *)
(* be read, which leaves the row readable. *)
NotSent ==
    /\ op.at = "send"
    /\ PutBack \/ UNCHANGED rows
    /\ Answered
    /\ Done
    /\ UNCHANGED <<login, context, Chat, late, sent, cancels>>

Accepts ==
    /\ op.at = "sent"
    /\ Takes(Request)
    /\ SaveIfLive(op.turn, op.row)
    /\ Answered
    /\ Done
    /\ UNCHANGED <<login, context, creator, late, sent, cancels>>

(* A status below 500 other than 200, 202 and 408.  Chat answers a turn it *)
(* has already accepted with this body with 200 or 202. *)
Refuses ==
    /\ op.at = "sent"
    /\ accepted[Key(Request)] # Request.body
    /\ PutBack
    /\ Answered
    /\ Done
    /\ UNCHANGED <<login, context, Chat, late, sent, cancels>>

(* 408, 5xx, or the answer was lost: the turn may have been accepted. *)
Unsure == SaveIfLive(op.turn, [op.row EXCEPT !.readable = TRUE])

NoAnswer ==
    /\ op.at = "sent"
    /\ Unsure
    /\ late' = late \cup {Request}
    /\ Answered
    /\ Done
    /\ UNCHANGED <<login, context, Chat, sent, cancels>>

(* The console stops.  A request it was waiting for is on its way. *)
StopConsole ==
    /\ op # NoCall
    /\ late' = late \cup (IF op.at = "claim" THEN {Creation}
                          ELSE IF op.at = "sent" THEN {Request} ELSE {})
    /\ Done
    /\ awaited' = {}
    /\ UNCHANGED <<login, rows, context, Chat, sent, cancels>>

-----------------------------------------------------------------------------
(* state, diagnostics, cancel and events all start with admission. *)
MayRead(s, t) ==
    /\ t \notin awaited
    /\ Live(s)
    /\ rows[t] # Nothing
    /\ rows[t].owner = s
    /\ rows[t].readable

Cancel(s, t) ==
    /\ MayRead(s, t)
    /\ cancels' = cancels \cup {[conversation |-> rows[t].conversation, by |-> s]}
    /\ UNCHANGED <<login, rows, op, awaited, context, Chat, late, sent>>

ConsoleNext ==
    \/ \E s \in Sessions : SignIn(s) \/ EndSession(s)
    \/ \E s \in Sessions, t \in Turns, c \in Conversations, m \in Messages : Look(s, t, c, m)
    \/ AskChat \/ Freeze \/ Claim \/ ClaimFails \/ SendTurn \/ NotSent
    \/ Accepts \/ Refuses \/ NoAnswer \/ StopConsole
    \/ LateArrives \/ NewContext
    \/ \E s \in Sessions, t \in Turns : Cancel(s, t)

ConsoleSpec == ConsoleInit /\ [][ConsoleNext]_consoleVars

-----------------------------------------------------------------------------
ConsoleTypeOK ==
    /\ login \in [Sessions -> {"new", "live", "over"}]
    /\ rows \in [Turns -> Row \cup {Nothing}]
    /\ op.at \in {"idle", "ask", "prepare", "claim", "send", "sent"}
    /\ awaited \subseteq Turns
    /\ context \in 0..MaxContext
    /\ creator \in [Conversations -> Sessions \cup {Nothing}]
    /\ accepted \in [Conversations \X Turns -> Bodies \cup {Nothing}]
    /\ late \subseteq CreateRequest \cup TurnRequest
    /\ sent \subseteq TurnRequest
    /\ cancels \subseteq CreateRequest

(* However often a turn is sent, by whatever login, after lost answers, *)
(* stops and new contexts, Chat is only ever sent one body for it ("A lost *)
(* acknowledgement must never refetch a newer profile"). *)
OneBody ==
    \A a, b \in sent : Key(a) = Key(b) => a.body = b.body

(* A turn that Chat has accepted can be read back by the login that owns *)
(* its conversation for as long as that login's row lives: no refusal, no *)
(* lost answer and no stop hides it. *)
AcceptedIsReadable ==
    \A t \in Turns :
        /\ rows[t] # Nothing
        /\ accepted[<<rows[t].conversation, t>>] # Nothing
        /\ creator[rows[t].conversation] = rows[t].owner
        => rows[t].readable

(* What a login may read, and what it has cancelled, lies in conversations *)
(* that Chat created for that login: naming the identifiers of another *)
(* login's conversation, even one whose rows are gone, gives nothing. *)
OwnConversations ==
    /\ \A t \in Turns : rows[t] # Nothing /\ rows[t].readable =>
           creator[rows[t].conversation] = rows[t].owner
    /\ \A cancel \in cancels : creator[cancel.conversation] = cancel.by
=============================================================================
