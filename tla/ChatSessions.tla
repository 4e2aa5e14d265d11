--------------------------- MODULE ChatSessions ---------------------------
(***************************************************************************)
(* Who reaches which conversation of Chat through its browser adapters:    *)
(* the trial pages (chat/app/main.py /demo, demo_api.py), which ask the    *)
(* store whose a conversation is on every request, and the minimal adapter *)
(* (minimal_chat/server.py), which has no store and only remembers, in its *)
(* process, the conversations that Chat confirmed to it.  Chat itself      *)
(* (main.py, store.py conversation) trusts the sender its callers name:    *)
(* what it checks is that an id keeps its sender, recipient and mode.      *)
(*                                                                         *)
(* A page chooses the ids, so it may name the conversation of somebody     *)
(* else; answers may be lost, and the minimal adapter may restart.         *)
(***************************************************************************)
EXTENDS Naturals, FiniteSets

CONSTANTS
    Minimal, Trial,      \* the browsers of each adapter
    Senders, Recipients,
    Talks,               \* conversation ids
    MaxTalks,            \* what a minimal session may name (64)
    NoTalk

Modes == {"live", "fixture"}

(* What is stored of a conversation. *)
Rows == [sender : Senders, to : Recipients, mode : Modes]

(* What a minimal session knows of one. *)
KnownTalks == [mode : Modes, verified : BOOLEAN]

ChatSessionsAssumption ==
    /\ Minimal \cap Trial = {}
    /\ MaxTalks \in Nat \ {0}
    /\ Recipients # {} /\ NoTalk \notin Rows \cup KnownTalks

VARIABLES
    talks,      \* Store.conversations: Talks -> sender, recipient and mode
    browser,    \* Minimal and Trial -> the session behind the cookie
    visit,      \* Minimal and Trial -> the request it is waiting for
    served      \* history: what Chat did for whom

talkVars == <<talks, browser, visit, served>>

Browsers == Minimal \cup Trial

Idle == [at |-> "idle"]
Quit(b) == [visit EXCEPT ![b] = Idle]
NoSession == [sender |-> NoTalk, on |-> FALSE, known |-> [k \in Talks |-> NoTalk]]

-----------------------------------------------------------------------------
(* Sessions. *)

(* randbelow(2^53): a sender nobody has. *)
Fresh == {s \in Senders : /\ \A b \in Browsers : browser[b].sender # s
                          /\ \A k \in Talks : talks[k] # NoTalk => talks[k].sender # s
                          /\ \A b \in Browsers : visit[b] # Idle => visit[b].sender # s}

(* /demo/session: the cookie of a trial session outlives the log-out. *)
EnterTrial(b) ==
    /\ b \in Trial /\ ~browser[b].on
    /\ \E s \in IF browser[b].sender # NoTalk THEN {browser[b].sender} ELSE Fresh :
          browser' = [browser EXCEPT ![b].on = TRUE, ![b].sender = s]
    /\ UNCHANGED <<talks, visit, served>>

(* /api/session: the code, or the trial session the browser has already. *)
EnterMinimal(b) ==
    /\ b \in Minimal /\ ~browser[b].on
    /\ \E s \in Fresh \cup {browser[d].sender : d \in {e \in Trial : browser[e].on}} :
          browser' = [browser EXCEPT ![b] = [NoSession EXCEPT !.on = TRUE, !.sender = s]]
    /\ UNCHANGED <<talks, visit, served>>

(* Log-out, expiry; a minimal session is gone with everything it knew. *)
Leave(b) ==
    /\ browser[b].on
    /\ browser' = [browser EXCEPT ![b] = IF b \in Trial THEN [@ EXCEPT !.on = FALSE] ELSE NoSession]
    /\ visit' = [visit EXCEPT ![b] = IF @ = Idle THEN @ ELSE [@ EXCEPT !.kept = FALSE]]
    /\ UNCHANGED <<talks, served>>

-----------------------------------------------------------------------------
(* PUT of a conversation. *)

Asking(b, k, mode, at) ==
    [at |-> at, op |-> "create", talk |-> k, sender |-> browser[b].sender,
     mode |-> mode, kept |-> TRUE, to |-> CHOOSE r \in Recipients : TRUE]

MayName(b, k, mode) ==
    LET known == browser[b].known
    IN IF known[k] # NoTalk THEN known[k].mode = mode
       ELSE Cardinality({j \in Talks : known[j] # NoTalk}) < MaxTalks

(* The id is remembered before Chat is asked, unverified. *)
NameMinimal(b, k, mode) ==
    /\ b \in Minimal /\ browser[b].on /\ visit[b] = Idle
    /\ MayName(b, k, mode)
    /\ browser' = [browser EXCEPT ![b].known[k] = IF @ # NoTalk THEN @ ELSE [mode |-> mode, verified |-> FALSE]]
    /\ visit' = [visit EXCEPT ![b] = Asking(b, k, mode, "chat")]
    /\ UNCHANGED <<talks, served>>

(* The trial page asks the store at once, the trial API looks first. *)
NameTrial(b, k, mode, to) ==
    /\ b \in Trial /\ browser[b].on /\ visit[b] = Idle
    /\ \E at \in {"chat", "look"} :
          visit' = [visit EXCEPT ![b] = [Asking(b, k, mode, at) EXCEPT !.to = to]]
    /\ UNCHANGED <<talks, browser, served>>

Look(b) ==
    /\ visit[b].at = "look"
    /\ LET row == talks[visit[b].talk]
       IN visit' = IF row = NoTalk \/ row.sender = visit[b].sender
                   THEN [visit EXCEPT ![b].at = "chat"] ELSE Quit(b)
    /\ UNCHANGED <<talks, browser, served>>

Wanted(b) == [sender |-> visit[b].sender, to |-> visit[b].to, mode |-> visit[b].mode]

(* Store.conversation: INSERT ... ON CONFLICT DO NOTHING, then compare. *)
Bound(b) == [talks EXCEPT ![visit[b].talk] = IF @ = NoTalk THEN Wanted(b) ELSE @]

Create(b) ==
    /\ visit[b].at = "chat" /\ visit[b].op = "create"
    /\ talks' = Bound(b)
    /\ LET mine == talks'[visit[b].talk] = Wanted(b)
       IN /\ visit' = [visit EXCEPT ![b].at = IF mine THEN "answered" ELSE "refused"]
          /\ served' = IF mine THEN served \cup {[sender |-> visit[b].sender, talk |-> visit[b].talk, mode |-> visit[b].mode]}
                       ELSE served
    /\ UNCHANGED browser

(* Mutant: any answer makes it its own. *)
VerifiedByAny(b) ==
    IF b \in Minimal /\ visit[b].op = "create" /\ visit[b].kept
    THEN [browser EXCEPT ![b].known[visit[b].talk].verified = TRUE]
    ELSE browser

(* 200 or 201 makes a minimal session's conversation its own. *)
Verified(b) ==
    IF b \in Minimal /\ visit[b].op = "create" /\ visit[b].kept /\ visit[b].at = "answered"
    THEN [browser EXCEPT ![b].known[visit[b].talk].verified = TRUE]
    ELSE browser

Answer(b) ==
    /\ visit[b].at \in {"answered", "refused"}
    /\ browser' = Verified(b)
    /\ visit' = Quit(b)
    /\ UNCHANGED <<talks, served>>

(* The request or its answer is lost. *)
Lose(b) ==
    /\ visit[b].at \in {"chat", "answered", "refused"}
    /\ visit' = Quit(b)
    /\ UNCHANGED <<talks, browser, served>>

-----------------------------------------------------------------------------
(* Everything else a page does with a conversation: read, ask, follow, *)
(* cancel. *)

Using(b, k, mode, at) == [Asking(b, k, mode, at) EXCEPT !.op = "use"]

UseMinimal(b, k) ==
    /\ b \in Minimal /\ browser[b].on /\ visit[b] = Idle
    /\ browser[b].known[k] # NoTalk /\ browser[b].known[k].verified
    /\ visit' = [visit EXCEPT ![b] = Using(b, k, browser[b].known[k].mode, "chat")]
    /\ UNCHANGED <<talks, browser, served>>

(* owned, then the binding: the page goes the way of the conversation, the *)
(* API has its own way for each. *)
Owned(b, k) == talks[k] # NoTalk /\ talks[k].sender = browser[b].sender

UseTrial(b, k, mode) ==
    /\ b \in Trial /\ browser[b].on /\ visit[b] = Idle
    /\ Owned(b, k)
    /\ visit' = [visit EXCEPT ![b] = Using(b, k, mode, "binding")]
    /\ UNCHANGED <<talks, browser, served>>

Binding(b) ==
    /\ visit[b].at = "binding"
    /\ \/ visit' = [visit EXCEPT ![b].at = "chat", ![b].mode = talks[visit[b].talk].mode]
       \/ visit' = IF talks[visit[b].talk].mode = visit[b].mode
                   THEN [visit EXCEPT ![b].at = "chat"] ELSE Quit(b)
    /\ UNCHANGED <<talks, browser, served>>

(* selected_runtime: a conversation is served on the path of its mode. *)
Serve(b) ==
    /\ visit[b].at = "chat" /\ visit[b].op = "use"
    /\ LET k == visit[b].talk
       IN IF talks[k] # NoTalk /\ talks[k].mode = visit[b].mode
          THEN /\ served' = served \cup {[sender |-> visit[b].sender, talk |-> k, mode |-> visit[b].mode]}
               /\ visit' = [visit EXCEPT ![b].at = "answered"]
          ELSE /\ visit' = [visit EXCEPT ![b].at = "refused"]
               /\ UNCHANGED served
    /\ UNCHANGED <<talks, browser>>

-----------------------------------------------------------------------------
TalkInit ==
    /\ talks = [k \in Talks |-> NoTalk]
    /\ browser = [b \in Browsers |-> NoSession]
    /\ visit = [b \in Browsers |-> Idle]
    /\ served = {}

TalkNext ==
    \E b \in Browsers :
        \/ EnterTrial(b) \/ EnterMinimal(b) \/ Leave(b)
        \/ Look(b) \/ Create(b) \/ Answer(b) \/ Lose(b) \/ Binding(b) \/ Serve(b)
        \/ \E k \in Talks :
              \/ UseMinimal(b, k)
              \/ \E mode \in Modes : \/ NameMinimal(b, k, mode) \/ UseTrial(b, k, mode)
                                     \/ \E to \in Recipients : NameTrial(b, k, mode, to)

TalkSpec == TalkInit /\ [][TalkNext]_talkVars

-----------------------------------------------------------------------------
TalkTypeOK ==
    /\ \A k \in Talks : talks[k] = NoTalk \/ talks[k] \in Rows
    /\ \A b \in Browsers : /\ browser[b].on => browser[b].sender \in Senders
                           /\ visit[b].at \in {"idle", "look", "chat", "binding", "answered", "refused"}
    /\ served \subseteq [sender : Senders, talk : Talks, mode : Modes]

(* Whatever ids pages name and whatever answers are lost: what Chat does *)
(* with a conversation it does for the sender it belongs to, in its mode, *)
(* and what a minimal session holds as verified is its own (main.py *)
(* selected_runtime, demo_api.py owned, minimal_chat/server.py owned). *)
OnlyItsSender ==
    /\ \A x \in served : talks[x.talk] # NoTalk /\ talks[x.talk].sender = x.sender /\ talks[x.talk].mode = x.mode
    /\ \A b \in Minimal, k \in Talks :
          browser[b].known[k] # NoTalk /\ browser[b].known[k].verified
             => /\ talks[k] # NoTalk
                /\ talks[k].sender = browser[b].sender /\ talks[k].mode = browser[b].known[k].mode
=============================================================================
