--------------------------- MODULE ConsoleLogin ---------------------------
(***************************************************************************)
(* The operator's login to the Console (console/admin_auth.py): the        *)
(* throttle, the one password check at a time, and the sessions in a file  *)
(* that outlives the process.                                              *)
(*                                                                         *)
(* A login is one HTTP request; its client may go away while the worker    *)
(* thread still hashes, the credential may be rotated meanwhile, and the   *)
(* answer that carries the cookie may be lost.  A token is the login that  *)
(* made it.                                                                *)
(*                                                                         *)
(* The handlers run on the event loop of the process, and one that reads   *)
(* the credential and goes on to its transaction lets no other step in;    *)
(* the operator, who is another process, may still rotate in between.      *)
(***************************************************************************)
EXTENDS Integers, FiniteSets

CONSTANTS
    Logins,       \* the login requests
    Peers,     \* each is a peer of its own
    MaxClock, Window,           \* the clock; 300 s
    PerPeer, AllPeers,          \* 8 and 32 attempts in a window
    TTL, MaxSessions,           \* 30 days; 32
    MaxCredential,              \* credentials are numbered; 0: none is configured
    Nobody

ConsoleLoginAssumption ==
    /\ {MaxClock, Window, PerPeer, AllPeers, TTL, MaxSessions, MaxCredential} \subseteq Nat \ {0}
    /\ Nobody \notin Peers \cup Logins

VARIABLES
    clock,
    credential,  \* in the hash file
    attempts,    \* deque of [at, peer]; in memory
    slot,        \* hash_slots is free
    threads,     \* the logins whose worker thread runs scrypt
    login,       \* the requests
    sessions,    \* the table: [token, credential, expires]
    cookie,      \* of each browser
    outrun       \* history: the logins a rotation came before the second look of

loginVars == <<clock, credential, attempts, slot, threads, login, sessions, cookie, outrun>>

NewLogin == [stage |-> "new", peer |-> Nobody, at |-> 0, credential |-> 0, right |-> FALSE,
             old |-> Nobody]

Stage(r, s) == login[r].stage = s
At(r, s) == [login EXCEPT ![r].stage = s]

(* No login is between its second look at the credential and its answer. *)
LoopIsFree == \A r \in Logins : ~Stage(r, "confirmed")

-----------------------------------------------------------------------------
(* throttle, then the credential and the body. *)

Recent(now) == {a \in attempts : a.at > now - Window}

Admits(b) ==
    /\ Cardinality(Recent(clock)) < AllPeers
    /\ Cardinality({a \in Recent(clock) : a.peer = b}) < PerPeer

(* A wrong password and a password of another credential are alike. *)
Arrive(r, b, right) ==
    /\ Stage(r, "new") /\ LoopIsFree
    /\ credential # 0
    /\ Admits(b)
    /\ attempts' = Recent(clock) \cup {[at |-> clock, peer |-> b, of |-> r]}
    /\ login' = [login EXCEPT ![r] = [stage |-> "waiting", peer |-> b, at |-> clock,
                                      credential |-> credential, right |-> right,
                                      old |-> cookie[b]]]
    /\ UNCHANGED <<clock, credential, slot, threads, sessions, cookie, outrun>>

-----------------------------------------------------------------------------
(* check_password: the slot is held until the thread ends. *)

Hash(r) ==
    /\ Stage(r, "waiting") /\ slot /\ LoopIsFree
    /\ slot' = FALSE
    /\ threads' = threads \cup {r}
    /\ login' = At(r, "hashing")
    /\ UNCHANGED <<clock, credential, attempts, sessions, cookie, outrun>>

(* The client goes away: waiting for the slot is cancelled, the thread not. *)
Disconnect(r) ==
    /\ Stage(r, "waiting") \/ Stage(r, "hashing")
    /\ LoopIsFree
    /\ login' = At(r, "done")
    /\ UNCHANGED <<clock, credential, attempts, slot, threads, sessions, cookie, outrun>>

ThreadEnds(r) ==
    /\ r \in threads /\ LoopIsFree
    /\ threads' = threads \ {r}
    /\ slot' = TRUE
    /\ login' = IF Stage(r, "hashing") THEN At(r, "checked") ELSE login
    /\ UNCHANGED <<clock, credential, attempts, sessions, cookie, outrun>>

-----------------------------------------------------------------------------
(* The rest of login: the credential is read again, then one transaction *)
(* of the session file. *)

(* Mutant: the credential is not read again after the check. *)
PassesLate(r) == login[r].right

Passes(r) == login[r].right /\ login[r].credential = credential

Reread(r) ==
    /\ Stage(r, "checked") /\ LoopIsFree
    /\ login' = At(r, IF Passes(r) THEN "confirmed" ELSE "done")
    /\ UNCHANGED <<clock, credential, attempts, slot, threads, sessions, cookie, outrun>>

(* DELETE: expired, of another credential, or of the cookie the request *)
(* brought. *)
Live(c) == {s \in sessions : s.expires > clock /\ s.credential = c}

OtherSessions(r) == {s \in Live(login[r].credential) : s.token # login[r].old}

Succeed(r, received) ==
    /\ Stage(r, "confirmed")
    /\ Cardinality(OtherSessions(r)) < MaxSessions
    /\ sessions' = OtherSessions(r) \cup {[token |-> r, credential |-> login[r].credential,
                                  expires |-> clock + TTL]}
    /\ cookie' = IF received THEN [cookie EXCEPT ![login[r].peer] = r] ELSE cookie
    /\ login' = At(r, "done")
    /\ UNCHANGED <<clock, credential, attempts, slot, threads, outrun>>

(* SESSION_LIMIT_REACHED rolls the deletions back. *)
RefuseLogin(r) ==
    /\ Stage(r, "confirmed")
    /\ Cardinality(OtherSessions(r)) >= MaxSessions
    /\ login' = At(r, "done")
    /\ UNCHANGED <<clock, credential, attempts, slot, threads, sessions, cookie, outrun>>

-----------------------------------------------------------------------------
(* session: every other request; logout.  A rotation between their read of *)
(* the credential and their transaction is as good as one after it: the *)
(* transaction does not read the file, nor the operator the sessions. *)

Access(b) ==
    /\ credential # 0 /\ cookie[b] # Nobody /\ LoopIsFree
    /\ sessions' = Live(credential)
    /\ UNCHANGED <<clock, credential, attempts, slot, threads, login, cookie, outrun>>

Logout(b) ==
    /\ credential # 0 /\ LoopIsFree
    /\ \E s \in Live(credential) : s.token = cookie[b]
    /\ sessions' = {s \in Live(credential) : s.token # cookie[b]}
    /\ cookie' = [cookie EXCEPT ![b] = Nobody]
    /\ UNCHANGED <<clock, credential, attempts, slot, threads, login, outrun>>

-----------------------------------------------------------------------------
(* The operator rotates the credential, time passes, the process restarts. *)

Rotate(c) ==
    /\ c > credential
    /\ credential' = c
    /\ outrun' = outrun \cup {r \in Logins : login[r].stage \in {"waiting", "hashing", "checked"}}
    /\ UNCHANGED <<clock, attempts, slot, threads, login, sessions, cookie>>

(* A login reads the clock once, after its second look: time that passes *)
(* in there is as good as time before the look or after the transaction. *)
Tick ==
    /\ clock < MaxClock /\ LoopIsFree
    /\ clock' = clock + 1
    /\ UNCHANGED <<credential, attempts, slot, threads, login, sessions, cookie, outrun>>

Restart ==
    /\ attempts' = {} /\ slot' = TRUE /\ threads' = {}
    /\ login' = [r \in Logins |-> IF Stage(r, "new") THEN login[r] ELSE [NewLogin EXCEPT !.stage = "done"]]
    /\ UNCHANGED <<clock, credential, sessions, cookie, outrun>>

LoginInit ==
    /\ clock = 0 /\ credential \in 0..1
    /\ attempts = {} /\ slot = TRUE /\ threads = {}
    /\ login = [r \in Logins |-> NewLogin]
    /\ sessions = {}
    /\ cookie = [b \in Peers |-> Nobody]
    /\ outrun = {}

LoginNext ==
    \/ \E r \in Logins :
        \/ \E b \in Peers, right \in BOOLEAN : Arrive(r, b, right)
        \/ Hash(r) \/ Disconnect(r) \/ ThreadEnds(r) \/ Reread(r)
        \/ \E received \in BOOLEAN : Succeed(r, received)
        \/ RefuseLogin(r)
    \/ \E b \in Peers : Access(b) \/ Logout(b)
    \/ \E c \in 1..MaxCredential : Rotate(c)
    \/ Tick
    \/ Restart

LoginSpec == LoginInit /\ [][LoginNext]_loginVars

-----------------------------------------------------------------------------
Stages == {"new", "waiting", "hashing", "checked", "confirmed", "done"}

(* The requests and the table are what the code keeps, and the table never *)
(* holds more sessions than it may (login). *)
LoginTypeOK ==
    /\ clock \in 0..MaxClock /\ credential \in 0..MaxCredential
    /\ slot \in BOOLEAN /\ threads \subseteq Logins
    /\ \A r \in Logins : login[r].stage \in Stages /\ login[r].peer \in Peers \cup {Nobody}
    /\ \A b \in Peers : cookie[b] \in Logins \cup {Nobody}
    /\ outrun \subseteq Logins
    /\ Cardinality(sessions) <= MaxSessions

(* One password is hashed at a time, whatever clients go away, and a slot *)
(* that is taken has a thread that will free it (check_password). *)
OneHashAtATime == Cardinality(threads) = IF slot THEN 0 ELSE 1

(* In no window of time do more logins get past the throttle than it *)
(* allows, since the process started (throttle). *)
AttemptsAreBounded ==
    \A r \in Logins :
        LET within == {s \in Logins : /\ login[s].peer # Nobody
                                      /\ login[s].at \in (login[r].at - Window + 1)..login[r].at}
        IN  /\ Cardinality(within) <= AllPeers
            /\ Cardinality({s \in within : login[s].peer = login[r].peer}) <= PerPeer

(* A login makes no session if the credential its password was checked *)
(* against was rotated before it looked again ("rotation/removal wins over *)
(* an old login", login), whoever else is let in meanwhile and whatever *)
(* was restarted.  A rotation between that look and the commit leaves a *)
(* row of the old credential, which the next request deletes (session). *)
RotationWins == \A s \in sessions : s.token \notin outrun
=============================================================================
