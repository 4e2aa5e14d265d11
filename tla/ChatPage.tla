------------------------------ MODULE ChatPage ------------------------------
(* The chat page in the browser (chat/app/static/chat.js): asking, opening *)
(* conversations, following a turn, stopping it, ending and renewing the *)
(* session, reloading.  Every answer of the server arrives in a callback *)
(* that first looks whether the page still is where it was when it asked; *)
(* requests fail before or after they took effect.  A question whose answer *)
(* is missing is remembered over a reload (sessionStorage) and sent again *)
(* under its own id. *)
EXTENDS Naturals, FiniteSets

CONSTANTS
  Questions,     \* questions, each with the turn id the page draws for it
  Threads,       \* conversations
  MaxVisits,     \* unlocks of the page that are explored
  Nobody         \* no question, no conversation

PageAssumption == MaxVisits \in Nat /\ Nobody \notin Questions \cup Threads

VARIABLES
  site,          \* the page's state
  errands,       \* its callbacks that are still to come
  chat,          \* what the server has: conversations, turns, requests under way
  askedIn,       \* the conversation a question was asked in
  declined       \* questions the page said were not accepted

pageVars == <<site, errands, chat, askedIn, declined>>

PageInit ==
  /\ site = [auth |-> FALSE, cid |-> Nobody, url |-> Nobody, busy |-> FALSE, recover |-> FALSE,
             pending |-> Nobody, active |-> Nobody, visits |-> 0]
  /\ errands = {}
  /\ chat = [known |-> {}, turn |-> [q \in Questions |-> "none"], late |-> {}]
  /\ askedIn = [q \in Questions |-> Nobody]
  /\ declined = {}

Errand(kind, q, k, chain) == [kind |-> kind, q |-> q, talk |-> k, chain |-> chain, fresh |-> TRUE]

PendingTalk(p) == IF p.pending = Nobody THEN Nobody ELSE askedIn[p.pending]

(* The page turned to something else: callbacks find another viewVersion and *)
(* do nothing, but for what was to follow the opening of a conversation. *)
Stale(es) == {[e EXCEPT !.fresh = FALSE] : e \in {x \in es : x.chain # "none"}}

Unfollowed(es) == {e \in es : e.kind # "stream"}

(* A question on its way when the page turned away may still arrive. *)
OnTheirWay(es) == {e.q : e \in {x \in es : x.kind = "put"}}

-----------------------------------------------------------------------------
(* What the callbacks do to the page. *)
Subscribed(p, q) == [p EXCEPT !.active = q, !.busy = TRUE, !.recover = FALSE]

ShowPending(p) == [p EXCEPT !.busy = TRUE, !.recover = TRUE]

Locked(p) == [p EXCEPT !.auth = FALSE, !.busy = FALSE, !.active = Nobody]

Finished(p) == [p EXCEPT !.active = Nobody]

Delivering(p) == [p EXCEPT !.busy = TRUE, !.recover = FALSE]

Lock(es) ==
  /\ site' = Locked(site)
  /\ errands' = Stale(es)
  /\ chat' = [chat EXCEPT !.late = @ \cup OnTheirWay(es)]

(* A turn that ended: the last words are still being shown. *)
FinishTurn(p, es, q, k) ==
  /\ site' = Finished(p)
  /\ errands' = Unfollowed(es) \cup {Errand("reveal", q, k, "none")}

Subscribe(p, es, q, k) ==
  /\ site' = Subscribed(p, q)
  /\ errands' = Unfollowed(es) \cup {Errand("stream", q, k, "none")}

(* A question may be delivered twice: the second time it may not be the one *)
(* that is pending any more. *)
Settled(p, q) == [p EXCEPT !.pending = IF @ = q THEN Nobody ELSE @]

Delivered(p, es, q, k) ==
  IF chat'.turn[q] = "processing"
  THEN Subscribe(Settled(p, q), es, q, k)
  ELSE FinishTurn(Settled(p, q), es, q, k)

-----------------------------------------------------------------------------
(* Asking. *)
AskQuestion(q) ==
  /\ site.auth /\ ~site.busy /\ site.pending = Nobody
  /\ askedIn[q] = Nobody
  /\ \E k \in Threads :
       /\ IF site.cid = Nobody
          THEN k \notin chat.known /\ \A r \in Questions : askedIn[r] # k
          ELSE k = site.cid
       /\ site' = [Delivering(site) EXCEPT !.cid = k, !.url = k, !.pending = q]
       /\ askedIn' = [askedIn EXCEPT ![q] = k]
       /\ errands' = errands \cup {Errand("snapshot", q, k, "none")}
  /\ UNCHANGED <<chat, declined>>

(* The question was refused (400, 404, 409, 413, 422, 429). *)
RefusedQuestion(e) ==
  /\ chat.turn[e.q] = "none"
  /\ errands' = errands \ {e}
  /\ IF site.cid # e.talk
     THEN UNCHANGED <<site, declined>>
     ELSE /\ site' = [Settled(site, e.q) EXCEPT !.busy = FALSE, !.recover = FALSE]
          /\ declined' = declined \cup {e.q}
  /\ UNCHANGED <<chat, askedIn>>

(* No answer, or 5xx: the page asks the user to look again. *)
Uncertain(e) ==
  /\ errands' = errands \ {e}
  /\ site' = IF site.cid # e.talk \/ PendingTalk(site) # site.cid THEN site ELSE ShowPending(site)

Snapshot(e) ==
  /\ e.kind = "snapshot"
  /\ \/ /\ chat' = [chat EXCEPT !.known = @ \cup {e.talk}]
        /\ IF site.cid # e.talk
           THEN errands' = errands \ {e} /\ UNCHANGED site
           ELSE IF chat.turn[e.q] # "none"
           THEN Delivered(site, errands \ {e}, e.q, e.talk)
           ELSE /\ errands' = (errands \ {e}) \cup {Errand("put", e.q, e.talk, "none")}
                /\ UNCHANGED site
     \/ /\ chat' \in {chat, [chat EXCEPT !.known = @ \cup {e.talk}]}
        /\ Uncertain(e)
  /\ UNCHANGED <<askedIn, declined>>

TakesTurn(q) ==
  \/ chat.turn[q] # "none"
  \/ \A r \in Questions : askedIn[r] = askedIn[q] => chat.turn[r] # "processing"

TurnTaken(q) ==
  [chat EXCEPT !.turn[q] = IF @ = "none" THEN "processing" ELSE @, !.late = @ \ {q}]

Put(e) ==
  /\ e.kind = "put"
  /\ \/ /\ TakesTurn(e.q)
        /\ chat' = TurnTaken(e.q)
        /\ IF site.cid # e.talk
           THEN errands' = errands \ {e} /\ UNCHANGED site
           ELSE Delivered(site, errands \ {e}, e.q, e.talk)
     \/ /\ chat' \in {chat, [chat EXCEPT !.late = @ \cup {e.q}]} \cup
                     (IF TakesTurn(e.q) THEN {TurnTaken(e.q)} ELSE {})
        /\ Uncertain(e)
  /\ UNCHANGED <<askedIn, declined>>

Decline(e) == e.kind \in {"snapshot", "put"} /\ RefusedQuestion(e)

LateQuestion(q) ==
  /\ q \in chat.late
  /\ chat' = IF TakesTurn(q) THEN TurnTaken(q) ELSE [chat EXCEPT !.late = @ \ {q}]
  /\ UNCHANGED <<site, errands, askedIn, declined>>

TurnEnds(q) ==
  /\ chat.turn[q] = "processing"
  /\ chat' = [chat EXCEPT !.turn[q] = "finished"]
  /\ UNCHANGED <<site, errands, askedIn, declined>>

-----------------------------------------------------------------------------
(* Following a turn, to its end or through four attempts; stopping it. *)
Follow(e) ==
  /\ e.kind = "stream"
  /\ \/ chat.turn[e.q] = "finished" /\ FinishTurn(site, errands \ {e}, e.q, e.talk)
     \/ errands' = errands \ {e} /\ site' = [site EXCEPT !.recover = TRUE]
  /\ UNCHANGED <<chat, askedIn, declined>>

Revealed(e) ==
  /\ e.kind = "reveal"
  /\ errands' = errands \ {e}
  /\ site' = [site EXCEPT !.busy = FALSE, !.recover = FALSE]
  /\ UNCHANGED <<chat, askedIn, declined>>

StopTurn ==
  /\ site.auth /\ site.busy /\ site.active # Nobody
  /\ \A e \in errands : e.kind # "stop"
  /\ errands' = errands \cup {Errand("stop", site.active, site.cid, "none")}
  /\ UNCHANGED <<site, chat, askedIn, declined>>

Stopped(e) ==
  /\ e.kind = "stop"
  /\ \/ /\ chat' = [chat EXCEPT !.turn[e.q] = "finished"]
        /\ IF site.cid # e.talk \/ site.active # e.q
           THEN errands' = errands \ {e} /\ UNCHANGED site
           ELSE FinishTurn(site, errands \ {e}, e.q, e.talk)
     \/ /\ chat' \in {chat, [chat EXCEPT !.turn[e.q] = "finished"]}
        /\ errands' = errands \ {e}
        /\ site' = [site EXCEPT !.recover = TRUE]
  /\ UNCHANGED <<askedIn, declined>>

-----------------------------------------------------------------------------
(* Opening a conversation.  The page turns to it at once; what was under way *)
(* for the former view is ignored. *)
Opening(p, k, chain) ==
  /\ site' = [p EXCEPT !.active = Nobody, !.busy = TRUE, !.recover = FALSE]
  /\ errands' = Stale(errands) \cup {Errand("open", Nobody, k, chain)}
  /\ chat' = [chat EXCEPT !.late = @ \cup OnTheirWay(errands)]

(* What follows the opening: the reconnect button delivers the question that *)
(* is pending, an unlocked page says that one is. *)
Deliver(p, es) ==
  IF p.auth /\ p.pending # Nobody
  THEN /\ site' = Delivering(p)
       /\ errands' = es \cup {Errand("snapshot", p.pending, PendingTalk(p), "none")}
  ELSE site' = p /\ errands' = es

Afterwards(p) == IF p.pending # Nobody /\ p.cid # PendingTalk(p) THEN ShowPending(p) ELSE p

Then(p, es, chain) ==
  CASE chain = "deliver" -> Deliver(p, es)
    [] chain = "pending" -> site' = Afterwards(p) /\ errands' = es
    [] chain = "none"    -> site' = p /\ errands' = es

FoundTalk(p, k) == IF PendingTalk(p) = k /\ chat.turn[p.pending] # "none"
               THEN [p EXCEPT !.cid = k, !.url = k, !.pending = Nobody]
               ELSE [p EXCEPT !.cid = k, !.url = k]

Running(k) == {q \in Questions : askedIn[q] = k /\ chat.turn[q] = "processing"}

Nowhere(p) == [p EXCEPT !.cid = Nobody, !.url = Nobody,
                        !.busy = p.pending # Nobody, !.recover = p.pending # Nobody]

Opened(e) ==
  /\ e.kind = "open" /\ e.fresh /\ e.talk \in chat.known
  /\ LET p == FoundTalk(site, e.talk)  es == errands \ {e} IN
       IF PendingTalk(p) = e.talk
       THEN Then(ShowPending(p), es, e.chain)
       ELSE IF Running(e.talk) # {}
       THEN \E q \in Running(e.talk) :
              Then(Subscribed(p, q), Unfollowed(es) \cup {Errand("stream", q, e.talk, "none")}, e.chain)
       ELSE Then([p EXCEPT !.busy = FALSE], es, e.chain)
  /\ UNCHANGED <<chat, askedIn, declined>>

(* 404 of a conversation whose first question is pending, 404 or 409 of *)
(* another, and every other failure. *)
NotOpened(e) ==
  /\ e.kind = "open" /\ e.fresh
  /\ \/ /\ e.talk \notin chat.known
        /\ IF PendingTalk(site) = e.talk
           THEN Then(ShowPending([site EXCEPT !.cid = e.talk, !.url = e.talk]), errands \ {e}, e.chain)
           ELSE Then(Nowhere(site), errands \ {e}, e.chain)
     \/ Then([site EXCEPT !.busy = site.pending # Nobody, !.recover = TRUE], errands \ {e}, e.chain)
  /\ UNCHANGED <<chat, askedIn, declined>>

OpenedTooLate(e) ==
  /\ e.kind = "open" /\ ~e.fresh
  /\ Then(site, errands \ {e}, e.chain)
  /\ UNCHANGED <<chat, askedIn, declined>>

OpenFromHistory(k) ==
  /\ site.auth /\ ~site.busy
  /\ k \in chat.known
  /\ Opening(site, k, "none")
  /\ UNCHANGED <<askedIn, declined>>

NewConversation ==
  /\ site.auth /\ ~site.busy /\ site.pending = Nobody
  /\ site' = [site EXCEPT !.cid = Nobody, !.url = Nobody, !.active = Nobody, !.recover = FALSE]
  /\ errands' = Stale(errands)
  /\ UNCHANGED <<chat, askedIn, declined>>

Reconnect ==
  /\ site.auth /\ site.recover
  /\ IF site.pending # Nobody
     THEN IF site.cid # PendingTalk(site)
          THEN Opening(site, PendingTalk(site), "deliver")
          ELSE Deliver(site, errands) /\ UNCHANGED chat
     ELSE IF site.active # Nobody
     THEN Subscribe(site, errands, site.active, site.cid) /\ UNCHANGED chat
     ELSE site.cid # Nobody /\ Opening(site, site.cid, "none")
  /\ UNCHANGED <<askedIn, declined>>

-----------------------------------------------------------------------------
(* The session ends with an answer 401 or by the user; the access code opens *)
(* the page again, where the address says; a reload forgets the rest. *)
EndVisit ==
  /\ site.auth
  /\ Lock(errands)
  /\ UNCHANGED <<askedIn, declined>>

Unlock ==
  /\ ~site.auth
  /\ site.visits < MaxVisits
  /\ LET p == [site EXCEPT !.auth = TRUE, !.busy = FALSE, !.visits = @ + 1] IN
       IF p.url # Nobody
       THEN Opening(p, p.url, "pending")
       ELSE /\ site' = Afterwards([p EXCEPT !.cid = Nobody])
            /\ UNCHANGED <<errands, chat>>
  /\ UNCHANGED <<askedIn, declined>>

Reload ==
  /\ site.visits < MaxVisits
  /\ site' = [site EXCEPT !.auth = FALSE, !.cid = Nobody, !.busy = FALSE, !.recover = FALSE,
                          !.active = Nobody]
  /\ errands' = {}
  /\ chat' = [chat EXCEPT !.late = @ \cup OnTheirWay(errands)]
  /\ UNCHANGED <<askedIn, declined>>

PageNext ==
  \/ \E q \in Questions : AskQuestion(q) \/ LateQuestion(q) \/ TurnEnds(q)
  \/ \E e \in errands :
       \/ Snapshot(e) \/ Put(e) \/ Decline(e) \/ Follow(e) \/ Revealed(e) \/ Stopped(e)
       \/ Opened(e) \/ NotOpened(e) \/ OpenedTooLate(e)
  \/ StopTurn \/ NewConversation \/ Reconnect \/ EndVisit \/ Unlock \/ Reload
  \/ \E k \in Threads : OpenFromHistory(k)

PageSpec == PageInit /\ [][PageNext]_pageVars

-----------------------------------------------------------------------------
PageTypeOK ==
  /\ site \in [auth : BOOLEAN, cid : Threads \cup {Nobody}, url : Threads \cup {Nobody},
               busy : BOOLEAN, recover : BOOLEAN, pending : Questions \cup {Nobody},
               active : Questions \cup {Nobody}, visits : 0..MaxVisits]
  /\ \A e \in errands : e.kind \in {"snapshot", "put", "stream", "reveal", "stop", "open"}
  /\ chat.known \subseteq Threads /\ chat.late \subseteq Questions
  /\ chat.turn \in [Questions -> {"none", "processing", "finished"}]
  /\ askedIn \in [Questions -> Threads \cup {Nobody}]

(* A question that left the composer is never lost from sight: it is still *)
(* remembered as pending, or the user was told that it was not accepted, or *)
(* the server has its turn. *)
QuestionsAreKept ==
  \A q \in Questions :
    askedIn[q] # Nobody => site.pending = q \/ q \in declined \/ chat.turn[q] # "none"

(* With no callback to come the page is not busy, or shows the button that *)
(* goes on; a question pending in a conversation that is not open is another *)
(* matter, and so is a page that is free but for its pending question (see *)
(* the README). *)
PageGoesOn ==
  (site.auth /\ errands = {} /\ (site.pending # Nobody => PendingTalk(site) = site.cid)) =>
    site.recover \/ ~site.busy

PageKeepsItsWord == QuestionsAreKept /\ PageGoesOn
=============================================================================
