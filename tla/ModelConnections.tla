-------------------------- MODULE ModelConnections --------------------------
(* The model endpoint Chat answers with, held in the memory of its process *)
(* (chat/app/llm_connection.py), the administrators' pages that change it *)
(* (chat/app/static/admin.js through chat/app/admin.py), and the turns that *)
(* are admitted with it (chat/app/runtime.py).  A change names the revision *)
(* its page read; a turn takes configuration, key and revision together and *)
(* writes the revision into its receipt.  Requests are lost before or after *)
(* they were handled, sessions end, the role's key comes and goes, and the *)
(* process restarts with an empty memory and a revision drawn at random. *)
EXTENDS Naturals, FiniteSets

CONSTANTS
  Editors,       \* the administrators' pages
  Endpoints,     \* configurations of an OpenAI-compatible endpoint
  Keys,          \* keys typed into a page
  Talks,         \* turns that are admitted, each once
  MaxChanges,    \* changes of one process that are explored
  MaxRestarts,   \* restarts that are explored
  NoSetup        \* no configuration: the OpenRouter default

HubAssumption == MaxChanges \in Nat /\ MaxRestarts \in Nat

VARIABLES
  hub,           \* Connections of the process, and whether OpenRouter's key can be read
  editor,        \* what each page shows and waits for
  requests,      \* requests between a page and the process
  talk           \* the connection a turn was admitted with

hubVars == <<hub, editor, requests, talk>>

Setups == Endpoints \cup {NoSetup}

(* A start draws 48 bits: two processes never draw near each other. *)
FirstRevision(start) == start * (MaxChanges + 1)

Fresh(start, ready) ==
  [start |-> start, revision |-> FirstRevision(start), active |-> NoSetup, key |-> NoSetup,
   ready |-> ready]

Read(h) == [revision |-> h.revision, config |-> h.active]

Unread == [shown |-> NoSetup, uncertain |-> FALSE]

HubInit ==
  /\ hub = Fresh(0, TRUE)
  /\ editor = [e \in Editors |-> Unread]
  /\ requests = {}
  /\ talk = [t \in Talks |-> NoSetup]

(* A page waits for the last request it made: of the others it no longer *)
(* hears the answer (connectionVersion). *)
Busy(e) == \E r \in requests : r.page = e /\ r.heard

Unheard(e) ==
  {IF r.page = e THEN [r EXCEPT !.heard = FALSE] ELSE r :
     r \in {x \in requests : x.page = e => x.answer = "none"}}

Shown(e) == IF editor[e].shown = NoSetup THEN NoSetup ELSE editor[e].shown.config

NewRequest(e, kind, config, key, revision) ==
  [page |-> e, kind |-> kind, config |-> config, key |-> key, revision |-> revision,
   saw |-> Shown(e), heard |-> TRUE, answer |-> "none", data |-> NoSetup]

PutRequest(r) == requests' = Unheard(r.page) \cup {r}

LoadConnection(e) ==
  /\ ~Busy(e)
  /\ PutRequest(NewRequest(e, "read", NoSetup, NoSetup, 0))
  /\ UNCHANGED <<hub, editor, talk>>

MayAct(e) == ~Busy(e) /\ ~editor[e].uncertain /\ editor[e].shown # NoSetup

Apply(e, config, key) ==
  /\ MayAct(e)
  /\ PutRequest(NewRequest(e, "activate", config, key, editor[e].shown.revision))
  /\ UNCHANGED <<hub, editor, talk>>

SwitchOff(e) ==
  /\ MayAct(e)
  /\ PutRequest(NewRequest(e, "disable", NoSetup, NoSetup, editor[e].shown.revision))
  /\ UNCHANGED <<hub, editor, talk>>

(* The administrator's session ended: the page forgets what it showed and *)
(* what it waits for. *)
ResetSession(e) ==
  /\ editor' = [editor EXCEPT ![e] = Unread]
  /\ requests' = Unheard(e)
  /\ UNCHANGED <<hub, talk>>

-----------------------------------------------------------------------------
(* The process.  Each handler holds the lock and awaits nothing under it; an *)
(* answer nobody waits for is gone. *)
GiveAnswer(r, answer, data) ==
  requests' = (requests \ {r}) \cup
    (IF r.heard THEN {[r EXCEPT !.answer = answer, !.data = data]} ELSE {})

SameRevision(r) == r.revision = hub.revision

Unfit(r) ==
  \/ ~SameRevision(r)
  \/ r.kind = "activate" /\ ~hub.ready

Changed(r) == [hub EXCEPT !.active = r.config, !.key = r.key, !.revision = @ + 1]

ServeRead(r) ==
  /\ r.kind = "read"
  /\ GiveAnswer(r, "ok", Read(hub))
  /\ UNCHANGED <<hub, editor, talk>>

Refuse(r) ==
  /\ r.kind # "read"
  /\ Unfit(r)
  /\ GiveAnswer(r, IF SameRevision(r) THEN "failed" ELSE "refused", NoSetup)
  /\ UNCHANGED <<hub, editor, talk>>

ServeSame(r) ==
  /\ r.kind = "activate"
  /\ ~Unfit(r)
  /\ <<hub.active, hub.key>> = <<r.config, r.key>>
  /\ GiveAnswer(r, "ok", Read(hub))
  /\ UNCHANGED <<hub, editor, talk>>

ServeChange(r) ==
  /\ r.kind # "read"
  /\ ~Unfit(r)
  /\ r.kind = "activate" => <<hub.active, hub.key>> # <<r.config, r.key>>
  /\ hub.revision < FirstRevision(hub.start) + MaxChanges
  /\ hub' = Changed(r)
  /\ GiveAnswer(r, "ok", Read(hub'))
  /\ UNCHANGED <<editor, talk>>

RestartHub ==
  /\ hub.start < MaxRestarts
  /\ hub' = Fresh(hub.start + 1, hub.ready)
  /\ UNCHANGED <<editor, requests, talk>>

KeyFile ==
  /\ hub' = [hub EXCEPT !.ready = ~@]
  /\ UNCHANGED <<editor, requests, talk>>

-----------------------------------------------------------------------------
(* The answer reaches the page. *)
Receive(r) ==
  /\ r.answer # "none"
  /\ requests' = requests \ {r}
  /\ editor' =
       IF r.answer = "ok" THEN [editor EXCEPT ![r.page] = [shown |-> r.data, uncertain |-> FALSE]]
       ELSE [editor EXCEPT ![r.page].uncertain = @ \/ r.answer = "failed"]
  /\ UNCHANGED <<hub, talk>>

(* The page learns of a broken connection; the request may still arrive, an *)
(* answer is gone. *)
BreakRequest(r) ==
  /\ r.heard
  /\ \/ requests' = requests \ {r}
     \/ r.answer = "none" /\ requests' = (requests \ {r}) \cup {[r EXCEPT !.heard = FALSE]}
  /\ editor' = [editor EXCEPT ![r.page].uncertain = @ \/ r.kind # "read"]
  /\ UNCHANGED <<hub, talk>>

-----------------------------------------------------------------------------
(* A turn is admitted: everything is captured before the first await. *)
Admit(t) ==
  /\ talk[t] = NoSetup
  /\ hub.active = NoSetup => hub.ready
  /\ talk' = [talk EXCEPT ![t] = [config |-> hub.active, key |-> hub.key, revision |-> hub.revision]]
  /\ UNCHANGED <<hub, editor, requests>>

HubNext ==
  \/ \E e \in Editors :
       \/ LoadConnection(e)
       \/ \E c \in Endpoints, k \in Keys : Apply(e, c, k)
       \/ SwitchOff(e)
       \/ ResetSession(e)
  \/ \E r \in requests :
       \/ r.answer = "none" /\ (ServeRead(r) \/ Refuse(r) \/ ServeSame(r) \/ ServeChange(r))
       \/ Receive(r)
       \/ BreakRequest(r)
  \/ RestartHub
  \/ KeyFile
  \/ \E t \in Talks : Admit(t)

HubSpec == HubInit /\ [][HubNext]_hubVars

-----------------------------------------------------------------------------
Revisions == 0..FirstRevision(MaxRestarts + 1)

Views == {NoSetup} \cup [revision : Revisions, config : Setups]

HubTypeOK ==
  /\ hub \in [start : 0..MaxRestarts, revision : Revisions, active : Setups,
              key : Keys \cup {NoSetup}, ready : BOOLEAN]
  /\ editor \in [Editors -> [shown : Views, uncertain : BOOLEAN]]
  /\ \A r \in requests : r.page \in Editors /\ r.data \in Views
  /\ \A e \in Editors : Cardinality({r \in requests : r.page = e /\ r.heard}) =< 1

(* The revision in a turn's receipt names the connection the turn talks *)
(* through: as long as the process says that revision, it has the turn's *)
(* configuration and key, also when it was restarted since. *)
RevisionNamesOne ==
  \A t \in Talks :
    (talk[t] # NoSetup /\ talk[t].revision = hub.revision) =>
      <<talk[t].config, talk[t].key>> = <<hub.active, hub.key>>

(* The connection only changes at the word of an administrator whose page *)
(* showed the connection that is replaced: not by a request that arrives *)
(* after somebody else's change, nor after a restart. *)
ReplacesTheShown ==
  hub'.start = hub.start /\ hub'.revision # hub.revision =>
    \E r \in requests \ requests' : r.kind # "read" /\ r.saw = hub.active

ConnectionsAreAsShown == []RevisionNamesOne /\ [][ReplacesTheShown]_hubVars
=============================================================================
