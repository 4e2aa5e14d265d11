----------------------------- MODULE OneCatalog -----------------------------
(***************************************************************************)
(* What Search promises about the catalog, without servers, sessions or    *)
(* jobs: there is one active generation, it only moves forward, a product  *)
(* that left the complete exports is hidden from then on, and a call is    *)
(* answered from a generation that was active during the call, without the *)
(* products that were hidden when it began.                                *)
(***************************************************************************)
EXTENDS Naturals

CONSTANTS
  Generations, \* numbers: a generation is built from the export of its time
  Items,       \* the products of each generation
  Calls,       \* calls of clients
  None         \* no generation is active yet

VARIABLES
  active,      \* the active generation, or None
  newest,      \* the newest complete export confirmed
  gone,        \* products hidden for good
  call         \* of each call: what it may still be answered from

absVars == <<active, newest, gone, call>>

(* A call that may be answered from gens without hidden, and one that is *)
(* over, with its answer or none. *)
Open(gens, hidden) == [open |-> TRUE, gens |-> gens, hidden |-> hidden, answer |-> None]
Over(answer) == [open |-> FALSE, gens |-> {}, hidden |-> {}, answer |-> answer]

Init ==
  /\ active \in {0, None} /\ newest = 0 /\ gone = {}
  /\ call = [c \in Calls |-> Over(None)]

(* A complete export hides what the one before still had. *)
Confirm(e) ==
  /\ e > newest
  /\ newest' = e
  /\ gone' = gone \cup (Items[newest] \ Items[e])
  /\ UNCHANGED <<active, call>>

Publish(g) ==
  /\ g <= newest /\ (active # None => g > active)
  /\ active' = g
  /\ call' = [c \in Calls |->
                IF call[c].open THEN Open(call[c].gens \cup {g}, call[c].hidden) ELSE call[c]]
  /\ UNCHANGED <<newest, gone>>

Begin(c) ==
  /\ ~call[c].open
  /\ call' = [call EXCEPT ![c] = Open({active} \ {None}, gone)]
  /\ UNCHANGED <<active, newest, gone>>

Answer(c) ==
  /\ call[c].open
  /\ \E g \in call[c].gens, h \in SUBSET gone :
       /\ call[c].hidden \subseteq h
       /\ call' = [call EXCEPT ![c] = Over(Items[g] \ h)]
  /\ UNCHANGED <<active, newest, gone>>

(* A refusal; a server that dies refuses all of its calls at once. *)
Refuse(C) ==
  /\ \A c \in C : call[c].open
  /\ call' = [c \in Calls |-> IF c \in C THEN Over(None) ELSE call[c]]
  /\ UNCHANGED <<active, newest, gone>>

Next ==
  \/ \E g \in Generations : Confirm(g) \/ Publish(g)
  \/ \E c \in Calls : Begin(c) \/ Answer(c)
  \/ \E C \in SUBSET Calls : Refuse(C)

Spec == Init /\ [][Next]_absVars

=============================================================================
