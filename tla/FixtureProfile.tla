--------------------------- MODULE FixtureProfile ---------------------------
(***************************************************************************)
(* A profile request of the console (console/server.py, accept_profile)    *)
(* and the stand-in for the Backend that serves its one synthetic          *)
(* recipient (integration/live_backend.py).  The console binds the input   *)
(* at the fixture, then posts it to the Profiler; the Profiler calls the   *)
(* fixture back with its recommendations, late, repeatedly and in any      *)
(* order; Chat reads the recipient's context from the fixture.  Requests   *)
(* without an answer may arrive later or never; the console may restart.   *)
(***************************************************************************)
EXTENDS Naturals

CONSTANTS
    SourceVersions, \* the versions of the recipient's data
    Inputs,         \* the bodies a page may submit
    Legacy,         \* the input of a callback that an older release took
    NoInput         \* a model value

FixtureAssumption ==
    /\ SourceVersions \subseteq Nat
    /\ NoInput \notin Inputs \cup {Legacy}

VARIABLES
    inputs,     \* profile_inputs of the console: version -> accepted input
    submit,     \* the request that holds profile_lock
    committed,  \* the fixture's sourceVersion and preferences, its callback
    bindings,   \* the fixture's profileInputs
    posted,     \* what the Profiler may have accepted: it may call back
    delayed     \* requests without an answer

fixtureVars == <<inputs, submit, committed, bindings, posted, delayed>>

MaybeInput == Inputs \cup {Legacy, NoInput}
Submission == [version : SourceVersions, input : Inputs]
NoSubmit == [at |-> "idle"]

(* preferences is the input whose preferences are in place, callback the *)
(* one the recommended products were found for. *)
FixtureInit ==
    /\ inputs = [v \in SourceVersions |-> NoInput]
    /\ submit = NoSubmit
    /\ \E v \in SourceVersions, done \in BOOLEAN :
          /\ committed = [version |-> v, preferences |-> Legacy,
                          callback |-> IF done THEN Legacy ELSE NoInput]
          /\ posted = IF done THEN {[version |-> v, input |-> Legacy]} ELSE {}
    /\ bindings = [v \in SourceVersions |-> NoInput]
    /\ delayed = {}

-----------------------------------------------------------------------------
(* The fixture *)

(* Mutant: a version may be bound again. *)
MayBindAgain(v, i) ==
    /\ v >= committed.version
    /\ bindings[v] = NoInput => v # committed.version \/ committed.callback = NoInput

(* bind_profile_input: never for an older version, never another input for *)
(* the same version, never for a version completed before bindings were. *)
MayBind(v, i) ==
    /\ v >= committed.version
    /\ bindings[v] \in {NoInput, i}
    /\ bindings[v] = NoInput => v # committed.version \/ committed.callback = NoInput

BindAt(v, i) == bindings' = [bindings EXCEPT ![v] = i]

MayCommit(v) ==
    /\ v >= committed.version
    /\ v # committed.version => bindings[v] # NoInput

(* callback: the preferences of the binding and the products of the *)
(* callback become the recipient's context in one write. *)
Commit(v, i) ==
    committed' = [version |-> v, callback |-> i,
                  preferences |-> IF bindings[v] # NoInput THEN bindings[v]
                                  ELSE committed.preferences]

Callback ==
    \E run \in posted :
        /\ MayCommit(run.version)
        /\ Commit(run.version, run.input)
        /\ UNCHANGED <<inputs, submit, bindings, posted, delayed>>

-----------------------------------------------------------------------------
(* The console *)

(* accept_profile: an input this process had accepted for the version is *)
(* the only one it takes again. *)
SubmitProfile(v, i) ==
    /\ submit = NoSubmit
    /\ inputs[v] \in {NoInput, i}
    /\ submit' = [at |-> "bind", version |-> v, input |-> i]
    /\ UNCHANGED <<inputs, committed, bindings, posted, delayed>>

Target == [version |-> submit.version, input |-> submit.input]

EndSubmit == submit' = NoSubmit

(* The request ends; what it was waiting for may still arrive. *)
Unanswered(to) ==
    /\ EndSubmit
    /\ delayed' \in {delayed, delayed \cup {[to |-> to, what |-> Target]}}
    /\ UNCHANGED <<inputs, committed, bindings, posted>>

(* check_profile_ready, then the binding: anything but a confirmed binding *)
(* ends the request before the Profiler is asked. *)
Bound ==
    /\ submit.at = "bind"
    /\ MayBind(submit.version, submit.input)
    /\ BindAt(submit.version, submit.input)
    /\ submit' = [submit EXCEPT !.at = "post"]
    /\ UNCHANGED <<inputs, committed, posted, delayed>>

NotBound == submit.at = "bind" /\ Unanswered("fixture")

(* 202: the console remembers the input of this version. *)
Accepted ==
    /\ submit.at = "post"
    /\ posted' = posted \cup {Target}
    /\ inputs' = [inputs EXCEPT ![submit.version] = submit.input]
    /\ EndSubmit
    /\ UNCHANGED <<committed, bindings, delayed>>

NotAccepted == submit.at = "post" /\ Unanswered("profiler")

Restart ==
    /\ inputs' = [v \in SourceVersions |-> NoInput]
    /\ EndSubmit
    /\ UNCHANGED <<committed, bindings, posted, delayed>>

Arrives ==
    \E letter \in delayed :
        /\ delayed' = delayed \ {letter}
        /\ UNCHANGED <<inputs, submit, committed>>
        /\ \/ /\ letter.to = "profiler"
              /\ posted' = posted \cup {letter.what}
              /\ UNCHANGED bindings
           \/ /\ letter.to = "fixture"
              /\ IF MayBind(letter.what.version, letter.what.input)
                   THEN BindAt(letter.what.version, letter.what.input)
                   ELSE UNCHANGED bindings
              /\ UNCHANGED posted

FixtureNext ==
    \/ Callback
    \/ \E v \in SourceVersions, i \in Inputs : SubmitProfile(v, i)
    \/ Bound \/ NotBound \/ Accepted \/ NotAccepted
    \/ Restart \/ Arrives

FixtureSpec == FixtureInit /\ [][FixtureNext]_fixtureVars

-----------------------------------------------------------------------------
FixtureTypeOK ==
    /\ inputs \in [SourceVersions -> Inputs \cup {NoInput}]
    /\ submit \in {NoSubmit} \cup
         [at : {"bind", "post"}, version : SourceVersions, input : Inputs]
    /\ committed \in [version : SourceVersions, preferences : MaybeInput, callback : MaybeInput]
    /\ bindings \in [SourceVersions -> Inputs \cup {NoInput}]
    /\ posted \subseteq [version : SourceVersions, input : Inputs \cup {Legacy}]
    /\ delayed \subseteq [to : {"fixture", "profiler"}, what : Submission]

(* The context Chat is given is made of one input: the products were found *)
(* for the same body the preferences come from, whatever was lost, posted *)
(* again or called back late (bind_profile_input before the Profiler is *)
(* asked; callback; context). *)
OneInputContext ==
    committed.callback # NoInput => committed.callback = committed.preferences

(* A late or repeated callback never takes the recipient back to an *)
(* earlier version of the data. *)
GoesForward == committed'.version >= committed.version
ContextForward == [][GoesForward]_fixtureVars
=============================================================================
