---------------------------- MODULE QARecords ----------------------------
(***************************************************************************)
(* The searches the Console's search page records and the verdicts people  *)
(* give on them (product-search/app.py: record, feedback).  Recording one  *)
(* prunes the old ones that have no verdict, and a verdict goes with its   *)
(* search (ON DELETE CASCADE).                                             *)
(*                                                                         *)
(* Shared: the tables are in the shared PostgreSQL, where a DELETE waits   *)
(* for a verdict that is being inserted but does not look at it again;     *)
(* else in SQLite, where one writes at a time.                             *)
(***************************************************************************)
EXTENDS Integers, FiniteSets

CONSTANTS
    Searches,    \* numbers, in the order of created_at
    Verdicts,
    Keep         \* 5000 searches

QARecordsAssumption == Searches \subseteq Nat /\ Keep \in Nat \ {0}

VARIABLES
    Shared,
    searches,    \* the rows committed
    feedback,    \* the rows committed: [verdict, of]
    recording,   \* the open transactions of record: search -> its victims
    verdict,     \* the calls of feedback
    overtaken    \* the searches deleted with a verdict the DELETE had not seen

qaVars == <<Shared, searches, feedback, recording, verdict, overtaken>>

Recording == DOMAIN recording
Inserting == {v \in Verdicts : verdict[v].stage = "inserted"}

(* One writer at a time. *)
MayWrite == ~Shared => Recording = {} /\ Inserting = {}

-----------------------------------------------------------------------------
(* record: INSERT and DELETE, each of one's own and the committed rows. *)

Rated(s) == \E f \in feedback : f.of = s

Newer(s, all) == {t \in all : t > s}

Victims(all) == {s \in all : Cardinality(Newer(s, all)) >= Keep /\ ~Rated(s)}

Record(s) ==
    /\ MayWrite
    /\ \A t \in searches \cup Recording : t < s
    /\ recording' = [t \in Recording \cup {s} |->
                        IF t = s THEN Victims(searches \cup {s}) ELSE recording[t]]
    /\ UNCHANGED <<Shared, searches, feedback, verdict, overtaken>>

Done(s) == [t \in Recording \ {s} |-> recording[t]]

(* The DELETE has the locks of its victims; their verdicts go with them. *)
Commit(s) ==
    /\ s \in Recording
    /\ \A v \in Inserting : verdict[v].of \notin recording[s]
    /\ searches' = (searches \cup {s}) \ recording[s]
    /\ feedback' = {f \in feedback : f.of \notin recording[s]}
    /\ overtaken' = overtaken \cup {t \in recording[s] : Rated(t)}
    /\ recording' = Done(s)
    /\ UNCHANGED <<Shared, verdict>>

Rollback(s) ==
    /\ s \in Recording
    /\ recording' = Done(s)
    /\ UNCHANGED <<Shared, searches, feedback, verdict, overtaken>>

-----------------------------------------------------------------------------
(* feedback: SELECT, INSERT under the foreign key, and the end. *)

Ends(v, stage) == verdict' = [verdict EXCEPT ![v].stage = stage]

Rate(v, s) ==
    /\ verdict[v].stage = "new" /\ s \in searches
    /\ verdict' = [verdict EXCEPT ![v] = [stage |-> "found", of |-> s]]
    /\ UNCHANGED <<Shared, searches, feedback, recording, overtaken>>

Insert(v) ==
    /\ verdict[v].stage = "found" /\ MayWrite
    /\ Ends(v, IF verdict[v].of \in searches THEN "inserted" ELSE "failed")
    /\ UNCHANGED <<Shared, searches, feedback, recording, overtaken>>

Save(v) ==
    /\ verdict[v].stage = "inserted"
    /\ feedback' = feedback \cup {[verdict |-> v, of |-> verdict[v].of]}
    /\ Ends(v, "saved")
    /\ UNCHANGED <<Shared, searches, recording, overtaken>>

Lose(v) ==
    /\ verdict[v].stage \in {"found", "inserted"}
    /\ Ends(v, "failed")
    /\ UNCHANGED <<Shared, searches, feedback, recording, overtaken>>

QAInit ==
    /\ Shared \in BOOLEAN
    /\ searches = {} /\ feedback = {} /\ recording = << >>
    /\ verdict = [v \in Verdicts |-> [stage |-> "new", of |-> 0]]
    /\ overtaken = {}

QANext ==
    \/ \E s \in Searches : Record(s) \/ Commit(s) \/ Rollback(s)
    \/ \E v \in Verdicts :
        \/ \E s \in Searches : Rate(v, s)
        \/ Insert(v) \/ Save(v) \/ Lose(v)

QASpec == QAInit /\ [][QANext]_qaVars

-----------------------------------------------------------------------------
QATypeOK ==
    /\ searches \subseteq Searches /\ Recording \subseteq Searches
    /\ \A f \in feedback : f.of \in searches
    /\ \A v \in Verdicts : verdict[v].stage \in {"new", "found", "inserted", "saved", "failed"}

(* A verdict that was answered with "saved" stays, and its search with it *)
(* (record: "AND NOT EXISTS"), unless the pruning overtook it, which it *)
(* only does in the shared database. *)
VerdictsStay ==
    /\ \A v \in Verdicts : verdict[v].stage = "saved" /\ verdict[v].of \notin overtaken
                               => [verdict |-> v, of |-> verdict[v].of] \in feedback
    /\ ~Shared => overtaken = {}
=============================================================================
