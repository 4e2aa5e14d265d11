-------------------------- MODULE RecipientInputs --------------------------
(***************************************************************************)
(* The shared store of received inputs, integration/recipient_data.py.     *)
(*                                                                         *)
(* Intake records every authenticated request here before it is queued;    *)
(* the Profiler's worker asks whether its job is still the latest input,   *)
(* and leaves a receipt of each successful analysis beside the input.      *)
(* Chat reads the latest input together with that receipt.                 *)
(*                                                                         *)
(* The store takes one advisory lock per recipient for a transaction and   *)
(* each other operation is one statement, so every operation is one        *)
(* atomic step of the modules that use it.                                 *)
(***************************************************************************)
EXTENDS Naturals, FiniteSets

CONSTANTS
  Recipients,   \* recipient user ids
  MaxVersion,   \* bound: source versions are 1 .. MaxVersion
  Hashes,       \* digests of a normalised request body
  Catalogs,     \* catalog versions an analysis can be made against
  TagStatuses,  \* outcomes of the tag step of an analysis
  UsableTags,   \* those that count as a successful analysis
  None          \* SQL null, and "no row"

Versions == 1 .. MaxVersion

(* What one analysis produced: the request body it read, the catalog *)
(* version it ranked, and how its tag step ended. *)
Results == [hash : Hashes, catalog : Catalogs, tag : TagStatuses]

(* One row of ai_profile.recipient_profiles, and the part of a profile *)
(* that recipient_inputs.successful_analysis keeps. *)
Profiles == [ver : Versions, result : Results]

(* A received input: a version and the body recorded for it. *)
Inputs == [ver : Versions, hash : Hashes]

ASSUME InputConstants ==
  /\ MaxVersion \in Nat
  /\ UsableTags \subseteq TagStatuses
  /\ None \notin Hashes \cup Profiles \cup Inputs

VARIABLES
  versions,  \* recipient_input_versions: the body of each known version
  latest,    \* recipient_inputs: the latest version received and its body
  analysis   \* recipient_inputs.successful_analysis

inputVars == <<versions, latest, analysis>>

InputTypeOK ==
  /\ versions \in [Recipients -> [Versions -> Hashes \cup {None}]]
  /\ latest \in [Recipients -> Inputs \cup {None}]
  /\ analysis \in [Recipients -> Profiles \cup {None}]

InputInit ==
  /\ versions = [r \in Recipients |-> [v \in Versions |-> None]]
  /\ latest = [r \in Recipients |-> None]
  /\ analysis = [r \in Recipients |-> None]

----------------------------------------------------------------------------
Known(r) == {v \in Versions : versions[r][v] # None}

(* Mutant: a second body of a version is not noticed. *)
ReceiptAnyBody(r, v, h) ==
  IF \E u \in Known(r) : v < u THEN "stale" ELSE "stored"

(* The outcome record() returns or raises for a request, computed from the *)
(* versions known before this one is inserted. *)
Receipt(r, v, h) ==
  IF versions[r][v] \notin {h, None} THEN "conflict"
  ELSE IF \E u \in Known(r) : v < u THEN "stale"
  ELSE IF latest[r] = [ver |-> v, hash |-> h] THEN "duplicate"
  ELSE "stored"

(* latest[r] after a record() that is neither a conflict nor stale; the *)
(* upsert only replaces an older version. *)
LatestAfter(r, v, h) ==
  IF latest[r] # None /\ latest[r].ver >= v
    THEN latest[r]
    ELSE [ver |-> v, hash |-> h]

(* _recover_analysis: an analysis that ran before its input was recorded *)
(* is attached when the run and the profile prove it is of this input. *)
Recoverable(r, v, h, profile, run) ==
  /\ LatestAfter(r, v, h).ver = v
  /\ profile # None
  /\ profile.ver = v
  /\ run.hash = LatestAfter(r, v, h).hash
  /\ run.result # None
  /\ run.result.tag = profile.result.tag
  /\ run.status \in {"RESULT_READY", "DELIVERED", "SUPERSEDED"}
  /\ profile.result.tag \in UsableTags
  /\ analysis[r] = None \/ analysis[r].ver < v

(* record(): one transaction under the recipient's advisory lock. profile *)
(* and run are the rows _recover_analysis joins with. *)
RecordInput(r, v, h, profile, run) ==
  /\ Receipt(r, v, h) # "conflict"
  /\ versions' = [versions EXCEPT ![r][v] = h]
  /\ IF Receipt(r, v, h) = "stale"
       THEN UNCHANGED <<latest, analysis>>
       ELSE /\ latest' = [latest EXCEPT ![r] = LatestAfter(r, v, h)]
            /\ analysis' = [analysis EXCEPT ![r] =
                 IF Recoverable(r, v, h, profile, run) THEN profile ELSE @]

(* is_current(): the queued job is still the latest recorded input. *)
IsCurrent(r, v, h) == latest[r] = [ver |-> v, hash |-> h]

(* record_analysis(): keep the last successful analysis, never an older *)
(* one, and never one of a version that was not recorded. *)
Retains(r, v, tag) ==
  /\ tag \in UsableTags
  /\ latest[r] # None
  /\ latest[r].ver >= v
  /\ analysis[r] = None \/ analysis[r].ver < v
  /\ versions[r][v] # None

RecordAnalysis(r, v, result) ==
  /\ analysis' = [analysis EXCEPT ![r] =
       IF Retains(r, v, result.tag) THEN [ver |-> v, result |-> result] ELSE @]
  /\ UNCHANGED <<versions, latest>>

=============================================================================
