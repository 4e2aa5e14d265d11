------------------------- MODULE MCProfileScenarios -------------------------
(***************************************************************************)
(* ProfileRuns with two processes of one worker each, bounded from two     *)
(* sides: one version with two bodies, one catalog and a run lock that may *)
(* fail, or two versions of one body, two catalogs and a lock that works.  *)
(***************************************************************************)
EXTENDS MCProfileRuns

VARIABLE scenario

ScenarioInit == scenario \in {"bodies", "versions"} /\ Init /\ catalog = c1

OneVersion == catalog \in {c1, None} /\ \A r \in Recipients : beVersion[r] <= 1

OneBody == \A r \in Recipients, v \in Versions : beBodies[r][v] \subseteq {h1}

Locks == \A w \in Workers : session[w] # "unlocked"

ScenarioNext ==
  /\ Next /\ UNCHANGED scenario
  /\ scenario = "bodies" => OneVersion'
  /\ scenario = "versions" => OneBody' /\ Locks'

Scenarios == ScenarioInit /\ [][ScenarioNext]_<<vars, scenario>>

(* What a worker sends under its lock is what the row holds, so that a *)
(* later request resends the same callback: SentIsOnDisk, which is about *)
(* runs that all have a lock. *)
LockedSentIsOnDisk == scenario = "versions" => SentIsOnDisk

(* Once a body has a result it keeps it, whoever writes the row next: only *)
(* a new RUNNING or a FAILED in between may replace it. Runs with a lock. *)
LockedResultStable == [][scenario = "versions" => KeepsResults]_<<vars, scenario>>

=============================================================================
