--------------------------- MODULE CredentialFile ---------------------------
(***************************************************************************)
(* One managed credential (integration/provider_key.py, ProviderKey; the   *)
(* Backend token of service_token.py is the same file with another name):  *)
(* a record and a marker in one private directory, saved by the console    *)
(* under a file lock and read by the services at every request.  A value   *)
(* the deployment injected is used until the first record is saved, and    *)
(* never after.  A save may fail or stop at every system call, the machine *)
(* may lose power (what the directory was not synchronised for may be on    *)
(* disk or not), and the record may be lost or damaged from outside.       *)
(***************************************************************************)
EXTENDS Naturals, FiniteSets

CONSTANTS
    Writers,        \* saves of the console
    MaxRevisions,   \* bound: records ever written
    MaxDamage,      \* bound: power failures, losses and damages of the record
    NoRecord,       \* a model value: there is no record
    BadRecord       \* a model value: there is one, which cannot be read

NoSaver == "nobody"

CredentialAssumption ==
    /\ MaxRevisions \in Nat
    /\ MaxDamage \in Nat
    /\ NoRecord \notin Nat /\ BadRecord \notin Nat
    /\ NoSaver \notin Writers

VARIABLES
    deployment, \* the deployment injected a value
    legacy,     \* files of an older layout are in the directory
    record,     \* the revision of the record, NoRecord or BadRecord
    marker,     \* the marker says that a record was saved
    onDisk,     \* what the directory may hold after a loss of power
    holder,     \* the save that has the lock
    save,       \* what every save is doing
    written,    \* revisions given out so far
    confirmed,  \* history: the last revision a save was confirmed for
    seen,       \* history: a save was once confirmed
    calls,      \* model calls under way: the revisions they were sent with
    success,    \* _last_success of the process
    damage      \* how often something broke

credentialVars == <<deployment, legacy, record, marker, onDisk, holder, save, written,
                    confirmed, seen, calls, success, damage>>

Revisions == 1..MaxRevisions
Records == Revisions \cup {NoRecord, BadRecord}
Directory == [record : Records, marker : BOOLEAN]
NoSave == [at |-> "idle"]

CredentialInit ==
    /\ deployment \in BOOLEAN
    /\ legacy \in BOOLEAN
    /\ record = NoRecord
    /\ marker = FALSE
    /\ onDisk = {[record |-> NoRecord, marker |-> FALSE]}
    /\ holder = NoSaver
    /\ save = [w \in Writers |-> NoSave]
    /\ written = 0
    /\ confirmed = NoRecord
    /\ seen = FALSE
    /\ calls = {}
    /\ success = NoRecord
    /\ damage = 0

given == <<deployment, legacy>>
files == <<record, marker, onDisk>>
usage == <<calls, success>>

(* An older layout has to be given up deliberately first. *)
NeedsMigration(confirm) == record = NoRecord /\ legacy /\ ~confirm

(* _stored: the record, else the deployment's value as long as nothing was *)
(* ever saved. *)
UsesDeployment ==
    /\ deployment
    /\ record = NoRecord /\ ~NeedsMigration(FALSE)
    /\ ~marker

(* snapshot, at the start of a call: the call goes out with that key. *)
Call ==
    /\ record \in Revisions
    /\ calls' = calls \cup {record}
    /\ UNCHANGED <<given, files, holder, save, written, confirmed, seen, success, damage>>

(* record_success: only for the key that is still current. *)
Counts(revision) == revision = record

CallSucceeds(revision) ==
    /\ revision \in calls
    /\ calls' = calls \ {revision}
    /\ success' = IF Counts(revision) THEN revision ELSE success
    /\ UNCHANGED <<given, files, holder, save, written, confirmed, seen, damage>>

-----------------------------------------------------------------------------
(* _save, one action per system call that others can see or that may fail. *)

Changed(new, mark) ==
    /\ record' = new
    /\ marker' = mark
    /\ onDisk' = onDisk \cup {[record |-> new, marker |-> mark]}

Synchronised == onDisk' = {[record |-> record, marker |-> marker]}

To(w, at) == save' = [save EXCEPT ![w].at = at]

Over(w) ==
    /\ save' = [save EXCEPT ![w] = NoSave]
    /\ holder' = IF holder = w THEN NoSaver ELSE holder

quiet == <<given, usage, damage>>

(* The page saves against the revision it was shown. *)
Begin(w, expected, confirm) ==
    /\ save[w] = NoSave
    /\ expected = IF record \in Revisions THEN record ELSE NoRecord
    /\ save' = [save EXCEPT ![w] = [at |-> "lock", expected |-> expected,
                                    confirm |-> confirm, made |-> FALSE, revision |-> 0]]
    /\ UNCHANGED <<files, holder, written, confirmed, seen, quiet>>

(* The revision is compared under the lock; a damaged record is not *)
(* overwritten. *)
Unchanged(w) ==
    save[w].expected = IF record \in Revisions THEN record ELSE NoRecord

Lock(w) ==
    /\ save[w].at = "lock"
    /\ holder = NoSaver
    /\ IF /\ record # BadRecord /\ ~NeedsMigration(save[w].confirm)
          /\ Unchanged(w)
          /\ written < MaxRevisions
         THEN /\ holder' = w
              /\ written' = written + 1
              /\ save' = [save EXCEPT ![w].at = "mark", ![w].revision = written + 1]
         ELSE Over(w) /\ UNCHANGED written
    /\ UNCHANGED <<files, confirmed, seen, quiet>>

(* The temporary file is complete and synchronised; the marker comes next. *)
Mark(w) ==
    /\ save[w].at = "mark"
    /\ IF marker
         THEN To(w, "replace") /\ UNCHANGED files
         ELSE /\ Changed(record, TRUE)
              /\ save' = [save EXCEPT ![w].at = "markSync", ![w].made = TRUE]
    /\ UNCHANGED <<holder, written, confirmed, seen, quiet>>

MarkSync(w) ==
    /\ save[w].at = "markSync"
    /\ To(w, "replace")
    /\ Synchronised
    /\ UNCHANGED <<record, marker, holder, written, confirmed, seen, quiet>>

Replace(w) ==
    /\ save[w].at = "replace"
    /\ Changed(save[w].revision, marker)
    /\ To(w, "sync")
    /\ UNCHANGED <<holder, written, confirmed, seen, quiet>>

(* Only the marker this save made, and only before any record. *)
TakesBack(w) == save[w].made /\ save[w].expected = NoRecord

(* A system call fails before the record is replaced. *)
Fails(w) ==
    /\ save[w].at \in {"mark", "markSync", "replace"}
    /\ IF TakesBack(w)
         THEN Changed(record, FALSE) /\ To(w, "undone") /\ UNCHANGED holder
         ELSE Over(w) /\ UNCHANGED files
    /\ UNCHANGED <<written, confirmed, seen, quiet>>

Undone(w) ==
    /\ save[w].at = "undone"
    /\ Synchronised \/ UNCHANGED onDisk
    /\ Over(w)
    /\ UNCHANGED <<record, marker, written, confirmed, seen, quiet>>

SyncRecord == Synchronised

(* The directory is synchronised, the record read back: the save is *)
(* confirmed.  If not, the caller is told that it is unconfirmed. *)
Confirm(w) ==
    /\ save[w].at = "sync"
    /\ \/ /\ SyncRecord
          /\ record = save[w].revision
          /\ confirmed' = record
          /\ seen' = TRUE
       \/ UNCHANGED <<onDisk, confirmed, seen>>
    /\ Over(w)
    /\ UNCHANGED <<record, marker, written, quiet>>

(* The console stops: the lock goes with it, the files stay. *)
Dies(w) ==
    /\ save[w] # NoSave
    /\ Over(w)
    /\ UNCHANGED <<files, written, confirmed, seen, quiet>>

-----------------------------------------------------------------------------
Breaks == damage < MaxDamage /\ damage' = damage + 1

PowerFails ==
    /\ Breaks
    /\ \E d \in onDisk :
          record' = d.record /\ marker' = d.marker /\ onDisk' = {d}
    /\ save' = [w \in Writers |-> NoSave]
    /\ holder' = NoSaver
    /\ calls' = {}
    /\ success' = NoRecord
    /\ UNCHANGED <<given, written, confirmed, seen>>

(* The record is removed or damaged by something else: what was confirmed *)
(* is gone. *)
Damaged ==
    /\ Breaks
    /\ record \in Revisions
    /\ \E d \in {NoRecord, BadRecord} :
          record' = d /\ onDisk' = {[record |-> d, marker |-> marker]}
    /\ confirmed' = NoRecord
    /\ UNCHANGED <<given, marker, holder, save, written, seen, usage>>

WriterStep(w) ==
    \/ \E expected \in Revisions \cup {NoRecord}, confirm \in BOOLEAN : Begin(w, expected, confirm)
    \/ Lock(w) \/ Mark(w) \/ MarkSync(w) \/ Replace(w) \/ Fails(w) \/ Undone(w)
    \/ Confirm(w) \/ Dies(w)

CredentialNext ==
    \/ \E w \in Writers : WriterStep(w)
    \/ Call
    \/ \E revision \in Revisions : CallSucceeds(revision)
    \/ PowerFails \/ Damaged

CredentialSpec == CredentialInit /\ [][CredentialNext]_credentialVars

-----------------------------------------------------------------------------
CredentialTypeOK ==
    /\ deployment \in BOOLEAN /\ legacy \in BOOLEAN /\ marker \in BOOLEAN /\ seen \in BOOLEAN
    /\ record \in Records
    /\ onDisk \subseteq Directory /\ onDisk # {}
    /\ holder \in Writers \cup {NoSaver}
    /\ \A w \in Writers : save[w].at \in
          {"idle", "lock", "mark", "markSync", "replace", "undone", "sync"}
    /\ written \in 0..MaxRevisions
    /\ confirmed \in Revisions \cup {NoRecord}
    /\ calls \subseteq Revisions
    /\ success \in Revisions \cup {NoRecord}

(* Once a dashboard record was confirmed, the deployment's value is never *)
(* used again: not when a later save fails or stops half way, not when the *)
(* record is lost, not after a loss of power ("its persistent marker *)
(* prevents fallback after loss/corruption").  A record that is read *)
(* before its save is confirmed has no such promise: the marker that a *)
(* stopped save left is taken as it is, and not synchronised again. *)
NoFallback == seen => ~UsesDeployment

(* A confirmed save survives: the record that is read is the confirmed *)
(* one or a later one, whatever stops or loses power after it, unless the *)
(* record itself was damaged from outside. *)
ConfirmedSurvives ==
    confirmed # NoRecord => record \in Revisions /\ record >= confirmed

(* A save replaces the revision its page was shown, and no other: of two *)
(* saves against one revision at most one gets through. *)
ReplacesWhatItSaw ==
    \A w \in Writers :
        save[w].at = "replace" /\ save'[w].at = "sync" /\ record \in Revisions =>
            save[w].expected = record
NoLostUpdate == [][ReplacesWhatItSaw]_credentialVars

(* A late answer to a call with a replaced key never hides that the *)
(* current key has worked (record_success). *)
KeepsSuccess ==
    success = record /\ record' = record /\ record \in Revisions /\ damage' = damage =>
        success' = success
SuccessStays == [][KeepsSuccess]_credentialVars
=============================================================================
