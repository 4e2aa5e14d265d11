----------------------------- MODULE Migrations -----------------------------
(***************************************************************************)
(* The migrations of the shared database: the Alembic revisions 0001-0011  *)
(* of the Profiler, upgraded and downgraded one transaction at a time, and *)
(* the migrate job of the integrated system (integration/                  *)
(* migration_upgrade.py, migrate_single_server.py, catalog_transition.py), *)
(* one transaction around all of them that keeps what 0006 and 0008 drop.  *)
(* The Profiler and the catalog loader write while the job runs, where its *)
(* locks let them; the job may stop, or be refused, at any statement.      *)
(*                                                                         *)
(* A row of recipient_profiles is its recipient and what its tags say (n); *)
(* whether they are strings or objects with an axis is "text".             *)
(***************************************************************************)
EXTENDS Integers, FiniteSets

CONSTANTS
    People,     \* recipients whose profile may be written
    Leaves,     \* product categories
    MaxWrites   \* bound: profile writes in a behaviour

MigrationAssumption == MaxWrites \in Nat

VARIABLES
    store,      \* the committed database
    draft,      \* the database as the job's transaction sees it
    job,        \* where the job is, the revision it read, the locks it holds
    raced,      \* tag values written after the job had read the old tags
    lost,       \* what a committed job dropped without having kept it
    written     \* how many profile writes there were

migrationVars == <<store, draft, job, raced, lost, written>>

-----------------------------------------------------------------------------
(* The revisions: what each adds to the schema and what it drops *)

Rev0001 == [adds |-> {"profiles", "disliked_names"}, drops |-> {}]
Rev0002 == [adds |-> {"runs"}, drops |-> {}]
Rev0003 == [adds |-> {"catalog", "source_keys"}, drops |-> {}]
Rev0004 == [adds |-> {}, drops |-> {}]
Rev0005 == [adds |-> {"reviews"}, drops |-> {}]
Rev0006 == [adds |-> {"chat_columns"}, drops |-> {"disliked_names"}]
Rev0007 == [adds |-> {"role_grants"}, drops |-> {}]
Rev0008 == [adds |-> {"backend_keys"}, drops |-> {"source_keys"}]
Rev0009 == [adds |-> {"embedding"}, drops |-> {}]
Rev0010 == [adds |-> {"disliked_tags"}, drops |-> {}]
Rev0011 == [adds |-> {"product_tags"}, drops |-> {}]

Revisions == <<Rev0001, Rev0002, Rev0003, Rev0004, Rev0005, Rev0006, Rev0007,
               Rev0008, Rev0009, Rev0010, Rev0011>>
Target == 11
Versioned == UNION {Revisions[n].adds : n \in 1..Target}

(* DDL that names what exists already, or what does not, fails. *)
Applies(r, d) == r.adds \cap d.tables = {} /\ r.drops \subseteq d.tables
Reverts(r, d) == r.adds \subseteq d.tables /\ r.drops \cap d.tables = {}

TextRows(d) == {row \in d.tags : row.text}
Unlinked(d) == d.leaves \ d.linked

(* 0008 stops while a row has no Backend number. *)
MayUpgrade(n, d) ==
    /\ d.rev = n - 1
    /\ Applies(Revisions[n], d)
    /\ n = 8 => Unlinked(d) = {}

(* 0006 empties tags that are strings: their axis is unknown. *)
Upgraded(n, d) ==
    [d EXCEPT !.rev = n,
              !.tables = (@ \cup Revisions[n].adds) \ Revisions[n].drops,
              !.tags = IF n = 6 THEN @ \ TextRows(d) ELSE @]

(* 0008 cannot be taken back with rows in the catalog, nor while the table *)
(* of source categories refers to its keys; 0003 drops the schema, which *)
(* must be empty. *)
MayDowngrade(n, d) ==
    /\ d.rev = n
    /\ Reverts(Revisions[n], d)
    /\ n = 8 => d.leaves = {} /\ "sources" \notin d.tables
    /\ n = 3 => "generations" \notin d.tables

(* 0006 makes strings of the tags, 0003 and 0001 drop their tables. *)
Downgraded(n, d) ==
    [d EXCEPT !.rev = n - 1,
              !.tables = (@ \cup Revisions[n].drops) \ Revisions[n].adds,
              !.tags = CASE n = 6 -> {[row EXCEPT !.text = TRUE] : row \in @}
                         [] n = 1 -> {}
                         [] OTHER -> @,
              !.leaves = IF n = 3 THEN {} ELSE @,
              !.linked = IF n = 3 THEN {} ELSE @]

-----------------------------------------------------------------------------
(* The job *)

Empty == [rev |-> 0, tables |-> {}, tags |-> {}, leaves |-> {}, linked |-> {},
          sources |-> {}, archive |-> {}, identity |-> FALSE, inputs |-> "absent"]
Resting == [at |-> "rest", before |-> 0, held |-> {}, rows |-> {}]

(* A new database; tables without a version; a catalog that some other *)
(* tool installed; an installation whose recipient inputs are unguarded. *)
MigrationInit ==
    /\ store \in {Empty,
                  [Empty EXCEPT !.tables = {"profiles"}],
                  [Empty EXCEPT !.rev = Target, !.identity = FALSE,
                                !.tables = (Versioned \ {"disliked_names", "source_keys"})
                                           \cup {"generations"}]}
                 \cup {[Empty EXCEPT !.rev = Target, !.identity = TRUE, !.inputs = i,
                                !.tables = (Versioned \ {"disliked_names", "source_keys"})
                                           \cup {"generations", "sources"}]
                         : i \in {"empty", "unguarded"}}
    /\ draft = Empty
    /\ job = Resting
    /\ raced = {}
    /\ lost = {}
    /\ written = 0

(* current_revision and the check of the identity: an unversioned schema *)
(* and a partly installed catalog are refused. *)
Known(d) ==
    /\ d.rev = 0 => d.tables \cap {"profiles", "runs", "catalog"} = {}
    /\ ~d.identity => "generations" \notin d.tables

(* run_upgrade takes the advisory lock and reads the revision; a second *)
(* job is refused before it changes anything. *)
StartJob ==
    /\ job.at = "rest"
    /\ Known(store)
    /\ job' = [at |-> CASE store.rev < 6 -> "to_0005"
                        [] store.rev \in 6..7 -> "to_0007"
                        [] OTHER -> "to_0011",
               before |-> store.rev, held |-> {}, rows |-> {}]
    /\ draft' = store
    /\ UNCHANGED <<store, raced, lost, written>>

(* What a revision locks against the writers until the job ends. *)
Locks(n) ==
    CASE n \in {5, 6, 10, 11} -> {"profiles"}
      [] OTHER -> {}
CatalogLocks(n) == IF n \in {8, 9, 11} THEN {"catalog"} ELSE {}

LastRevision ==
    CASE job.at = "to_0005" -> 5
      [] job.at = "to_0007" -> 7
      [] OTHER -> Target

(* command.upgrade: the next revision; 0006 is Empties and DropNames. *)
Due == draft.rev + 1
MayStepUp ==
    /\ job.at \in {"to_0005", "to_0007", "to_0011"}
    /\ Due <= LastRevision /\ Due # 6
    /\ MayUpgrade(Due, draft)

StepUp ==
    /\ MayStepUp
    /\ draft' = Upgraded(Due, draft)
    /\ job' = [job EXCEPT !.held = @ \cup Locks(Due) \cup CatalogLocks(Due)]
    /\ UNCHANGED <<store, raced, lost, written>>

Archivable(d) == \A row \in d.tags : \A a \in d.archive : a.who # row.who

Archived(d) ==
    [d EXCEPT !.tables = @ \cup {"archive"},
              !.archive = @ \cup {[who |-> row.who, n |-> row.n] : row \in d.tags}]

(* preserve_old_tags inserts into a table keyed by the recipient, and *)
(* holds no lock against the writers of the rows it read. *)
MayPreserve == job.at = "to_0005" /\ draft.rev = 5 /\ Archivable(draft)

PreserveOldTags ==
    /\ MayPreserve
    /\ draft' = Archived(draft)
    /\ job' = [job EXCEPT !.at = "to_0007"]
    /\ UNCHANGED <<store, raced, lost, written>>

(* The UPDATE of 0006 locks the rows it changes. *)
MayEmpty == job.at = "to_0007" /\ draft.rev = 5

Empties ==
    /\ MayEmpty
    /\ draft' = [draft EXCEPT !.tags = @ \ TextRows(draft)]
    /\ job' = [job EXCEPT !.at = "0006", !.rows = {row.who : row \in TextRows(draft)}]
    /\ UNCHANGED <<store, raced, lost, written>>

(* The rest of 0006 drops a column: from here on no profile is written. *)
MayDrop == job.at = "0006"

DropNames ==
    /\ MayDrop
    /\ draft' = [Upgraded(6, draft) EXCEPT !.tags = draft.tags]
    /\ job' = [job EXCEPT !.at = "to_0007", !.held = @ \cup Locks(6)]
    /\ UNCHANGED <<store, raced, lost, written>>

(* upgrade_0008_on_connection locks the catalog ... *)
MayLock == job.at = "to_0007" /\ draft.rev = 7

LockCatalog ==
    /\ MayLock
    /\ job' = [job EXCEPT !.at = "0008", !.held = @ \cup {"catalog"}]
    /\ UNCHANGED <<store, draft, raced, lost, written>>

(* ... refuses rows without a Backend number, copies the source of every *)
(* category ... *)
MayCopy == job.at = "0008" /\ Unlinked(draft) = {}

CopySources ==
    /\ MayCopy
    /\ draft' = [draft EXCEPT !.tables = @ \cup {"sources"}, !.sources = @ \cup draft.leaves]
    /\ job' = [job EXCEPT !.at = "0008_copied"]
    /\ UNCHANGED <<store, raced, lost, written>>

MayRekey == job.at = "0008_copied" /\ MayUpgrade(8, draft)

(* Mutant: the transition leaves the version to Alembic. *)
RekeyUnstamped ==
    /\ job.at = "0008_copied"
    /\ draft' = [Upgraded(8, draft) EXCEPT !.rev = 7]
    /\ job' = [job EXCEPT !.at = "to_0011"]
    /\ UNCHANGED <<store, raced, lost, written>>

(* ... runs the unmodified 0008, refers to its keys, and stamps the *)
(* version by hand. *)
Rekey ==
    /\ MayRekey
    /\ draft' = Upgraded(8, draft)
    /\ job' = [job EXCEPT !.at = "to_0011"]
    /\ UNCHANGED <<store, raced, lost, written>>

(* Recipient inputs that nobody guarded are never turned into a profile. *)
InputsKnown(d) == d.inputs # "unguarded"

(* migrate_connection: the first time everything the integrated system *)
(* needs, later only what was added to it; either way the inputs. *)
Installed(d) ==
    [d EXCEPT !.tables = @ \cup {"generations"}, !.identity = TRUE, !.inputs = "guarded"]

Dropped(d) ==
    ({[who |-> row.who, n |-> row.n] : row \in TextRows(store)} \ d.archive)
        \cup (IF "source_keys" \in store.tables THEN store.leaves \ d.sources ELSE {})

(* The commit of the whole job. *)
MayCommit == job.at = "to_0011" /\ draft.rev = Target /\ InputsKnown(draft)

Commit ==
    /\ MayCommit
    /\ store' = Installed(draft)
    /\ lost' = lost \cup IF job.before < 8 THEN Dropped(draft) ELSE {}
    /\ job' = Resting
    /\ draft' = Empty
    /\ UNCHANGED <<raced, written>>

(* Any statement may fail, and the process may stop: nothing is committed. *)
RollBack ==
    /\ job.at # "rest"
    /\ job' = Resting
    /\ draft' = Empty
    /\ raced' = raced \cap lost
    /\ UNCHANGED <<store, lost, written>>

-----------------------------------------------------------------------------
(* Alembic by itself, between two jobs *)

PlainUpgrade ==
    /\ job.at = "rest"
    /\ \E n \in 1..Target : MayUpgrade(n, store) /\ store' = Upgraded(n, store)
    /\ UNCHANGED <<draft, job, raced, lost, written>>

PlainDowngrade ==
    /\ job.at = "rest"
    /\ \E n \in 1..Target : MayDowngrade(n, store) /\ store' = Downgraded(n, store)
    /\ UNCHANGED <<draft, job, raced, lost, written>>

-----------------------------------------------------------------------------
(* The writers.  The job reads what they commit. *)

Seen(d, e) == IF job.at = "rest" THEN d ELSE e

Put(d, row) == [d EXCEPT !.tags = {x \in @ : x.who # row.who} \cup {row}]

(* The Profiler saves a profile; before 0006 its tags are strings. *)
WriteProfile(p) ==
    LET row == [who |-> p, n |-> written + 1, text |-> store.rev < 6] IN
    /\ written < MaxWrites
    /\ store.rev >= 1
    /\ "profiles" \notin job.held /\ p \notin job.rows
    /\ written' = written + 1
    /\ store' = Put(store, row)
    /\ draft' = Seen(draft, Put(draft, row))
    /\ raced' = IF job.at \in {"to_0007", "0006"} /\ draft.rev = 5
                THEN raced \cup {[who |-> p, n |-> written + 1]} ELSE raced
    /\ UNCHANGED <<job, lost>>

(* load_catalog adds a category, with its Backend number or still without. *)
LoadLeaf(c, known) ==
    LET Loaded(d) == [d EXCEPT !.leaves = @ \cup {c},
                               !.linked = IF known THEN @ \cup {c} ELSE @] IN
    /\ store.rev >= 3
    /\ "catalog" \notin job.held
    /\ store.rev >= 8 => known
    /\ store' = Loaded(store)
    /\ draft' = Seen(draft, Loaded(draft))
    /\ UNCHANGED <<job, raced, lost, written>>

(* An operator empties the catalog; a category whose source is kept stays. *)
RemoveLeaf(c) ==
    LET Without(d) == [d EXCEPT !.leaves = @ \ {c}, !.linked = @ \ {c}] IN
    /\ c \in store.leaves \ store.sources
    /\ "catalog" \notin job.held
    /\ store' = Without(store)
    /\ draft' = Seen(draft, Without(draft))
    /\ UNCHANGED <<job, raced, lost, written>>

JobStep ==
    \/ StartJob \/ StepUp \/ PreserveOldTags \/ Empties \/ DropNames
    \/ LockCatalog \/ CopySources \/ Rekey \/ Commit

MigrationNext ==
    \/ JobStep \/ RollBack \/ PlainUpgrade \/ PlainDowngrade
    \/ \E p \in People : WriteProfile(p)
    \/ \E c \in Leaves : RemoveLeaf(c) \/ \E known \in BOOLEAN : LoadLeaf(c, known)

MigrationSpec == MigrationInit /\ [][MigrationNext]_migrationVars

-----------------------------------------------------------------------------
(* Properties *)

Value == [who : People, n : 1..MaxWrites]
Database ==
    [rev : 0..Target, tables : SUBSET (Versioned \cup {"generations", "sources", "archive"}),
     tags : SUBSET [who : People, n : 1..MaxWrites, text : BOOLEAN],
     leaves : SUBSET Leaves, linked : SUBSET Leaves, sources : SUBSET Leaves,
     archive : SUBSET Value, identity : BOOLEAN,
     inputs : {"absent", "empty", "unguarded", "guarded"}]

MigrationTypeOK ==
    /\ store \in Database /\ draft \in Database
    /\ store.linked \subseteq store.leaves
    /\ job.at \in {"rest", "to_0005", "to_0007", "0006", "0008", "0008_copied", "to_0011"}
    /\ job.before \in 0..Target
    /\ job.held \subseteq {"profiles", "catalog"} /\ job.rows \subseteq People
    /\ raced \subseteq Value /\ lost \subseteq Value \cup Leaves
    /\ written \in 0..MaxWrites

(* What a committed job drops it has kept: the strings 0006 empties are in *)
(* the archive and the source of every category that 0008 re-keys is in *)
(* the table of sources - but for a tag that the Profiler wrote between *)
(* the copy and the end of 0006, which no lock prevents. *)
JobLosesNothing == lost \subseteq raced

(* The version that is stamped, by Alembic or by the transition, names the *)
(* schema that is there. *)
SchemaOf(n) ==
    (UNION {Revisions[i].adds : i \in 1..n}) \ (UNION {Revisions[i].drops : i \in 1..n})
StampIsSchema ==
    /\ Known(store) => store.tables \cap Versioned = SchemaOf(store.rev)
    /\ job.at \notin {"rest", "0006"} => draft.tables \cap Versioned = SchemaOf(draft.rev)

(* A job that began is held up by what its messages name - a row without a *)
(* Backend number, unguarded inputs - and by nothing else: however often a *)
(* database was upgraded, emptied and taken back before, its archive, its *)
(* schema and its version let the job go on. *)
HeldUpOnlyByData ==
    \/ job.at = "rest"
    \/ MayStepUp \/ MayPreserve \/ MayEmpty \/ MayDrop \/ MayLock \/ MayCopy \/ MayRekey
    \/ MayCommit
    \/ Unlinked(draft) # {} \/ draft.inputs = "unguarded"
=============================================================================
