---------------------------- MODULE CatalogLoads ----------------------------
(***************************************************************************)
(* The catalog the Profiler reads from its own database: the loader that   *)
(* writes it (tools/catalog/load_catalog.py) and the threads of a process  *)
(* that read it (catalog.py, DbCatalogReader; embedding.py, DbEmbedding).  *)
(*                                                                         *)
(* A load is one transaction: it adds a version, writes the products of    *)
(* its package and makes the version the active one.  Tags and vectors of  *)
(* the active version come later, in transactions of their own, and do not *)
(* make a new version.  What a product says is the number of the version   *)
(* that wrote it; its tags are named by what they were computed from.      *)
(***************************************************************************)
EXTENDS Naturals, Sequences

CONSTANTS
    Packages,    \* package names
    ProductIds,  \* product ids of Backend
    Threads,     \* requests and workers of one process
    Rules,       \* editions of the tag rules (RULE, tags_sha256)
    MaxVersions, \* bound: loads
    MaxTagging,  \* bound: transactions that write tags or vectors
    Inactive,    \* may a load leave the active version as it is (--no-activate)?
    Nowhere      \* no package, no rule, no vectors, no version

LoadsAssumption ==
    /\ MaxVersions \in Nat /\ MaxTagging \in Nat /\ Inactive \in BOOLEAN
    /\ Nowhere \notin Packages /\ Nowhere \notin Rules /\ Nowhere \notin Threads

VARIABLES
    versions,       \* catalog_versions: package, rule of the tags, model of the vectors
    activeVersion,  \* the version with is_active; 0: none
    product,        \* the rows of products
    taggings,       \* how many tagging transactions there were
    embedding,      \* the version load_embeddings has read, not yet written
    ruled,          \* the rule of the reading process
    cachedVersion,  \* the version that a poll is compared with (_version)
    loaded,         \* the pair that is handed out (_snapshot) with tags_state, and
                    \* whether the version was tagged between its two statements
    lock,           \* the thread that loads (_lock)
    rows,           \* what it has read so far
    thread,         \* where every thread is in active(), and what there was when it polled
    vectors         \* the process's vector index: on for a version, off or not tried

loadsVars == <<versions, activeVersion, product, taggings, embedding, ruled, cachedVersion,
               loaded, lock, rows, thread, vectors>>

Versions == 1..MaxVersions
NoProductRow == [package |-> Nowhere]
Absent(p) == product[p].package = Nowhere
RowsOf(v) == {p \in ProductIds : product[p].package = versions[v].package}
NotRead == [version |-> 0, products |-> {}, rule |-> Nowhere, state |-> "none", torn |-> FALSE]
Asleep == [at |-> "rest", polled |-> 0, shown |-> 0]

LoadsInit ==
    /\ versions = <<>>
    /\ activeVersion = 0
    /\ product = [p \in ProductIds |-> NoProductRow]
    /\ taggings = 0
    /\ embedding = 0
    /\ ruled \in Rules
    /\ cachedVersion = 0
    /\ loaded = [version |-> 0, products |-> {}, state |-> "none", torn |-> FALSE]
    /\ lock = Nowhere
    /\ rows = NotRead
    /\ thread = [t \in Threads |-> Asleep]
    /\ vectors = Nowhere

database == <<versions, activeVersion, product, taggings, embedding>>
reader == <<ruled, cachedVersion, loaded, lock, rows, thread, vectors>>

-----------------------------------------------------------------------------
(* check_bundle, of which only "not empty" matters here. *)
WellFormed(ids) == ids # {}

(* _PRODUCT: a row that is written again keeps its tags and its vector. *)
Written(p, package, v) ==
    IF Absent(p) THEN [package |-> package, content |-> v, tags |-> <<>>, vector |-> FALSE]
                 ELSE [product[p] EXCEPT !.package = package, !.content = v]

(* _write: everything or nothing.  A product the package has no more keeps *)
(* its row. *)
LoadCatalog(package, ids, activate) ==
    /\ Len(versions) < MaxVersions
    /\ activate \/ Inactive
    /\ LET v == Len(versions) + 1
       IN  /\ versions' = Append(versions, [package |-> package, rule |-> Nowhere,
                                            model |-> Nowhere])
           /\ product' = [p \in ProductIds |->
                            IF p \in ids THEN Written(p, package, v) ELSE product[p]]
           /\ activeVersion' = IF activate THEN v ELSE activeVersion
    /\ UNCHANGED <<taggings, embedding, reader>>

HasActiveCatalog == activeVersion # 0 /\ RowsOf(activeVersion) # {}

(* --bundle: --if-empty leaves a catalog alone that has products. *)
LoadBundle(package, ids, activate, ifEmpty) ==
    /\ WellFormed(ids)
    /\ ~(ifEmpty /\ HasActiveCatalog)
    /\ LoadCatalog(package, ids, activate)

(* --package, with the numbers Backend gave; every product has one. *)
LoadPackage(package, ids, activate) ==
    /\ WellFormed(ids)
    /\ LoadCatalog(package, ids, activate)

(* load_tags: the active version is locked, so an activating load comes *)
(* before or after the whole transaction.  --if-changed skips a version *)
(* that has the tags of this rule. *)
LoadTags(rule, ifChanged) ==
    /\ activeVersion # 0
    /\ taggings < MaxTagging
    /\ ~(ifChanged /\ versions[activeVersion].rule = rule)
    /\ product' = [p \in ProductIds |->
          IF p \in RowsOf(activeVersion) THEN [product[p] EXCEPT !.tags = <<product[p].content, rule>>]
                                  ELSE product[p]]
    /\ versions' = [versions EXCEPT ![activeVersion].rule = rule]
    /\ taggings' = taggings + 1
    /\ UNCHANGED <<activeVersion, embedding, reader>>

HasActiveVectors == activeVersion # 0 /\ versions[activeVersion].model # Nowhere

(* load_embeddings reads the active version without a lock, then replaces *)
(* the vectors of all products.  --if-empty leaves a version alone that *)
(* has vectors. *)
ReadActive(ifEmpty) ==
    /\ ~(ifEmpty /\ HasActiveVectors)
    /\ activeVersion # 0 /\ embedding = 0
    /\ taggings < MaxTagging
    /\ embedding' = activeVersion
    /\ UNCHANGED <<versions, activeVersion, product, taggings, reader>>

LoadEmbeddings ==
    /\ embedding # 0
    /\ product' = [p \in ProductIds |->
          IF Absent(p) THEN product[p] ELSE [product[p] EXCEPT !.vector = TRUE]]
    /\ versions' = [versions EXCEPT ![embedding].model = "model"]
    /\ embedding' = 0
    /\ taggings' = taggings + 1
    /\ UNCHANGED <<activeVersion, reader>>

-----------------------------------------------------------------------------
(* active(), when the last poll is older than poll_ttl_s; within it the *)
(* cached pair is handed out and nothing happens. *)
PollVersion(t) ==
    /\ thread[t].at = "rest"
    /\ activeVersion # 0
    /\ thread' = [thread EXCEPT ![t] = [at |-> "polled", polled |-> activeVersion,
                                             shown |-> loaded.version]]
    /\ UNCHANGED <<database, ruled, cachedVersion, loaded, lock, rows, vectors>>

Outdated(t) == thread[t].polled # cachedVersion

MovesTo(t, at) == thread' = [thread EXCEPT ![t].at = at]

UpToDate(t) ==
    /\ thread[t].at = "polled" /\ ~Outdated(t)
    /\ MovesTo(t, "hand")
    /\ UNCHANGED <<database, ruled, cachedVersion, loaded, lock, rows, vectors>>

(* The lock, and the second look under it. *)
Acquire(t) ==
    /\ thread[t].at = "polled" /\ Outdated(t)
    /\ lock = Nowhere
    /\ lock' = t
    /\ MovesTo(t, "load")
    /\ UNCHANGED <<database, ruled, cachedVersion, loaded, rows, vectors>>

(* Mutant: the version comes from the poll, the products from the table. *)
VersionPolled(t) == thread[t].polled

(* The version is the one the rows came with, in the same statement. *)
VersionRead(t) == activeVersion

(* _ACTIVE_PRODUCTS: one statement, one snapshot.  No products: the *)
(* request fails and nothing is kept. *)
ReadProducts(t) ==
    /\ thread[t].at = "load"
    /\ IF activeVersion = 0 \/ RowsOf(activeVersion) = {}
         THEN MovesTo(t, "rest") /\ lock' = Nowhere /\ UNCHANGED rows
         ELSE /\ rows' = [version |-> VersionRead(t), rule |-> versions[VersionRead(t)].rule,
                          state |-> "none", torn |-> FALSE,
                          products |-> {[id |-> p, content |-> product[p].content,
                                         tags |-> product[p].tags] : p \in RowsOf(activeVersion)}]
              /\ MovesTo(t, "tags") /\ UNCHANGED lock
    /\ UNCHANGED <<database, ruled, cachedVersion, loaded, vectors>>

(* _tags_state, a statement of its own. *)
TagsState(v) ==
    CASE versions[v].rule = Nowhere -> "none"
      [] versions[v].rule = ruled -> "ok"
      [] OTHER -> "stale"

(* The state of the tags is read; then _products, _by_id and _version are *)
(* set, which other threads compare with what they polled ... *)
SetVersion(t) ==
    /\ thread[t].at = "tags"
    /\ rows' = [rows EXCEPT !.state = TagsState(rows.version),
                            !.torn = rows.rule # versions[rows.version].rule]
    /\ cachedVersion' = rows.version
    /\ MovesTo(t, "swap")
    /\ UNCHANGED <<database, ruled, loaded, lock, vectors>>

(* ... and then _snapshot, which they return. *)
PutInPlace(t) ==
    /\ thread[t].at = "swap"
    /\ loaded' = [version |-> rows.version, products |-> rows.products, state |-> rows.state,
                  torn |-> rows.torn]
    /\ rows' = NotRead
    /\ lock' = Nowhere
    /\ MovesTo(t, "hand")
    /\ UNCHANGED <<database, ruled, cachedVersion, vectors>>

(* The pair is read without the lock, and the request works on with it; *)
(* between the two assignments it is still the replaced one, or none, and *)
(* then the request fails. *)
Swapping == \E u \in Threads : thread[u].at = "swap"
HandOver(t) ==
    /\ thread[t].at = "hand"
    /\ thread' = [thread EXCEPT ![t] = Asleep]
    /\ UNCHANGED <<database, ruled, cachedVersion, loaded, lock, rows, vectors>>

(* A statement fails: the lock goes, the cache stays. *)
LoadFails(t) ==
    /\ thread[t].at \in {"load", "tags"}
    /\ rows' = NotRead
    /\ lock' = Nowhere
    /\ MovesTo(t, "rest")
    /\ UNCHANGED <<database, ruled, cachedVersion, loaded, vectors>>

(* DbEmbedding, at start: off unless the active version has vectors and *)
(* products have enough of them. *)
OpenVectors ==
    /\ vectors = Nowhere
    /\ vectors' = IF HasActiveVectors
                     /\ \E p \in ProductIds : ~Absent(p) /\ product[p].vector
                    THEN activeVersion ELSE 0
    /\ UNCHANGED <<database, ruled, cachedVersion, loaded, lock, rows, thread>>

ThreadStep(t) ==
    \/ PollVersion(t) \/ UpToDate(t) \/ Acquire(t) \/ ReadProducts(t) \/ SetVersion(t)
    \/ PutInPlace(t) \/ HandOver(t) \/ LoadFails(t)

LoadsNext ==
    \/ \E package \in Packages, ids \in SUBSET ProductIds, activate \in BOOLEAN :
          \/ \E ifEmpty \in BOOLEAN : LoadBundle(package, ids, activate, ifEmpty)
          \/ LoadPackage(package, ids, activate)
    \/ \E rule \in Rules, ifChanged \in BOOLEAN : LoadTags(rule, ifChanged)
    \/ \E ifEmpty \in BOOLEAN : ReadActive(ifEmpty)
    \/ LoadEmbeddings
    \/ \E t \in Threads : ThreadStep(t)
    \/ OpenVectors

LoadsSpec == LoadsInit /\ [][LoadsNext]_loadsVars

-----------------------------------------------------------------------------
LoadsTypeOK ==
    /\ activeVersion \in 0..Len(versions)
    /\ \A p \in ProductIds : product[p].package \in Packages \cup {Nowhere}
    /\ cachedVersion \in 0..MaxVersions /\ loaded.version \in 0..MaxVersions
    /\ loaded.state \in {"none", "ok", "stale"}
    /\ lock \in Threads \cup {Nowhere}
    /\ \A t \in Threads :
          thread[t].at \in {"rest", "polled", "load", "tags", "swap", "hand"}
    /\ \A t \in Threads : (thread[t].at \in {"load", "tags", "swap"}) <=> (lock = t)

(* Whatever is loaded while a request reads, the pair it is handed is not *)
(* older than the version that was active when it asked, unless another *)
(* thread is about to replace the pair: then not older than the pair that *)
(* was there when it asked.  No version comes together with the products *)
(* of a newer one ("the version is old, the products are new" of *)
(* catalog.py). *)
ServedIsOneVersion ==
    /\ \A t \in Threads : thread[t].at = "hand" =>
          loaded.version >= (IF Swapping THEN thread[t].shown ELSE thread[t].polled)
    /\ ~Inactive => \A row \in loaded.products : row.content <= loaded.version

(* Stored tags are used only where they are what the process would compute *)
(* itself for the product it serves ("the result is the same", vocab.py), *)
(* unless load_tags came between the products and the state of their tags. *)
TagsAreComputed ==
    loaded.state = "ok" /\ ~loaded.torn =>
        \A row \in loaded.products : row.tags = <<row.content, ruled>>
=============================================================================
