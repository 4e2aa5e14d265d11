------------------------------ MODULE MCParts ------------------------------
(***************************************************************************)
(* One run for the parts of the system that keep their state to            *)
(* themselves: the initial state chooses a part, and the run is a run of   *)
(* that part's specification alone.  The variables v1, v2, ... are those   *)
(* of the chosen part; the ones it has no use for stay Nil.                *)
(***************************************************************************)
EXTENDS Integers, Sequences, FiniteSets, TLC

CONSTANTS
    Parts,                      \* the parts that are run
    Nil,                        \* whatever a part has a "nothing" for
    a1, a2, a3, b1, b2,         \* processes, people, requests: interchangeable
    c1, c2, c3, d1, d2,         \* what is not interchangeable, or is one
    Idents                      \* what Search names its bindings by

VARIABLES part, v1, v2, v3, v4, v5, v6, v7, v8, v9, v10, v11, v12, v13, v14, v15, v16,
          v17, v18

Interchangeable == Permutations({a1, a2, a3}) \union Permutations({b1, b2})

Above4 == <<v5, v6, v7, v8, v9, v10, v11, v12, v13, v14, v15, v16, v17, v18>>
Above5 == <<v6, v7, v8, v9, v10, v11, v12, v13, v14, v15, v16, v17, v18>>
Above6 == <<v7, v8, v9, v10, v11, v12, v13, v14, v15, v16, v17, v18>>
Above7 == <<v8, v9, v10, v11, v12, v13, v14, v15, v16, v17, v18>>
Above9 == <<v10, v11, v12, v13, v14, v15, v16, v17, v18>>
Above10 == <<v11, v12, v13, v14, v15, v16, v17, v18>>
Above11 == <<v12, v13, v14, v15, v16, v17, v18>>
Above12 == <<v13, v14, v15, v16, v17, v18>>
Above13 == <<v14, v15, v16, v17, v18>>
Above14 == <<v15, v16, v17, v18>>

IdleAbove14 == v15 = Nil /\ v16 = Nil /\ v17 = Nil /\ v18 = Nil
IdleAbove13 == v14 = Nil /\ IdleAbove14
IdleAbove12 == v13 = Nil /\ IdleAbove13
IdleAbove11 == v12 = Nil /\ IdleAbove12
IdleAbove10 == v11 = Nil /\ IdleAbove11
IdleAbove9 == v10 = Nil /\ IdleAbove10
IdleAbove7 == v8 = Nil /\ v9 = Nil /\ IdleAbove9
IdleAbove6 == v7 = Nil /\ IdleAbove7
IdleAbove5 == v6 = Nil /\ IdleAbove6
IdleAbove4 == v5 = Nil /\ IdleAbove5

-----------------------------------------------------------------------------
(* What some parts are given. *)

(* IncrementalTags: the texts of the preference (0) and of the reviews. *)
SentTexts(pref, review, dislikes) ==
    [text |-> (0 :> pref) @@ (1 :> review), dislikes |-> dislikes]
SentInputs == {SentTexts(Nil, Nil, FALSE), SentTexts(Nil, c1, FALSE), SentTexts(c1, c2, TRUE), SentTexts(c1, Nil, TRUE)}

(* PoolSelection: four products. *)
PoolRequest == [views : {<<Nil, 1, 2, 3>>, <<2, 2, 1, 3>>},
                category : {<<1, 1, 2, 2>>, <<1, 1, 1, 2>>},
                disliked : {{}, {2}},
                rating : {[i \in 1..4 |-> IF i = k THEN s ELSE Nil] : k \in {0, 1, 3}, s \in {1, 5}},
                model : {[i \in 1..4 |-> IF i \in t THEN 1 ELSE Nil] : t \in {{}, {1, 4}}},
                unavailable : {{}, {4}},
                hit : {{}, {2}},
                penalty : BOOLEAN, s0 : {FALSE}, empty : {FALSE}]
PoolRequests ==
    LET one == CHOOSE q \in PoolRequest : TRUE
    IN  PoolRequest \union {[one EXCEPT !.s0 = TRUE], [one EXCEPT !.empty = TRUE]}

(* GiftTurns: what the recipients' profiles hold and the searches find. *)
GiftProfiles == {[categories |-> {}, tags |-> {}], [categories |-> {c1}, tags |-> {c2}]}
GiftFinds == (d1 :> {c1, c2}) @@ (d2 :> {c2})

(* SearchRequests: a query without words, and one whose order changes *)
(* when a product is gone. *)
Left(order, denied) == SelectSeq(order, LAMBDA p : p \notin denied)
Browsed(order) == [denied \in SUBSET {c1, c2, c3} |-> Left(order, denied)]
Fused(order, other) ==
    [denied \in SUBSET {c1, c2, c3} |-> Left(IF denied = {} THEN order ELSE other, denied)]
RankedBy ==
    (d1 :> <<Browsed(<<c1, c2, c3>>), Browsed(<<c2, c1, c3>>)>>) @@
    (d2 :> <<Fused(<<c1, c2, c3>>, <<c2, c1, c3>>), Fused(<<c3, c2, c1>>, <<c2, c3, c1>>)>>)

(* SearchBindings: three generations of two products, in two pages. *)
Pages == (0 :> {1, 2}) @@ (1 :> {2, 3}) @@ (2 :> {1, 3})

(* ProfilerShell: a strict process with the catalog of its database, one *)
(* with Search's, one with a pool that is too small, one with a file that *)
(* strict mode turns away and one as a superuser who is turned away. *)
ShellSetting(strict, source, pool, expects) ==
    [strict |-> strict, public |-> FALSE, source |-> source, refuse |-> FALSE,
     superuser |-> ~strict, pool |-> pool, overflow |-> 0, vectors |-> strict,
     expects |-> expects]
ShellSettings == {ShellSetting(TRUE, "db", 0, 1), ShellSetting(TRUE, "search_http", 3, 2),
                  ShellSetting(FALSE, "db", 2, 2), ShellSetting(TRUE, "file", Nil, 1),
                  [ShellSetting(FALSE, "file", Nil, 2) EXCEPT !.refuse = TRUE]}

(* TagVocabulary: a collaboration of two brands, one of them in the *)
(* vocabulary, a company that only sounds like it, and a character. *)
ShelfItem(brand, words, partner, kind, compatible) ==
    [brand |-> brand, words |-> words, partner |-> partner, kind |-> kind,
     compatible |-> compatible]
TagShelf ==
    (1 :> ShelfItem({"matin"}, {"matin", "casetify", "case"}, "casetify", "case", FALSE)) @@
    (2 :> ShelfItem({"casetify"}, {"case", "choonsik"}, Nil, "case", TRUE)) @@
    (3 :> ShelfItem({"legott"}, {"lego", "cup"}, Nil, "cup", FALSE))
TagBrandRows == <<[canon |-> "lego", names |-> {"lego", "LEGO"}, mentioned |-> {"lego"},
                   distinct |-> {"legott"}],
                  [canon |-> "casetify", names |-> {"casetify", "CASE"},
                   mentioned |-> {}, distinct |-> {}]>>
TagIpRows == {[ip |-> "kakao", character |-> "choonsik", names |-> {}, loose |-> {"con"}]}
TagGroupRows == {[name |-> "cups", aliases |-> {"mug"}, kinds |-> {"cup"}, dropped |-> {"case"},
                  words |-> {"cup"}, except |-> {}]}
TagQuestion(axis, text, p) == [tag |-> [axis |-> axis, text |-> text], product |-> p]
TagQuestions == {TagQuestion("brand", "CASE", 1), TagQuestion("brand", "CASE", 2),
                 TagQuestion("brand", "LEGO", 3), TagQuestion("brand", "matin", 1)}

-----------------------------------------------------------------------------
(* The parts. *)

(* A query on its way through Search, and the profile that is made of it. *)
Query == INSTANCE ProfileQueryProofs WITH
    (* SharedEmbedding *)
    Queries <- {b1, b2}, Callers <- {a1, a2}, QueueSize <- 1,
    CacheSize <- 1, MaxChildren <- 2, None <- Nil, cache <- v1,
    pending <- v2, queue <- v3, caller <- v4, worker <- v5, running <- v6,
    op <- v7, opQuery <- v8, result <- v9, process <- v10, buffer <- v11,
    child <- v12, stopping <- v13, closing <- v14,
    (* SearchRequests *)
    Requests <- {a1, a2}, Products <- {c1, c2, c3}, Wordings <- {d1, d2},
    Browsing <- {d1}, Generations <- {1, 2}, Ranked <- RankedBy, Limit <- 1,
    MaxActive <- 1, MaxProfile <- 1, MaxCache <- 2, MaxDeletions <- 1,
    NoRequest <- Nil, tombstones <- v1, serving <- v2, active <- v3,
    activeProfile <- v4, caches <- v5, request <- v6,
    (* QARecords *)
    Searches <- 1..4, Verdicts <- {b1, b2}, Keep <- 2, Shared <- v1,
    searches <- v2, feedback <- v3, recording <- v4, verdict <- v5,
    overtaken <- v6,
    (* RequiredRuns *)
    Workers <- {a1, a2}, Runs <- {b1, b2}, MaxTakes <- 3, MaxSends <- 2,
    NoRun <- Nil, bound <- v1, failure <- v2, job <- v3, row <- v4,
    sent <- v5, taken <- v6,
    (* IncrementalTags *)
    TagRuns <- {a1, a2}, MaxInputVersion <- 2, Reviewed <- {1}, Texts <- {c1, c2},
    LowRated <- {c2}, Names <- {c3}, Restating <- {c3},
    Editions <- {d1, d2}, V3Editions <- {}, TriedInputs <- SentInputs,
    NoText <- Nil, input <- v1, profileRow <- v2, reviews <- v3, saver <- v4,
    run <- v5,
    (* CatalogLoads *)
    Packages <- {a1, a2}, ProductIds <- {1}, Threads <- {b1, b2},
    Rules <- {c1, c2}, MaxVersions <- 2, MaxTagging <- 1, Inactive <- FALSE,
    Nowhere <- Nil, versions <- v1, activeVersion <- v2, product <- v3,
    taggings <- v4, embedding <- v5, ruled <- v6, cachedVersion <- v7, loaded <- v8, lock <- v9,
    rows <- v10, thread <- v11, vectors <- v12,
    (* TagVocabulary *)
    Shelf <- TagShelf, BrandRows <- TagBrandRows, IpRows <- TagIpRows,
    GroupRows <- TagGroupRows, Questions <- TagQuestions,
    Catalogs <- {{1, 3}, {1, 2, 3}}, Namers <- {a1, a2}, MaxComputed <- 2,
    MaxKey <- 2, NoProduct <- Nil, brands <- v1, key <- v2, computed <- v3,
    setter <- v4, naming <- v5,
    (* PoolSelection *)
    Goods <- 1..4, PoolRequests <- PoolRequests, PoolSize <- 3, CatCap <- 1,
    Unknown <- Nil, given <- v1, ranking <- v2, stage <- v3, next <- v4,
    near <- v5, picked <- v6

(* What the people in front of Chat and the console see. *)
Front == INSTANCE FrontProofs WITH
    (* GiftTurns *)
    Products <- {c1, c2}, Queries <- {d1, d2}, Profiles <- GiftProfiles,
    Pools <- {Nil, {c2}}, OnSale <- <<{c1, c2}, {c1}>>, Finds <- GiftFinds,
    MaxVersion <- 2, MaxTurns <- 2, MaxCards <- 1, None <- Nil,
    catalog <- v1, metadata <- v2, profile <- v3, kept <- v4, turn <- v5,
    asked <- v6, entered <- v7,
    (* ChatSessions *)
    Minimal <- {c1}, Trial <- {c2}, Senders <- {a1, a2, a3},
    Recipients <- {d1}, Talks <- {b1, b2}, MaxTalks <- 1, NoTalk <- Nil,
    talks <- v1, browser <- v2, visit <- v3, served <- v4,
    (* TurnStream *)
    Turns <- {c1}, Pages <- {d1}, Streams <- {a1, a2}, MaxPieces <- 2,
    QueueSize <- 1, FlushSize <- 2, StreamTotal <- 2, StreamPerTurn <- 1,
    NoStream <- Nil, model <- v1, answer <- v2, published <- v3,
    signals <- v4, slots <- v5, stream <- v6, page <- v7,
    (* ChatReports *)
    Calls <- {a1, a2}, Reports <- {1,2}, Reviews <- {c1}, Answers <- {d1},
    Conversations <- {d2}, Payloads <- {c2}, Statuses <- {c3},
    PageSize <- 1, MaxReportTime <- 1, NoReport <- Nil, reportTime <- v1,
    answered <- v2, reports <- v3, reviews <- v4, idLocks <- v5,
    filing <- v6, pages <- v7,
    (* CredentialFile *)
    Writers <- {a1, a2}, MaxRevisions <- 2, MaxDamage <- 1, NoRecord <- Nil,
    BadRecord <- c1, deployment <- v1, legacy <- v2, record <- v3,
    marker <- v4, onDisk <- v5, holder <- v6, save <- v7, written <- v8,
    confirmed <- v9, seen <- v10, calls <- v11, success <- v12,
    damage <- v13,
    (* ConsoleLogin *)
    Logins <- {a1, a2, a3}, Peers <- {b1, b2}, MaxClock <- 2,
    Window <- 2, PerPeer <- 1, AllPeers <- 2, TTL <- 2, MaxSessions <- 1,
    MaxCredential <- 2, Nobody <- Nil, clock <- v1, credential <- v2,
    attempts <- v3, slot <- v4, threads <- v5, login <- v6, sessions <- v7,
    cookie <- v8, outrun <- v9

(* Around Chat: its bridge, its page, its model, the console and the fixture. *)
Around == INSTANCE AroundChatProofs WITH
    (* StoreBridge *)
    StoreCalls <- {a1, a2}, MaxPending <- 1, MaxThreads <- 1, MaxLinks <- 2,
    bridge <- v1, call <- v2, link <- v3, worker <- v4, done <- v5,
    (* ChatPage *)
    Questions <- {a1, a2, a3}, Threads <- {b1, b2}, MaxVisits <- 2,
    Nobody <- Nil, site <- v1, errands <- v2, chat <- v3, askedIn <- v4,
    declined <- v5,
    (* ModelConnections *)
    Editors <- {a1, a2}, Endpoints <- {c1}, Keys <- {c2}, Talks <- {c3},
    MaxChanges <- 1, MaxRestarts <- 1, NoSetup <- Nil, hub <- v1,
    editor <- v2, requests <- v3, talk <- v4,
    (* ConsoleChat *)
    Sessions <- {a1, a2}, Turns <- {b1, b2}, Conversations <- {c1},
    Messages <- {"plain", "quick"}, QuickCheck <- "quick", MaxContext <- 1,
    MaxRows <- 1, Nothing <- Nil, login <- v1, rows <- v2, op <- v3,
    awaited <- v4, context <- v5, creator <- v6, accepted <- v7, late <- v8,
    sent <- v9, cancels <- v10,
    (* ProductCards *)
    Calls <- {a1, a2, a3}, Items <- {b1, b2}, MaxCards <- 1, CardTTL <- 1,
    MaxCardTime <- 2, NoCard <- Nil, cardTime <- v1, catalogued <- v2,
    cards <- v3, card <- v4,
    (* FixtureProfile *)
    SourceVersions <- {1,2}, Inputs <- {b1, b2}, Legacy <- c1,
    NoInput <- Nil, inputs <- v1, submit <- v2, committed <- v3,
    bindings <- v4, posted <- v5, delayed <- v6,
    (* FixtureLauncher *)
    Launches <- {a1, a2}, MaxWork <- 1, phase <- v1, resumes <- v2,
    directory <- v3, cluster <- v4, alive <- v5, started <- v6,
    children <- v7, ready <- v8, asked <- v9, work <- v10, missed <- v11

(* The processes and what they are started with. *)
Operations == INSTANCE OperationsProofs WITH
    (* ManagedSearch *)
    Bindings <- {c1, c2, c3}, First <- c1, Snapshots <- {b1, b2},
    Slots <- {a1, a2}, Readers <- {d1}, Refresher <- d2, QueueMax <- 1,
    None <- Nil, current <- v1, snapshot <- v2, closes <- v3, retired <- v4,
    readers <- v5, reading <- v6, paused <- v7, closing <- v8, closed <- v9,
    pending <- v10, running <- v11, queue <- v12, slot <- v13, bound <- v14,
    stage <- v15, target <- v16, candidate <- v17, shutdown <- v18,
    (* SearchBindings *)
    Generations <- {0, 1}, Items <- Pages, Clients <- {d1},
    Idents <- Idents, Calls <- {d2}, MAX_BINDINGS <- 2,
    MAX_GENERATIONS <- 1, Lease <- 1, MaxDenied <- 1, NoBinding <- Nil,
    serving <- v1, readerCount <- v2, replaced <- v3, endings <- v4,
    entries <- v5, expiring <- v6, denied <- v7, ready <- v8, call <- v9,
    client <- v10, request <- v11,
    (* ProfilerShell *)
    Settings <- ShellSettings, Versions <- {1, 2}, RunSlots <- {a1, a2},
    IoThreads <- {c1}, MaxChanges <- 3, Nothing <- Nil, db <- v1,
    shell <- v2, task <- v3, said <- v4, changes <- v5,
    (* RoleLaunch *)
    Containers <- {a1, a2}, Files <- <<"service", "runtime">>,
    Tokens <- {b1, b2}, MaxImage <- 1, MaxCleanings <- 1, Unset <- Nil,
    env <- v1, image <- v2, volume <- v3, container <- v4, cleanings <- v5,
    (* Migrations *)
    People <- {a1, a2}, Leaves <- {b1, b2}, MaxWrites <- 3, store <- v1,
    draft <- v2, job <- v3, raced <- v4, lost <- v5, written <- v6

-----------------------------------------------------------------------------
(* What the parts assume of their constants. *)
ASSUME PartsAssumption ==
    /\ Query!RequiredAssumption
    /\ Query!TagsAssumption
    /\ Query!InputsAssumption
    /\ Query!PoolAssumption
    /\ Around!HubAssumption
    /\ Around!BridgeConstants
    /\ Around!PageAssumption
    /\ Query!LoadsAssumption
    /\ Query!VocabularyAssumption
    /\ Operations!MigrationAssumption
    /\ Around!FixtureAssumption
    /\ Around!LauncherAssumption
    /\ Front!CredentialAssumption
    /\ Front!ConsoleLoginAssumption
    /\ Around!ConsoleAssumption
    /\ Query!SearchRequestsAssumption
    /\ Query!QARecordsAssumption
    /\ Around!ProductCardsAssumption
    /\ Front!GiftTurnsAssumption
    /\ Front!TurnStreamAssumption
    /\ Front!ChatReportsAssumption
    /\ Front!ChatSessionsAssumption
    /\ Operations!BindingConstants
    /\ Operations!ShellAssumption
    /\ Operations!LaunchAssumption
    /\ Query!EncoderConstants
    /\ Operations!SearchConstants

(* The parts run are named by the configuration. *)
Init ==
    /\ part \in Parts
    /\ \/ part = "runs" /\ Query!RequiredInit /\ IdleAbove6
       \/ part = "tags" /\ Query!TagsInit /\ IdleAbove5
       \/ part = "pool" /\ Query!PoolInit /\ IdleAbove6
       \/ part = "loads" /\ Query!LoadsInit /\ IdleAbove12
       \/ part = "migrations" /\ Operations!MigrationInit /\ IdleAbove6
       \/ part = "fixture" /\ Around!FixtureInit /\ IdleAbove6
       \/ part = "launcher" /\ Around!LauncherInit /\ IdleAbove11
       \/ part = "credential" /\ Front!CredentialInit /\ IdleAbove13
       \/ part = "login" /\ Front!LoginInit /\ IdleAbove9
       \/ part = "console" /\ Around!ConsoleInit /\ IdleAbove10
       \/ part = "requests" /\ Query!SearchInit /\ IdleAbove6
       \/ part = "records" /\ Query!QAInit /\ IdleAbove6
       \/ part = "cards" /\ Around!CardsInit /\ IdleAbove4
       \/ part = "gifts" /\ Front!GiftInit /\ IdleAbove7
       \/ part = "stream" /\ Front!StreamInit /\ IdleAbove7
       \/ part = "reports" /\ Front!ReportsInit /\ IdleAbove7
       \/ part = "talks" /\ Front!TalkInit /\ IdleAbove4
       \/ part = "connections" /\ Around!HubInit /\ IdleAbove4
       \/ part = "bridge" /\ Around!Init /\ IdleAbove5
       \/ part = "page" /\ Around!PageInit /\ IdleAbove5
       \/ part = "bindings" /\ Operations!BindingsInit /\ IdleAbove11
       \/ part = "shell" /\ Operations!ShellInit /\ IdleAbove5
       \/ part = "launch" /\ Operations!LaunchInit /\ IdleAbove5
       \/ part = "vocabulary" /\ Query!VocabularyInit /\ IdleAbove5
       \/ part = "embedding" /\ Query!Init /\ IdleAbove14
       \/ part = "gate" /\ Operations!Init

Next ==
    /\ UNCHANGED part
    /\ \/ part = "runs" /\ Query!RequiredNext /\ UNCHANGED Above6
       \/ part = "tags" /\ Query!TagsNext /\ UNCHANGED Above5
       \/ part = "pool" /\ Query!PoolNext /\ UNCHANGED Above6
       \/ part = "loads" /\ Query!LoadsNext /\ UNCHANGED Above12
       \/ part = "migrations" /\ Operations!MigrationNext /\ UNCHANGED Above6
       \/ part = "fixture" /\ Around!FixtureNext /\ UNCHANGED Above6
       \/ part = "launcher" /\ Around!LauncherNext /\ UNCHANGED Above11
       \/ part = "credential" /\ Front!CredentialNext /\ UNCHANGED Above13
       \/ part = "login" /\ Front!LoginNext /\ UNCHANGED Above9
       \/ part = "console" /\ Around!ConsoleNext /\ UNCHANGED Above10
       \/ part = "requests" /\ Query!SearchNext /\ UNCHANGED Above6
       \/ part = "records" /\ Query!QANext /\ UNCHANGED Above6
       \/ part = "cards" /\ Around!CardsNext /\ UNCHANGED Above4
       \/ part = "gifts" /\ Front!GiftNext /\ UNCHANGED Above7
       \/ part = "stream" /\ Front!StreamNext /\ UNCHANGED Above7
       \/ part = "reports" /\ Front!ReportsNext /\ UNCHANGED Above7
       \/ part = "talks" /\ Front!TalkNext /\ UNCHANGED Above4
       \/ part = "connections" /\ Around!HubNext /\ UNCHANGED Above4
       \/ part = "bridge" /\ Around!Next /\ UNCHANGED Above5
       \/ part = "page" /\ Around!PageNext /\ UNCHANGED Above5
       \/ part = "bindings" /\ Operations!BindingsNext /\ UNCHANGED Above11
       \/ part = "shell" /\ Operations!ShellNext /\ UNCHANGED Above5
       \/ part = "launch" /\ Operations!LaunchNext /\ UNCHANGED Above5
       \/ part = "vocabulary" /\ Query!VocabularyNext /\ UNCHANGED Above5
       \/ part = "embedding" /\ Query!Next /\ UNCHANGED Above14
       \/ part = "gate" /\ Operations!Next

(* What bounds a part beyond its constants.  ModelConnections: one request *)
(* of a page at a time.  IncrementalTags: the runs that are under way at *)
(* one time are of two versions, and the second edition comes with the *)
(* second version.  ChatReports: reports on conversations come before any *)
(* page is read.  TurnStream: a turn with a second connection has one *)
(* piece.  RoleLaunch: an environment that is not plain sees one image *)
(* without jobs. *)
OneRequest == Cardinality(v3) <= 1
TwoVersions ==
    /\ \A r \in {a1, a2} : v5[r].profile.edition = d2 => v5[r].version = 2
    /\ v5[a1].at # "rest" /\ v5[a2].at # "rest" => v5[a1].version # v5[a2].version
PagesAfterConversations ==
    \/ v7.at = "new" /\ v1 = 0
    \/ /\ \A f \in {1, 2} : v3["conversation_reports"][f] = Nil
       /\ \A q \in {a1, a2} :
             v6[q].at # "new" /\ v6[q].ask.kind = "report" => v6[q].ask.about = d1
OnePiece == v1[c1].sent > 1 => \E c \in {a1, a2} : v6[c].at = "new"
PlainEnvironment ==
    /\ v1.audit /\ v1.assets /\ ~v1.shared
    /\ \A n \in DOMAIN v1.source : ~v1.source[n].path /\ v1.source[n].value # Nil
OneQuestion == PlainEnvironment \/ (v2 = 0 /\ v5 = 0 /\ \A c \in {a1, a2} : v4[c].role # "sync")
Bounded ==
    /\ part = "launch" => OneQuestion
    /\ part = "connections" => OneRequest
    /\ part = "tags" => TwoVersions
    /\ part = "stream" => OnePiece
    /\ part = "reports" => PagesAfterConversations

vars == <<part, v1, v2, v3, v4, v5, v6, v7, v8, v9, v10, v11, v12, v13, v14, v15, v16,
          v17, v18>>
Spec == Init /\ [][Next]_vars

-----------------------------------------------------------------------------
(* The parts keep to their types, and to what else they never leave (the *)
(* holders of their locks, the sizes of their tables). *)
PartsTypeOK ==
    /\ part = "runs" => Query!RequiredTypeOK
    /\ part = "tags" => Query!TagsTypeOK
    /\ part = "pool" => Query!PoolTypeOK
    /\ part = "loads" => Query!LoadsTypeOK
    /\ part = "migrations" => Operations!MigrationTypeOK
    /\ part = "fixture" => Around!FixtureTypeOK
    /\ part = "launcher" => Around!LauncherTypeOK
    /\ part = "credential" => Front!CredentialTypeOK
    /\ part = "login" => Front!LoginTypeOK
    /\ part = "console" => Around!ConsoleTypeOK
    /\ part = "requests" => Query!SearchTypeOK
    /\ part = "records" => Query!QATypeOK
    /\ part = "cards" => Around!CardsTypeOK
    /\ part = "gifts" => Front!GiftTypeOK
    /\ part = "stream" => Front!StreamTypeOK
    /\ part = "reports" => Front!ReportsTypeOK
    /\ part = "talks" => Front!TalkTypeOK
    /\ part = "connections" => Around!HubTypeOK
    /\ part = "bridge" => Around!BridgeTypeOK
    /\ part = "page" => Around!PageTypeOK
    /\ part = "bindings" => Operations!BindingsTypeOK
    /\ part = "shell" => Operations!ShellTypeOK
    /\ part = "launch" => Operations!LaunchTypeOK
    /\ part = "vocabulary" => Query!VocabularyTypeOK
    /\ part = "embedding" => Query!TypeOK
    /\ part = "gate" => Operations!TypeOK

(* What is stored of a recipient was computed as it must be: no body *)
(* without the tags and vectors it needs (profiler_boundary.py), no tag *)
(* handed on to a version whose texts it does not rest on *)
(* (incremental.py), the reviews of the version beside it (stores.py). *)
ProfileIsVerified ==
    /\ part = "runs" => Query!RequiredExecution
    /\ part = "tags" => Query!TagsFitTheRow /\ Query!ReviewsOfVersion

(* The pool has nothing in it that must be left out, leaves out nothing *)
(* without a reason, and its order does not depend on the mode where *)
(* nobody dislikes (selection.py). *)
PoolIsRight == part = "pool" => Query!PoolIsRight /\ Query!ModesAgree

(* A request of the Profiler is served one version of the catalog, the one *)
(* it asked for or a later one, with the tags it would compute itself *)
(* (catalog.py, load_catalog.py). *)
CatalogIsWhole ==
    /\ part = "loads" => Query!ServedIsOneVersion /\ Query!TagsAreComputed
    /\ part = "vocabulary" => Query!TagsFollowBrands /\ Query!NamesMeet

(* The upgrade keeps what it drops, stamps the schema that is there, and *)
(* is held up by the data alone (migration_upgrade.py, *)
(* catalog_transition.py). *)
UpgradesAreSafe ==
    /\ part = "migrations" =>
         Operations!JobLosesNothing /\ Operations!StampIsSchema /\ Operations!HeldUpOnlyByData
    /\ part = "shell" => Operations!RollingKeepsReady /\ Operations!WaitsEnd
    /\ part = "launch" => Operations!EncoderIsTheImages /\ Operations!RolesAgree

(* The fixture gives Chat one input's context and never an older one *)
(* (integration/live_backend.py); its launcher runs one stack at a time *)
(* and cuts off no job that it could count (console/launch_fixture.py). *)
FixtureHolds ==
    /\ [](part = "fixture" => Around!OneInputContext)
    /\ [](part = "launcher" => Around!OneLaunch)
    /\ [][part = "fixture" => Around!GoesForward]_vars
    /\ [][part = "launcher" => Around!CutsNoWork]_vars

(* The provider's key: a confirmed one is neither lost nor replaced by the *)
(* deployment's or by a save that saw another (provider_key.py).  The *)
(* administrator's login: one hash at a time, so many attempts in a *)
(* window, no session of a login that a rotation outran (admin_auth.py). *)
SecretsHold ==
    /\ [](part = "credential" => Front!NoFallback /\ Front!ConfirmedSurvives)
    /\ [](part = "login" =>
             Front!OneHashAtATime /\ Front!AttemptsAreBounded /\ Front!RotationWins)
    /\ [][part = "credential" => Front!ReplacesWhatItSaw /\ Front!KeepsSuccess]_vars

(* The console sends one body for a turn, hides no accepted turn from its *)
(* login and touches no other's (console/server.py); a failed photo takes *)
(* its own card out of the cache and no other (console/products.py). *)
ConsoleHolds ==
    /\ [](part = "console" =>
             Around!OneBody /\ Around!AcceptedIsReadable /\ Around!OwnConversations)
    /\ [](part = "cards" => Around!FailedIsGone)
    /\ [][part = "cards" => Around!OthersStay]_vars

(* Search counts its requests exactly, serves nothing that was deleted *)
(* before the request, and its pages continue one another (app.py, *)
(* service.py); a saved verdict keeps its search (app.py feedback). *)
SearchHolds ==
    /\ part = "requests" =>
         Query!SlotsAreExact /\ Query!DeletedIsNotServed /\ Query!PagesContinue
    /\ part = "records" => Query!VerdictsStay

(* The encoder of Search: a query gets its own vector, and no query waits *)
(* for what nobody works on (embedding.py). *)
EncoderIsSafe ==
    part = "embedding" => Query!EncoderIsSafe

(* The gate of the Profiler: nobody uses a catalog that was closed, a *)
(* refresh has the catalog to itself, the jobs it waits for are the ones *)
(* that were admitted, a client is closed once (profiler_rebind.py). *)
GateIsSafe ==
    part = "gate" => Operations!GateIsSafe

(* The bindings of Search: readers are counted exactly, what is read is *)
(* open, a client has one generation whole (catalog_bindings.py, *)
(* reloading.py). *)
BindingsHold ==
    part = "bindings" => Operations!BindingsHold

(* An answer about gifts uses the turn's own search, keeps no private *)
(* dislike, and says of every product where it came from (gift_browse.py, *)
(* low_latency.py, integrated_harness.py). *)
GiftsHold ==
    part = "gifts" => Front!GiftsHold

(* A completed answer is whole, a page's log is its beginning, and the *)
(* streams are counted exactly (streaming.py, main.py, resource_limits *)
(* .py). *)
StreamHolds == part = "stream" => Front!StreamHolds

(* Conversations are used for their own sender alone (main.py, demo_api *)
(* .py, minimal_chat/server.py); what a report's caller was told is *)
(* stored, and turning the pages misses none (store.py). *)
SendersHold ==
    /\ part = "talks" => Front!OnlyItsSender
    /\ part = "reports" => Front!SavedIsStored /\ Front!PagesAreComplete

(* A call over the bridge ends once and truly (chat/app/bridge.py); a page *)
(* goes on and loses no question (static/chat.js); the model connection is *)
(* the one that was shown (llm_connection.py). *)
ConnectionsHold ==
    /\ [](part = "bridge" => Around!CallsEndOnce)
    /\ [](part = "page" => Around!PageKeepsItsWord)
    /\ [](part = "connections" => Around!RevisionNamesOne)
    /\ [][part = "connections" => Around!ReplacesTheShown]_vars
=============================================================================
