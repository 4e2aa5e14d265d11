---------------------------- MODULE PartsProofs ----------------------------
(***************************************************************************)
(* Proofs about the specification that the parts are checked with.  A run  *)
(* of MCParts is a run of the specification of the part it chose, whatever *)
(* constants that part is given; so what is proved of the parts, for every *)
(* value of their constants, holds of the run, without the bound and the   *)
(* symmetry that the run itself is checked with.                           *)
(***************************************************************************)
EXTENDS MCParts, TLAPS

On(p) == part = p

(* A run stays with its part. *)
LEMMA PartStays ==
  ASSUME NEW p
  PROVE  [Next]_vars /\ ~On(p) => ~On(p)'
BY DEF Next, vars, On

-----------------------------------------------------------------------------
(* A run of a part is a run of that part's specification. *)

LEMMA RunsRun == Spec => []~On("runs") \/ Query!RequiredSpec
<1>1. Init /\ On("runs") => Query!RequiredInit
  BY DEF Init, On
<1>2. [Next]_vars /\ On("runs") => [Query!RequiredNext]_(Query!requiredVars) /\ On("runs")'
  BY DEF Next, vars, On, Query!requiredVars
<1>3. [Next]_vars /\ ~On("runs") => ~On("runs")'
  BY PartStays
<1> QED BY <1>1, <1>2, <1>3, PTL DEF Spec, Query!RequiredSpec

LEMMA TagsRun == Spec => []~On("tags") \/ Query!TagsSpec
<1>1. Init /\ On("tags") => Query!TagsInit
  BY DEF Init, On
<1>2. [Next]_vars /\ On("tags") => [Query!TagsNext]_(Query!tagsVars) /\ On("tags")'
  BY DEF Next, vars, On, Query!tagsVars
<1>3. [Next]_vars /\ ~On("tags") => ~On("tags")'
  BY PartStays
<1> QED BY <1>1, <1>2, <1>3, PTL DEF Spec, Query!TagsSpec

LEMMA PoolRun == Spec => []~On("pool") \/ Query!PoolSpec
<1>1. Init /\ On("pool") => Query!PoolInit
  BY DEF Init, On
<1>2. [Next]_vars /\ On("pool") => [Query!PoolNext]_(Query!poolVars) /\ On("pool")'
  BY DEF Next, vars, On, Query!poolVars
<1>3. [Next]_vars /\ ~On("pool") => ~On("pool")'
  BY PartStays
<1> QED BY <1>1, <1>2, <1>3, PTL DEF Spec, Query!PoolSpec

LEMMA LoadsRun == Spec => []~On("loads") \/ Query!LoadsSpec
<1>1. Init /\ On("loads") => Query!LoadsInit
  BY DEF Init, On
<1>2. [Next]_vars /\ On("loads") => [Query!LoadsNext]_(Query!loadsVars) /\ On("loads")'
  BY DEF Next, vars, On, Query!loadsVars
<1>3. [Next]_vars /\ ~On("loads") => ~On("loads")'
  BY PartStays
<1> QED BY <1>1, <1>2, <1>3, PTL DEF Spec, Query!LoadsSpec

LEMMA VocabularyRun == Spec => []~On("vocabulary") \/ Query!VocabularySpec
<1>1. Init /\ On("vocabulary") => Query!VocabularyInit
  BY DEF Init, On
<1>2. [Next]_vars /\ On("vocabulary") => [Query!VocabularyNext]_(Query!tagVars) /\ On("vocabulary")'
  BY DEF Next, vars, On, Query!tagVars
<1>3. [Next]_vars /\ ~On("vocabulary") => ~On("vocabulary")'
  BY PartStays
<1> QED BY <1>1, <1>2, <1>3, PTL DEF Spec, Query!VocabularySpec

LEMMA RequestsRun == Spec => []~On("requests") \/ Query!SearchSpec
<1>1. Init /\ On("requests") => Query!SearchInit
  BY DEF Init, On
<1>2. [Next]_vars /\ On("requests") => [Query!SearchNext]_(Query!searchVars) /\ On("requests")'
  BY DEF Next, vars, On, Query!searchVars
<1>3. [Next]_vars /\ ~On("requests") => ~On("requests")'
  BY PartStays
<1> QED BY <1>1, <1>2, <1>3, PTL DEF Spec, Query!SearchSpec

LEMMA RecordsRun == Spec => []~On("records") \/ Query!QASpec
<1>1. Init /\ On("records") => Query!QAInit
  BY DEF Init, On
<1>2. [Next]_vars /\ On("records") => [Query!QANext]_(Query!qaVars) /\ On("records")'
  BY DEF Next, vars, On, Query!qaVars
<1>3. [Next]_vars /\ ~On("records") => ~On("records")'
  BY PartStays
<1> QED BY <1>1, <1>2, <1>3, PTL DEF Spec, Query!QASpec

LEMMA EmbeddingRun == Spec => []~On("embedding") \/ Query!Spec
<1>1. Init /\ On("embedding") => Query!Init
  BY DEF Init, On
<1>2. [Next]_vars /\ On("embedding") => [Query!Next]_(Query!vars) /\ On("embedding")'
  BY DEF Next, vars, On, Query!vars, Query!loopVars, Query!threadVars
<1>3. [Next]_vars /\ ~On("embedding") => ~On("embedding")'
  BY PartStays
<1> QED BY <1>1, <1>2, <1>3, PTL DEF Spec, Query!Spec

LEMMA GateRun == Spec => []~On("gate") \/ Operations!Spec
<1>1. Init /\ On("gate") => Operations!Init
  BY DEF Init, On
<1>2. [Next]_vars /\ On("gate") => [Operations!Next]_(Operations!vars) /\ On("gate")'
  BY DEF Next, vars, On, Operations!vars, Operations!gateVars, Operations!jobVars, Operations!readVars, Operations!refreshVars
<1>3. [Next]_vars /\ ~On("gate") => ~On("gate")'
  BY PartStays
<1> QED BY <1>1, <1>2, <1>3, PTL DEF Spec, Operations!Spec

LEMMA BindingsRun == Spec => []~On("bindings") \/ Operations!BindingsSpec
<1>1. Init /\ On("bindings") => Operations!BindingsInit
  BY DEF Init, On
<1>2. [Next]_vars /\ On("bindings") => [Operations!BindingsNext]_(Operations!bindingsVars) /\ On("bindings")'
  BY DEF Next, vars, On, Operations!bindingsVars
<1>3. [Next]_vars /\ ~On("bindings") => ~On("bindings")'
  BY PartStays
<1> QED BY <1>1, <1>2, <1>3, PTL DEF Spec, Operations!BindingsSpec

LEMMA ShellRun == Spec => []~On("shell") \/ Operations!ShellSpec
<1>1. Init /\ On("shell") => Operations!ShellInit
  BY DEF Init, On
<1>2. [Next]_vars /\ On("shell") => [Operations!ShellNext]_(Operations!shellVars) /\ On("shell")'
  BY DEF Next, vars, On, Operations!shellVars
<1>3. [Next]_vars /\ ~On("shell") => ~On("shell")'
  BY PartStays
<1> QED BY <1>1, <1>2, <1>3, PTL DEF Spec, Operations!ShellSpec

LEMMA LaunchRun == Spec => []~On("launch") \/ Operations!LaunchSpec
<1>1. Init /\ On("launch") => Operations!LaunchInit
  BY DEF Init, On
<1>2. [Next]_vars /\ On("launch") => [Operations!LaunchNext]_(Operations!launchVars) /\ On("launch")'
  BY DEF Next, vars, On, Operations!launchVars
<1>3. [Next]_vars /\ ~On("launch") => ~On("launch")'
  BY PartStays
<1> QED BY <1>1, <1>2, <1>3, PTL DEF Spec, Operations!LaunchSpec

LEMMA MigrationsRun == Spec => []~On("migrations") \/ Operations!MigrationSpec
<1>1. Init /\ On("migrations") => Operations!MigrationInit
  BY DEF Init, On
<1>2. [Next]_vars /\ On("migrations") => [Operations!MigrationNext]_(Operations!migrationVars) /\ On("migrations")'
  BY DEF Next, vars, On, Operations!migrationVars
<1>3. [Next]_vars /\ ~On("migrations") => ~On("migrations")'
  BY PartStays
<1> QED BY <1>1, <1>2, <1>3, PTL DEF Spec, Operations!MigrationSpec

LEMMA GiftsRun == Spec => []~On("gifts") \/ Front!GiftSpec
<1>1. Init /\ On("gifts") => Front!GiftInit
  BY DEF Init, On
<1>2. [Next]_vars /\ On("gifts") => [Front!GiftNext]_(Front!giftVars) /\ On("gifts")'
  BY DEF Next, vars, On, Front!giftVars
<1>3. [Next]_vars /\ ~On("gifts") => ~On("gifts")'
  BY PartStays
<1> QED BY <1>1, <1>2, <1>3, PTL DEF Spec, Front!GiftSpec

LEMMA StreamRun == Spec => []~On("stream") \/ Front!StreamSpec
<1>1. Init /\ On("stream") => Front!StreamInit
  BY DEF Init, On
<1>2. [Next]_vars /\ On("stream") => [Front!StreamNext]_(Front!streamVars) /\ On("stream")'
  BY DEF Next, vars, On, Front!streamVars
<1>3. [Next]_vars /\ ~On("stream") => ~On("stream")'
  BY PartStays
<1> QED BY <1>1, <1>2, <1>3, PTL DEF Spec, Front!StreamSpec

LEMMA ReportsRun == Spec => []~On("reports") \/ Front!ReportsSpec
<1>1. Init /\ On("reports") => Front!ReportsInit
  BY DEF Init, On
<1>2. [Next]_vars /\ On("reports") => [Front!ReportsNext]_(Front!reportVars) /\ On("reports")'
  BY DEF Next, vars, On, Front!reportVars
<1>3. [Next]_vars /\ ~On("reports") => ~On("reports")'
  BY PartStays
<1> QED BY <1>1, <1>2, <1>3, PTL DEF Spec, Front!ReportsSpec

LEMMA TalksRun == Spec => []~On("talks") \/ Front!TalkSpec
<1>1. Init /\ On("talks") => Front!TalkInit
  BY DEF Init, On
<1>2. [Next]_vars /\ On("talks") => [Front!TalkNext]_(Front!talkVars) /\ On("talks")'
  BY DEF Next, vars, On, Front!talkVars
<1>3. [Next]_vars /\ ~On("talks") => ~On("talks")'
  BY PartStays
<1> QED BY <1>1, <1>2, <1>3, PTL DEF Spec, Front!TalkSpec

LEMMA CredentialRun == Spec => []~On("credential") \/ Front!CredentialSpec
<1>1. Init /\ On("credential") => Front!CredentialInit
  BY DEF Init, On
<1>2. [Next]_vars /\ On("credential") => [Front!CredentialNext]_(Front!credentialVars) /\ On("credential")'
  BY DEF Next, vars, On, Front!credentialVars
<1>3. [Next]_vars /\ ~On("credential") => ~On("credential")'
  BY PartStays
<1> QED BY <1>1, <1>2, <1>3, PTL DEF Spec, Front!CredentialSpec

LEMMA LoginRun == Spec => []~On("login") \/ Front!LoginSpec
<1>1. Init /\ On("login") => Front!LoginInit
  BY DEF Init, On
<1>2. [Next]_vars /\ On("login") => [Front!LoginNext]_(Front!loginVars) /\ On("login")'
  BY DEF Next, vars, On, Front!loginVars
<1>3. [Next]_vars /\ ~On("login") => ~On("login")'
  BY PartStays
<1> QED BY <1>1, <1>2, <1>3, PTL DEF Spec, Front!LoginSpec

LEMMA ConsoleRun == Spec => []~On("console") \/ Around!ConsoleSpec
<1>1. Init /\ On("console") => Around!ConsoleInit
  BY DEF Init, On
<1>2. [Next]_vars /\ On("console") => [Around!ConsoleNext]_(Around!consoleVars) /\ On("console")'
  BY DEF Next, vars, On, Around!consoleVars
<1>3. [Next]_vars /\ ~On("console") => ~On("console")'
  BY PartStays
<1> QED BY <1>1, <1>2, <1>3, PTL DEF Spec, Around!ConsoleSpec

LEMMA CardsRun == Spec => []~On("cards") \/ Around!CardsSpec
<1>1. Init /\ On("cards") => Around!CardsInit
  BY DEF Init, On
<1>2. [Next]_vars /\ On("cards") => [Around!CardsNext]_(Around!cardVars) /\ On("cards")'
  BY DEF Next, vars, On, Around!cardVars
<1>3. [Next]_vars /\ ~On("cards") => ~On("cards")'
  BY PartStays
<1> QED BY <1>1, <1>2, <1>3, PTL DEF Spec, Around!CardsSpec

LEMMA FixtureRun == Spec => []~On("fixture") \/ Around!FixtureSpec
<1>1. Init /\ On("fixture") => Around!FixtureInit
  BY DEF Init, On
<1>2. [Next]_vars /\ On("fixture") => [Around!FixtureNext]_(Around!fixtureVars) /\ On("fixture")'
  BY DEF Next, vars, On, Around!fixtureVars
<1>3. [Next]_vars /\ ~On("fixture") => ~On("fixture")'
  BY PartStays
<1> QED BY <1>1, <1>2, <1>3, PTL DEF Spec, Around!FixtureSpec

LEMMA LauncherRun == Spec => []~On("launcher") \/ Around!LauncherSpec
<1>1. Init /\ On("launcher") => Around!LauncherInit
  BY DEF Init, On
<1>2. [Next]_vars /\ On("launcher") => [Around!LauncherNext]_(Around!launcherVars) /\ On("launcher")'
  BY DEF Next, vars, On, Around!launcherVars
<1>3. [Next]_vars /\ ~On("launcher") => ~On("launcher")'
  BY PartStays
<1> QED BY <1>1, <1>2, <1>3, PTL DEF Spec, Around!LauncherSpec

LEMMA ConnectionsRun == Spec => []~On("connections") \/ Around!HubSpec
<1>1. Init /\ On("connections") => Around!HubInit
  BY DEF Init, On
<1>2. [Next]_vars /\ On("connections") => [Around!HubNext]_(Around!hubVars) /\ On("connections")'
  BY DEF Next, vars, On, Around!hubVars
<1>3. [Next]_vars /\ ~On("connections") => ~On("connections")'
  BY PartStays
<1> QED BY <1>1, <1>2, <1>3, PTL DEF Spec, Around!HubSpec

LEMMA BridgeRun == Spec => []~On("bridge") \/ Around!BridgeSpec
<1>1. Init /\ On("bridge") => Around!Init
  BY DEF Init, On
<1>2. [Next]_vars /\ On("bridge") => [Around!Next]_(Around!bridgeVars) /\ On("bridge")'
  BY DEF Next, vars, On, Around!bridgeVars
<1>3. [Next]_vars /\ ~On("bridge") => ~On("bridge")'
  BY PartStays
<1> QED BY <1>1, <1>2, <1>3, PTL DEF Spec, Around!BridgeSpec

LEMMA PageRun == Spec => []~On("page") \/ Around!PageSpec
<1>1. Init /\ On("page") => Around!PageInit
  BY DEF Init, On
<1>2. [Next]_vars /\ On("page") => [Around!PageNext]_(Around!pageVars) /\ On("page")'
  BY DEF Next, vars, On, Around!pageVars
<1>3. [Next]_vars /\ ~On("page") => ~On("page")'
  BY PartStays
<1> QED BY <1>1, <1>2, <1>3, PTL DEF Spec, Around!PageSpec

-----------------------------------------------------------------------------
(* What the run checks in every state. *)

(* Whoever is computed, with Search there or not, from whichever version: *)
(* what is stored had the tags and vectors it needs, and its tags and *)
(* reviews are of the version beside them (profiler_boundary.py, *)
(* incremental.py, stores.py). *)
THEOREM StoredIsVerified == Spec => []ProfileIsVerified
<1>1. Query!RequiredSpec => [](Query!RequiredTypeOK /\ Query!RequiredExecution)
  BY PartsAssumption, Query!RequiredIsExecuted
<1>2. Query!TagsSpec =>
        [](Query!TagsTypeOK /\ Query!TagsFitTheRow /\ Query!ReviewsOfVersion)
  BY PartsAssumption, Query!TagsAreOfTheRow
<1>3. /\ ~On("runs") \/ Query!RequiredExecution
      /\ ~On("tags") \/ (Query!TagsFitTheRow /\ Query!ReviewsOfVersion)
      => ProfileIsVerified
  BY DEF ProfileIsVerified, On
<1> QED BY <1>1, <1>2, <1>3, RunsRun, TagsRun, PTL

(* The pool is right, for each of the requests and each mode *)
(* (selection.py). *)
THEOREM PoolStaysRight == Spec => []PoolIsRight
<1>1. Query!PoolSpec => [](Query!PoolIsRight /\ Query!ModesAgree)
  BY PartsAssumption, Query!PoolsAreRight
<1>2. ~On("pool") \/ (Query!PoolIsRight /\ Query!ModesAgree) => PoolIsRight
  BY DEF PoolIsRight, On
<1> QED BY <1>1, <1>2, PoolRun, PTL

(* Whatever is loaded, tagged and asked meanwhile: a request is served one *)
(* version with the tags of its brands (catalog.py, load_catalog.py, *)
(* vocab.py).  Every load of the run makes its version the active one. *)
THEOREM CatalogStaysWhole == Spec => []CatalogIsWhole
<1>1. Query!LoadsSpec => [](Query!ServedIsOneVersion /\ Query!TagsAreComputed)
  <2>1. Query!LoadsSpec => [](Query!ServedIsOneVersion /\ (~FALSE => Query!TagsAreComputed))
    BY PartsAssumption, Query!ServedProductsAreOfOneVersion
  <2> QED BY <2>1, PTL
<1>2. Query!VocabularySpec => [](Query!TagsFollowBrands /\ Query!NamesMeet)
  BY PartsAssumption, Query!DislikesMeetProducts
<1>3. /\ ~On("loads") \/ (Query!ServedIsOneVersion /\ Query!TagsAreComputed)
      /\ ~On("vocabulary") \/ (Query!TagsFollowBrands /\ Query!NamesMeet)
      => CatalogIsWhole
  BY DEF CatalogIsWhole, On
<1> QED BY <1>1, <1>2, <1>3, LoadsRun, VocabularyRun, PTL

(* Jobs and containers may stop anywhere: what an upgrade drops is kept, *)
(* the schema is the stamped one, only data holds an upgrade up *)
(* (migration_upgrade.py, catalog_transition.py); a shell stays ready *)
(* through the switch of the catalog (main.py), roles run one model *)
(* (entrypoint.py). *)
THEOREM UpgradesStaySafe == Spec => []UpgradesAreSafe
<1>1. Operations!MigrationSpec =>
        [](Operations!JobLosesNothing /\ Operations!StampIsSchema /\ Operations!HeldUpOnlyByData)
  BY PartsAssumption, Operations!UpgradesLoseNothing
<1>2. Operations!ShellSpec => [](Operations!RollingKeepsReady /\ Operations!WaitsEnd)
  BY PartsAssumption, Operations!ShellStandsReady
<1>3. Operations!LaunchSpec => [](Operations!EncoderIsTheImages /\ Operations!RolesAgree)
  BY PartsAssumption, Operations!LaunchedRolesAgree
<1>4. /\ \/ ~On("migrations")
         \/ Operations!JobLosesNothing /\ Operations!StampIsSchema /\ Operations!HeldUpOnlyByData
      /\ ~On("shell") \/ (Operations!RollingKeepsReady /\ Operations!WaitsEnd)
      /\ ~On("launch") \/ (Operations!EncoderIsTheImages /\ Operations!RolesAgree)
      => UpgradesAreSafe
  BY DEF UpgradesAreSafe, On
<1> QED BY <1>1, <1>2, <1>3, <1>4, MigrationsRun, ShellRun, LaunchRun, PTL

(* Requests, deletions and verdicts in any order: the slots are counted, *)
(* nothing deleted is served, pages continue, verdicts stay (app.py, *)
(* service.py). *)
THEOREM SearchesHold == Spec => []SearchHolds
<1>1. Query!SearchSpec => []Query!SlotsAreExact
  BY PartsAssumption, Query!SlotsStayExact
<1>2. Query!SearchSpec => [](Query!DeletedIsNotServed /\ Query!PagesContinue)
  BY PartsAssumption, Query!PagesStayTrue
<1>3. Query!QASpec => [](Query!QATypeOK /\ Query!VerdictsStay)
  BY PartsAssumption, Query!VerdictsAreKept
<1>4. /\ \/ ~On("requests")
         \/ Query!SlotsAreExact /\ Query!DeletedIsNotServed /\ Query!PagesContinue
      /\ ~On("records") \/ Query!VerdictsStay
      => SearchHolds
  BY DEF SearchHolds, On
<1> QED BY <1>1, <1>2, <1>3, <1>4, RequestsRun, RecordsRun, PTL

(* Callers may give up and the child may die at any point: a query gets *)
(* its own vector and waits for nothing nobody works on (embedding.py). *)
THEOREM EncoderStaysSafe == Spec => []EncoderIsSafe
<1>1. Query!Spec => []Query!EncoderIsSafe
  BY PartsAssumption, Query!VectorsAreOfTheirQueries
<1>2. ~On("embedding") \/ Query!EncoderIsSafe => EncoderIsSafe
  BY DEF EncoderIsSafe, On
<1> QED BY <1>1, <1>2, EmbeddingRun, PTL

(* Readers, jobs, refreshes and the shutdown in any order: nobody uses a *)
(* closed catalog, a refresh is alone, what it waits for is counted *)
(* (profiler_rebind.py). *)
THEOREM GateIsAlwaysSafe == Spec => []GateIsSafe
<1>1. Operations!Spec => []Operations!GateIsSafe
  BY PartsAssumption, Operations!GateStaysSafe
<1>2. ~On("gate") \/ Operations!GateIsSafe => GateIsSafe
  BY DEF GateIsSafe, On
<1> QED BY <1>1, <1>2, GateRun, PTL

(* Where there is always an identifier that nobody knows (uuid4): the *)
(* readers are counted, what is read is open, a client sees one generation *)
(* (catalog_bindings.py, reloading.py). *)
THEOREM BindingsStayWhole ==
  ASSUME ~IsFiniteSet(Idents)
  PROVE  Spec => []BindingsHold
<1>1. ~Operations!IsFiniteSet(Idents)
  BY DEF IsFiniteSet, Operations!IsFiniteSet
<1>2. Operations!BindingsSpec => []Operations!BindingsHold
  BY <1>1, PartsAssumption, Operations!BindingsAreWhole
<1>3. ~On("bindings") \/ Operations!BindingsHold => BindingsHold
  BY DEF BindingsHold, On
<1> QED BY <1>2, <1>3, BindingsRun, PTL

(* However catalogs, profiles and searches change under a turn: it keeps *)
(* to its own search, to no private dislike, and says where its products *)
(* came from (gift_browse.py, low_latency.py, integrated_harness.py). *)
THEOREM GiftAnswersStayTrue == Spec => []GiftsHold
<1>1. Front!GiftSpec => []Front!GiftsHold
  BY PartsAssumption, Front!GiftsStayTrue
<1>2. ~On("gifts") \/ Front!GiftsHold => GiftsHold
  BY DEF GiftsHold, On
<1> QED BY <1>1, <1>2, GiftsRun, PTL

(* Connections may break and slow down: an answer that is completed is *)
(* whole, a page shows its beginning, streams are counted (streaming.py, *)
(* main.py, resource_limits.py). *)
THEOREM StreamsStayTrue == Spec => []StreamHolds
<1>1. Front!StreamSpec => []Front!StreamHolds
  BY PartsAssumption, Front!ReadersSeeTheAnswer
<1>2. ~On("stream") \/ Front!StreamHolds => StreamHolds
  BY DEF StreamHolds, On
<1> QED BY <1>1, <1>2, StreamRun, PTL

(* Browsers share a server and calls a table: nobody's conversation is *)
(* used for another, what was answered is stored, pages miss nothing *)
(* (main.py, demo_api.py, minimal_chat/server.py, store.py). *)
THEOREM SendersAreServed == Spec => []SendersHold
<1>1. Front!TalkSpec => [](Front!TalkTypeOK /\ Front!OnlyItsSender)
  BY PartsAssumption, Front!TalksAreTheirSenders
<1>2. Front!ReportsSpec =>
        [](Front!ReportsTypeOK /\ Front!SavedIsStored /\ Front!PagesAreComplete)
  BY PartsAssumption, Front!ReportsAreKept
<1>3. /\ ~On("talks") \/ Front!OnlyItsSender
      /\ ~On("reports") \/ (Front!SavedIsStored /\ Front!PagesAreComplete)
      => SendersHold
  BY DEF SendersHold, On
<1> QED BY <1>1, <1>2, <1>3, TalksRun, ReportsRun, PTL

-----------------------------------------------------------------------------
(* A part's types, from the theorem about that part. *)

(* What is of a query and of a profile made of it. *)
QueryTyped ==
    /\ ~On("runs") \/ Query!RequiredTypeOK
    /\ ~On("tags") \/ Query!TagsTypeOK
    /\ ~On("pool") \/ Query!PoolTypeOK
    /\ ~On("loads") \/ Query!LoadsTypeOK
    /\ ~On("vocabulary") \/ Query!VocabularyTypeOK
    /\ ~On("requests") \/ Query!SearchTypeOK
    /\ ~On("records") \/ Query!QATypeOK
    /\ ~On("embedding") \/ Query!TypeOK

LEMMA QueryStaysTyped == Spec => []QueryTyped
<1>1. Spec => [](~On("runs") \/ Query!RequiredTypeOK)
  <2>1. Query!RequiredSpec =>
          [](Query!RequiredTypeOK /\ Query!RequiredExecution)
    BY PartsAssumption, Query!RequiredIsExecuted
  <2> QED BY <2>1, RunsRun, PTL
<1>2. Spec => [](~On("tags") \/ Query!TagsTypeOK)
  <2>1. Query!TagsSpec =>
          [](Query!TagsTypeOK /\ Query!TagsFitTheRow /\ Query!ReviewsOfVersion)
    BY PartsAssumption, Query!TagsAreOfTheRow
  <2> QED BY <2>1, TagsRun, PTL
<1>3. Spec => [](~On("pool") \/ Query!PoolTypeOK)
  <2>1. Query!PoolSpec => []Query!PoolTypeOK
    BY PartsAssumption, Query!PoolTypes
  <2> QED BY <2>1, PoolRun, PTL
<1>4. Spec => [](~On("loads") \/ Query!LoadsTypeOK)
  <2>1. Query!LoadsSpec => []Query!LoadsTypeOK
    BY PartsAssumption, Query!LoadsTypes
  <2> QED BY <2>1, LoadsRun, PTL
<1>5. Spec => [](~On("vocabulary") \/ Query!VocabularyTypeOK)
  <2>1. Query!VocabularySpec => []Query!VocabularyTypeOK
    BY PartsAssumption, Query!VocabularyTypes
  <2> QED BY <2>1, VocabularyRun, PTL
<1>6. Spec => [](~On("requests") \/ Query!SearchTypeOK)
  <2>1. Query!SearchSpec => []Query!SearchTypeOK
    BY PartsAssumption, Query!SearchTypes
  <2> QED BY <2>1, RequestsRun, PTL
<1>7. Spec => [](~On("records") \/ Query!QATypeOK)
  <2>1. Query!QASpec =>
          [](Query!QATypeOK /\ Query!VerdictsStay)
    BY PartsAssumption, Query!VerdictsAreKept
  <2> QED BY <2>1, RecordsRun, PTL
<1>8. Spec => [](~On("embedding") \/ Query!TypeOK)
  <2>1. Query!Spec => []Query!TypeOK
    BY PartsAssumption, Query!EncoderTypes
  <2> QED BY <2>1, EmbeddingRun, PTL
<1> QED BY <1>1, <1>2, <1>3, <1>4, <1>5, <1>6, <1>7, <1>8, PTL DEF QueryTyped

(* What stands in front of Chat's turns. *)
FrontTyped ==
    /\ ~On("gifts") \/ Front!GiftTypeOK
    /\ ~On("stream") \/ Front!StreamTypeOK
    /\ ~On("reports") \/ Front!ReportsTypeOK
    /\ ~On("talks") \/ Front!TalkTypeOK
    /\ ~On("credential") \/ Front!CredentialTypeOK
    /\ ~On("login") \/ Front!LoginTypeOK

LEMMA FrontStaysTyped == Spec => []FrontTyped
<1>1. Spec => [](~On("gifts") \/ Front!GiftTypeOK)
  <2>1. Front!GiftSpec => []Front!GiftTypeOK
    BY PartsAssumption, Front!GiftTypes
  <2> QED BY <2>1, GiftsRun, PTL
<1>2. Spec => [](~On("stream") \/ Front!StreamTypeOK)
  <2>1. Front!StreamSpec => []Front!StreamTypeOK
    BY PartsAssumption, Front!StreamTypes
  <2> QED BY <2>1, StreamRun, PTL
<1>3. Spec => [](~On("reports") \/ Front!ReportsTypeOK)
  <2>1. Front!ReportsSpec =>
          [](Front!ReportsTypeOK /\ Front!SavedIsStored /\ Front!PagesAreComplete)
    BY PartsAssumption, Front!ReportsAreKept
  <2> QED BY <2>1, ReportsRun, PTL
<1>4. Spec => [](~On("talks") \/ Front!TalkTypeOK)
  <2>1. Front!TalkSpec =>
          [](Front!TalkTypeOK /\ Front!OnlyItsSender)
    BY PartsAssumption, Front!TalksAreTheirSenders
  <2> QED BY <2>1, TalksRun, PTL
<1>5. Spec => [](~On("credential") \/ Front!CredentialTypeOK)
  <2>1. Front!CredentialSpec =>
          [](Front!CredentialTypeOK /\ Front!NoFallback /\ Front!ConfirmedSurvives)
    BY PartsAssumption, Front!ConfirmedForGood
  <2> QED BY <2>1, CredentialRun, PTL
<1>6. Spec => [](~On("login") \/ Front!LoginTypeOK)
  <2>1. Front!LoginSpec =>
          [](Front!LoginTypeOK /\ Front!OneHashAtATime /\ Front!AttemptsAreBounded)
    BY PartsAssumption, Front!LoginIsThrottled
  <2> QED BY <2>1, LoginRun, PTL
<1> QED BY <1>1, <1>2, <1>3, <1>4, <1>5, <1>6, PTL DEF FrontTyped

(* What stands around Chat. *)
AroundTyped ==
    /\ ~On("fixture") \/ Around!FixtureTypeOK
    /\ ~On("launcher") \/ Around!LauncherTypeOK
    /\ ~On("connections") \/ Around!HubTypeOK
    /\ ~On("bridge") \/ Around!BridgeTypeOK
    /\ ~On("page") \/ Around!PageTypeOK
    /\ ~On("console") \/ Around!ConsoleTypeOK
    /\ ~On("cards") \/ Around!CardsTypeOK

LEMMA AroundStaysTyped == Spec => []AroundTyped
<1>1. Spec => [](~On("fixture") \/ Around!FixtureTypeOK)
  <2>1. Around!FixtureSpec => [](Around!FixtureTypeOK /\ Around!OneInputContext)
                                /\ [][Around!GoesForward]_(Around!fixtureVars)
    BY PartsAssumption, Around!ContextsAreOfOneInput DEF Around!ContextForward
  <2> QED BY <2>1, FixtureRun, PTL
<1>2. Spec => [](~On("launcher") \/ Around!LauncherTypeOK)
  <2>1. Around!LauncherSpec => []Around!LauncherTypeOK
    BY PartsAssumption, Around!LauncherTypes
  <2> QED BY <2>1, LauncherRun, PTL
<1>3. Spec => [](~On("connections") \/ Around!HubTypeOK)
  <2>1. Around!HubSpec => []Around!HubTypeOK
    BY PartsAssumption, Around!HubTypes
  <2> QED BY <2>1, ConnectionsRun, PTL
<1>4. Spec => [](~On("bridge") \/ Around!BridgeTypeOK)
  <2>1. Around!BridgeSpec => []Around!BridgeTypeOK
    BY PartsAssumption, Around!BridgeTypes
  <2> QED BY <2>1, BridgeRun, PTL
<1>5. Spec => [](~On("page") \/ Around!PageTypeOK)
  <2>1. Around!PageSpec => []Around!PageTypeOK
    BY PartsAssumption, Around!PageTypes
  <2> QED BY <2>1, PageRun, PTL
<1>6. Spec => [](~On("console") \/ Around!ConsoleTypeOK)
  <2>1. Around!ConsoleSpec =>
          [](Around!ConsoleTypeOK /\ Around!OneBody /\ Around!AcceptedIsReadable
             /\ Around!OwnConversations)
    BY PartsAssumption, Around!ConsoleKeepsItsTurns
  <2> QED BY <2>1, ConsoleRun, PTL
<1>7. Spec => [](~On("cards") \/ Around!CardsTypeOK)
  <2>1. Around!CardsSpec => /\ []Around!CardsTypeOK /\ []Around!FailedIsGone
                              /\ [][Around!OthersStay]_(Around!cardVars)
    BY PartsAssumption, Around!FailedCardsAreDropped DEF Around!FailedCardsGo
  <2> QED BY <2>1, CardsRun, PTL
<1> QED BY <1>1, <1>2, <1>3, <1>4, <1>5, <1>6, <1>7, PTL DEF AroundTyped

(* What runs beside the services. *)
OperationsTyped ==
    /\ ~On("gate") \/ Operations!TypeOK
    /\ ~On("bindings") \/ Operations!BindingsTypeOK
    /\ ~On("shell") \/ Operations!ShellTypeOK
    /\ ~On("launch") \/ Operations!LaunchTypeOK
    /\ ~On("migrations") \/ Operations!MigrationTypeOK

LEMMA OperationsStayTyped ==
  ASSUME ~IsFiniteSet(Idents)
  PROVE  Spec => []OperationsTyped
<1>1. Spec => [](~On("gate") \/ Operations!TypeOK)
  <2>1. Operations!Spec => []Operations!TypeOK
    BY PartsAssumption, Operations!GateTypes
  <2> QED BY <2>1, GateRun, PTL
<1>2. Spec => [](~On("bindings") \/ Operations!BindingsTypeOK)
  <2>1. ~Operations!IsFiniteSet(Idents)
    BY DEF IsFiniteSet, Operations!IsFiniteSet
  <2>2. Operations!BindingsSpec => []Operations!BindingsTypeOK
    BY <2>1, PartsAssumption, Operations!BindingTypes
  <2> QED BY <2>2, BindingsRun, PTL
<1>3. Spec => [](~On("shell") \/ Operations!ShellTypeOK)
  <2>1. Operations!ShellSpec => []Operations!ShellTypeOK
    BY PartsAssumption, Operations!ShellTypes
  <2> QED BY <2>1, ShellRun, PTL
<1>4. Spec => [](~On("launch") \/ Operations!LaunchTypeOK)
  <2>1. Operations!LaunchSpec => []Operations!LaunchTypeOK
    BY PartsAssumption, Operations!LaunchTypes
  <2> QED BY <2>1, LaunchRun, PTL
<1>5. Spec => [](~On("migrations") \/ Operations!MigrationTypeOK)
  <2>1. Operations!MigrationSpec => []Operations!MigrationTypeOK
    BY PartsAssumption, Operations!MigrationTypes
  <2> QED BY <2>1, MigrationsRun, PTL
<1> QED BY <1>1, <1>2, <1>3, <1>4, <1>5, PTL DEF OperationsTyped

(* Whichever part is run, and whatever constants it is given: its state *)
(* keeps to its types, and its locks, tables and slots to what is written *)
(* with them. *)
THEOREM PartsStayTyped ==
  ASSUME ~IsFiniteSet(Idents)
  PROVE  Spec => []PartsTypeOK
<1>1. QueryTyped /\ FrontTyped /\ AroundTyped /\ OperationsTyped => PartsTypeOK
  BY DEF QueryTyped, FrontTyped, AroundTyped, OperationsTyped, PartsTypeOK, On
<1> QED BY <1>1, QueryStaysTyped, FrontStaysTyped, AroundStaysTyped, OperationsStayTyped, PTL

-----------------------------------------------------------------------------
(* What the run checks of its steps, too.  A step that leaves the chosen *)
(* part as it is, is no step. *)

(* Jobs of several inputs, late deliveries, launches that are killed: Chat *)
(* gets one input's context and never goes back, one stack runs, no job is *)
(* cut off but those that could not be counted when the launcher looked *)
(* (integration/live_backend.py, console/launch_fixture.py). *)
THEOREM FixtureStands == Spec => FixtureHolds
<1>1. Around!FixtureSpec => [](Around!FixtureTypeOK /\ Around!OneInputContext)
                            /\ [][Around!GoesForward]_(Around!fixtureVars)
  BY PartsAssumption, Around!ContextsAreOfOneInput DEF Around!ContextForward
<1>2. Around!LauncherSpec =>
        []Around!OneLaunch /\ [][Around!CutsNoWork]_(Around!launcherVars)
  BY Around!OneLaunchAtATime DEF Around!NoWorkCut
<1>3. /\ ~On("fixture") \/ Around!OneInputContext => (part = "fixture" => Around!OneInputContext)
      /\ ~On("launcher") \/ Around!OneLaunch => (part = "launcher" => Around!OneLaunch)
  BY DEF On
<1>4. [Next]_vars /\ (~On("fixture") \/ [Around!GoesForward]_(Around!fixtureVars))
        => [part = "fixture" => Around!GoesForward]_vars
  BY DEF Next, vars, On, Above6, Around!fixtureVars
<1>5. [Next]_vars /\ (~On("launcher") \/ [Around!CutsNoWork]_(Around!launcherVars))
        => [part = "launcher" => Around!CutsNoWork]_vars
  BY DEF Next, vars, On, Above11, Around!launcherVars
<1> QED BY <1>1, <1>2, <1>3, <1>4, <1>5, FixtureRun, LauncherRun, PTL DEF Spec, FixtureHolds

(* Saves, crashes, damage, logins and rotations in any order *)
(* (provider_key.py, admin_auth.py). *)
THEOREM SecretsStay == Spec => SecretsHold
<1>1. Front!CredentialSpec =>
        [](Front!CredentialTypeOK /\ Front!NoFallback /\ Front!ConfirmedSurvives)
  BY PartsAssumption, Front!ConfirmedForGood
<1>2. Front!CredentialSpec =>
        /\ [][Front!ReplacesWhatItSaw]_(Front!credentialVars)
        /\ [][Front!KeepsSuccess]_(Front!credentialVars)
  BY PartsAssumption, Front!SavesReplaceTheShown DEF Front!NoLostUpdate, Front!SuccessStays
<1>3. Front!LoginSpec =>
        [](Front!LoginTypeOK /\ Front!OneHashAtATime /\ Front!AttemptsAreBounded)
  BY PartsAssumption, Front!LoginIsThrottled
<1>4. Front!LoginSpec => []Front!RotationWins
  BY PartsAssumption, Front!RotationWinsOverLogins
<1>5. /\ ~On("credential") \/ (Front!NoFallback /\ Front!ConfirmedSurvives)
           => (part = "credential" => Front!NoFallback /\ Front!ConfirmedSurvives)
      /\ ~On("login") \/ (/\ Front!OneHashAtATime /\ Front!AttemptsAreBounded
                          /\ Front!RotationWins)
           => (part = "login" =>
                 Front!OneHashAtATime /\ Front!AttemptsAreBounded /\ Front!RotationWins)
  BY DEF On
<1>6. [Next]_vars /\ (\/ ~On("credential")
                      \/ /\ [Front!ReplacesWhatItSaw]_(Front!credentialVars)
                         /\ [Front!KeepsSuccess]_(Front!credentialVars))
        => [part = "credential" => Front!ReplacesWhatItSaw /\ Front!KeepsSuccess]_vars
  BY DEF Next, vars, On, Above13, Front!credentialVars
<1> QED BY <1>1, <1>2, <1>3, <1>4, <1>5, <1>6, CredentialRun, LoginRun, PTL
        DEF Spec, SecretsHold

(* Whatever is sent twice, lost or late: one body for a turn, accepted *)
(* turns readable to their login alone (console/server.py), and a failed *)
(* photo takes its own card only (console/products.py). *)
THEOREM ConsoleStands == Spec => ConsoleHolds
<1>1. Around!ConsoleSpec =>
        [](Around!ConsoleTypeOK /\ Around!OneBody /\ Around!AcceptedIsReadable
             /\ Around!OwnConversations)
  BY PartsAssumption, Around!ConsoleKeepsItsTurns
<1>2. Around!CardsSpec => /\ []Around!CardsTypeOK /\ []Around!FailedIsGone
                          /\ [][Around!OthersStay]_(Around!cardVars)
  BY PartsAssumption, Around!FailedCardsAreDropped DEF Around!FailedCardsGo
<1>3. /\ ~On("console") \/ (Around!OneBody /\ Around!AcceptedIsReadable /\ Around!OwnConversations)
           => (part = "console" =>
                 Around!OneBody /\ Around!AcceptedIsReadable /\ Around!OwnConversations)
      /\ ~On("cards") \/ Around!FailedIsGone => (part = "cards" => Around!FailedIsGone)
  BY DEF On
<1>4. [Next]_vars /\ (~On("cards") \/ [Around!OthersStay]_(Around!cardVars))
        => [part = "cards" => Around!OthersStay]_vars
  BY DEF Next, vars, On, Above4, Around!cardVars
<1> QED BY <1>1, <1>2, <1>3, <1>4, ConsoleRun, CardsRun, PTL DEF Spec, ConsoleHolds

(* Links break, threads and pages end, administrators race: a call ends *)
(* once and truly (chat/app/bridge.py), a page loses no question *)
(* (static/chat.js), the connection is the one that was shown *)
(* (llm_connection.py). *)
THEOREM ConnectionsStand == Spec => ConnectionsHold
<1>1. Around!BridgeSpec => []Around!CallsEndOnce
  BY PartsAssumption, Around!CallsAreTrue
<1>2. Around!PageSpec => []Around!PageKeepsItsWord
  BY PartsAssumption, Around!PageKeepsQuestions
<1>3. Around!HubSpec =>
        []Around!RevisionNamesOne /\ [][Around!ReplacesTheShown]_(Around!hubVars)
  BY PartsAssumption, Around!ConnectionsAreShown DEF Around!ConnectionsAreAsShown
<1>4. /\ ~On("bridge") \/ Around!CallsEndOnce => (part = "bridge" => Around!CallsEndOnce)
      /\ ~On("page") \/ Around!PageKeepsItsWord => (part = "page" => Around!PageKeepsItsWord)
      /\ ~On("connections") \/ Around!RevisionNamesOne
           => (part = "connections" => Around!RevisionNamesOne)
  BY DEF On
<1>5. [Next]_vars /\ (~On("connections") \/ [Around!ReplacesTheShown]_(Around!hubVars))
        => [part = "connections" => Around!ReplacesTheShown]_vars
  BY DEF Next, vars, On, Above4, Around!hubVars
<1> QED BY <1>1, <1>2, <1>3, <1>4, <1>5, BridgeRun, PageRun, ConnectionsRun, PTL
        DEF Spec, ConnectionsHold
=============================================================================
