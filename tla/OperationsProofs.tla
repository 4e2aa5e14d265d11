-------------------------- MODULE OperationsProofs --------------------------
(***************************************************************************)
(* Proofs about how the services are started, upgraded and refreshed.      *)
(*                                                                         *)
(* The gate of ManagedSearch, for every number of bindings, generations,   *)
(* worker threads and readers: no client of the catalog is closed in use   *)
(* or twice, a refresh is alone, and pending is exact.                     *)
(*                                                                         *)
(* The bindings of SearchBindings, which those clients hold, for every     *)
(* number of generations, clients, calls and products, every limit and     *)
(* every lease.  Identifiers of bindings are uuid4, so that there is       *)
(* always one nobody knows: Idents is infinite.                            *)
(*                                                                         *)
(* The shell of the Profiler (ProfilerShell), the launcher of the          *)
(* containers (RoleLaunch) and the migrations of the database (Migrations) *)
(* for every setting, pool, image, volume, recipient and category.         *)
(***************************************************************************)
EXTENDS ManagedSearch, SearchBindings, ProfilerShell, RoleLaunch, Migrations,
        FiniteSetTheorems, TLAPS

(* The threads that read a binding; the workers with a job in hand, and *)
(* those inside _run. *)
ReadersOf(b) == {t \in Threads : reading[t] = b}
BusySlots == {s \in Slots : Busy(s)}
RunningSlots == {s \in Slots : slot[s] = "running"}

(* A reader reads a binding that is open, and is either the current one or *)
(* one that waits in `retired` for its last reader. *)
ReadersCounted == \A b \in Bindings : readers[b] = Cardinality(ReadersOf(b))

ReadsInPlace ==
  \A t \in Threads : reading[t] # None => Open(reading[t]) /\ reading[t] \in retired \cup {current}

RetiredOpen == \A b \in retired : Open(b)

UnmadeUntouched == \A b \in Bindings : ~Made(b) => closes[b] = 0

(* The current binding is given up once, by Close or by the end of the *)
(* last job after it. *)
CurrentKept ==
  /\ Made(current)
  /\ ~closed \/ running > 0 => closes[current] = 0 /\ current \notin retired

(* Only refresh() knows its candidate. *)
CandidateApart ==
  /\ stage \in {"validate", "swap"} => candidate # None
  /\ candidate # None =>
       /\ stage \in {"validate", "swap", "end"}
       /\ Open(candidate) /\ candidate # current /\ candidate \notin retired

JobsCounted ==
  /\ running = Cardinality(RunningSlots)
  /\ pending >= Len(queue) + Cardinality(BusySlots)
  /\ ~closing => pending = Len(queue) + Cardinality(BusySlots)

(* How far a shutdown has come. *)
ShutdownAt ==
  /\ closing <=> shutdown # "no"
  /\ closed <=> shutdown = "done"
  /\ closing => paused
  /\ shutdown \in {"emptied", "stopped", "done"} => queue = <<>>
  /\ shutdown \in {"stopped", "done"} => \A s \in Slots : slot[s] # "taken"

RefresherReads == reading[Refresher] # None => stage = "check"

CatalogInv ==
  /\ ReadersCounted /\ ReadsInPlace /\ RefresherReads
  /\ RetiredOpen /\ UnmadeUntouched /\ ClosedOnce
  /\ CurrentKept /\ CandidateApart

JobInv == RefreshAlone /\ JobsCounted /\ ShutdownAt

GateInv == TypeOK /\ CatalogInv /\ JobInv

----------------------------------------------------------------------------
(* Counting. *)

LEMMA FewThreads ==
  ASSUME SearchConstants
  PROVE  /\ IsFiniteSet(Threads)
         /\ \A b : IsFiniteSet(ReadersOf(b))
         /\ IsFiniteSet(BusySlots) /\ IsFiniteSet(RunningSlots)
<1>1. IsFiniteSet(Slots) /\ IsFiniteSet(Readers) /\ IsFiniteSet({Refresher})
  BY FS_Singleton DEF SearchConstants
<1>2. IsFiniteSet(Slots \cup Readers)
  BY <1>1, FS_Union
<1>3. IsFiniteSet(Threads)
  BY <1>1, <1>2, FS_Union DEF Threads
<1>4. ASSUME NEW b PROVE IsFiniteSet(ReadersOf(b))
  <2>1. ReadersOf(b) \in SUBSET Threads
    BY DEF ReadersOf
  <2> QED BY <1>3, <2>1, FS_Subset
<1>5. BusySlots \in SUBSET Slots /\ RunningSlots \in SUBSET Slots
  BY DEF BusySlots, RunningSlots
<1>6. IsFiniteSet(BusySlots) /\ IsFiniteSet(RunningSlots)
  BY <1>1, <1>5, FS_Subset
<1> QED BY <1>3, <1>4, <1>6

(* A binding without readers is read by nobody. *)
LEMMA NobodyReads ==
  ASSUME SearchConstants, NEW b, Cardinality(ReadersOf(b)) = 0
  PROVE  \A t \in Threads : reading[t] # b
<1>1. ReadersOf(b) = {}
  BY FewThreads, FS_EmptySet
<1> QED BY <1>1 DEF ReadersOf

(* One more reader of b, or one less of what t read. *)
LEMMA BorrowCounted ==
  ASSUME SearchConstants, TypeOK, ReadersCounted,
         NEW t \in Threads, NEW b \in Bindings, reading[t] = None, Borrow(t, b)
  PROVE  /\ ReadersCounted'
         /\ reading' \in [Threads -> Bindings \cup {None}]
         /\ readers' \in [Bindings -> Nat]
<1>1. /\ reading \in [Threads -> Bindings \cup {None}] /\ readers \in [Bindings -> Nat]
      /\ reading' = [reading EXCEPT ![t] = b] /\ readers' = [readers EXCEPT ![b] = @ + 1]
      /\ None \notin Bindings
  BY DEF TypeOK, Borrow, SearchConstants
<1>2. ASSUME NEW c \in Bindings PROVE readers'[c] = Cardinality(ReadersOf(c)')
  <2>1. IsFiniteSet(ReadersOf(c)) /\ readers[c] = Cardinality(ReadersOf(c))
    BY FewThreads DEF ReadersCounted
  <2>2. CASE c = b
    <3>1. ReadersOf(c)' = ReadersOf(c) \cup {t} /\ t \notin ReadersOf(c)
      BY <1>1, <2>2 DEF ReadersOf
    <3>2. Cardinality(ReadersOf(c) \cup {t}) = Cardinality(ReadersOf(c)) + 1
      BY <2>1, <3>1, FS_AddElement
    <3> QED BY <1>1, <2>1, <2>2, <3>1, <3>2
  <2>3. CASE c # b
    <3>1. ReadersOf(c)' = ReadersOf(c)
      BY <1>1, <2>3 DEF ReadersOf
    <3> QED BY <1>1, <2>1, <2>3, <3>1
  <2> QED BY <2>2, <2>3
<1> QED BY <1>1, <1>2 DEF ReadersCounted

LEMMA ReturnCounted ==
  ASSUME SearchConstants, TypeOK, ReadersCounted, NEW t \in Threads, Return(t)
  PROVE  /\ ReadersCounted'
         /\ reading' \in [Threads -> Bindings \cup {None}]
         /\ readers' \in [Bindings -> Nat]
<1> DEFINE b == reading[t]
<1>1. /\ reading \in [Threads -> Bindings \cup {None}] /\ readers \in [Bindings -> Nat]
      /\ b \in Bindings
      /\ reading' = [reading EXCEPT ![t] = None] /\ readers' = [readers EXCEPT ![b] = @ - 1]
      /\ None \notin Bindings
  BY DEF TypeOK, Return, SearchConstants
<1>2. ASSUME NEW c \in Bindings
      PROVE  readers'[c] \in Nat /\ readers'[c] = Cardinality(ReadersOf(c)')
  <2>1. IsFiniteSet(ReadersOf(c)) /\ readers[c] = Cardinality(ReadersOf(c))
    BY FewThreads DEF ReadersCounted
  <2>2. CASE c = b
    <3>1. ReadersOf(c)' = ReadersOf(c) \ {t} /\ t \in ReadersOf(c)
      BY <1>1, <2>2 DEF ReadersOf
    <3>2. IsFiniteSet(ReadersOf(c) \ {t})
          /\ Cardinality(ReadersOf(c) \ {t}) = Cardinality(ReadersOf(c)) - 1
      BY <2>1, <3>1, FS_RemoveElement
    <3>3. Cardinality(ReadersOf(c) \ {t}) \in Nat
      BY <3>2, FS_CardinalityType
    <3> QED BY <1>1, <2>1, <2>2, <3>1, <3>2, <3>3
  <2>3. CASE c # b
    <3>1. ReadersOf(c)' = ReadersOf(c)
      BY <1>1, <2>3 DEF ReadersOf
    <3> QED BY <1>1, <2>1, <2>3, <3>1
  <2> QED BY <2>2, <2>3
<1>3. readers' \in [Bindings -> Nat]
  BY <1>1, <1>2
<1> QED BY <1>1, <1>2, <1>3 DEF ReadersCounted

LEMMA SameReaders ==
  ASSUME ReadersCounted, UNCHANGED readVars
  PROVE  ReadersCounted'
<1>1. reading' = reading /\ readers' = readers
  BY DEF readVars
<1>2. ASSUME NEW b \in Bindings PROVE ReadersOf(b)' = ReadersOf(b)
  BY <1>1 DEF ReadersOf
<1> QED BY <1>1, <1>2 DEF ReadersCounted

(* What _retire_ready does with the bindings given up, R: at most b is *)
(* taken out and closed, if nobody reads it. *)
LEMMA RetiredOrClosed ==
  ASSUME TypeOK, UnmadeUntouched, ClosedOnce, UNCHANGED snapshot,
         NEW b \in Bindings, NEW R \in SUBSET Bindings, \A c \in R : Open(c),
         NEW n, RetireReady(b, R, n)
  PROVE  /\ retired' \in SUBSET R /\ closes' \in [Bindings -> Nat]
         /\ RetiredOpen' /\ UnmadeUntouched' /\ ClosedOnce'
         /\ \A c \in R : c \in retired' \/ (c = b /\ n[b] = 0)
         /\ \A c \in Bindings : closes'[c] # closes[c] => c = b /\ b \in R /\ n[b] = 0
<1>1. closes \in [Bindings -> Nat]
  BY DEF TypeOK
<1>2. CASE b \in R /\ n[b] = 0
  <2>1. retired' = R \ {b} /\ closes' = [closes EXCEPT ![b] = @ + 1]
    BY <1>2 DEF RetireReady
  <2> QED BY <1>1, <1>2, <2>1 DEF RetiredOpen, UnmadeUntouched, ClosedOnce, Open, Made
<1>3. CASE ~(b \in R /\ n[b] = 0)
  <2>1. retired' = R /\ closes' = closes
    BY <1>3 DEF RetireReady
  <2> QED BY <1>1, <2>1 DEF RetiredOpen, UnmadeUntouched, ClosedOnce, Open, Made
<1> QED BY <1>2, <1>3

----------------------------------------------------------------------------
(* Steps that read. *)

LEMMA SameJobs ==
  ASSUME JobInv, UNCHANGED <<current, gateVars, jobVars, shutdown, stage>>
  PROVE  JobInv'
BY DEF JobInv, RefreshAlone, JobsCounted, ShutdownAt, BusySlots, RunningSlots, Busy,
       gateVars, jobVars

(* A borrowed binding is the current one, while it is kept. *)
LEMMA StepBorrow ==
  ASSUME SearchConstants, GateInv, NEW t \in Threads, reading[t] = None,
         ~closed \/ running > 0, Borrow(t, current), t = Refresher => stage' = "check",
         stage \in RefreshStages, stage' \in RefreshStages,
         stage \in {"check", "validate", "swap", "end"} => stage' = stage,
         stage' \in {"validate", "swap"} => stage = stage',
         UNCHANGED <<current, snapshot, closes, retired, gateVars, jobVars, target, candidate, shutdown>>
  PROVE  TypeOK' /\ CatalogInv'
<1>1. TypeOK /\ CatalogInv /\ current \in Bindings /\ None \notin Bindings
  BY DEF GateInv, TypeOK, SearchConstants
<1>2. /\ ReadersCounted'
      /\ reading' \in [Threads -> Bindings \cup {None}] /\ readers' \in [Bindings -> Nat]
  BY <1>1, BorrowCounted DEF CatalogInv
<1>3. TypeOK'
  BY <1>1, <1>2 DEF TypeOK, gateVars, jobVars
<1>4. Open(current)
  BY <1>1 DEF CatalogInv, CurrentKept, Open
<1>5. reading \in [Threads -> Bindings \cup {None}] /\ reading' = [reading EXCEPT ![t] = current]
  BY <1>1 DEF TypeOK, Borrow
<1>6. ReadsInPlace'
  BY <1>1, <1>4, <1>5 DEF CatalogInv, ReadsInPlace, Open, Made
<1>7. RefresherReads'
  BY <1>1, <1>5 DEF CatalogInv, RefresherReads
<1>8. RetiredOpen' /\ UnmadeUntouched' /\ ClosedOnce' /\ CurrentKept'
  BY <1>1 DEF CatalogInv, RetiredOpen, UnmadeUntouched, ClosedOnce, CurrentKept, Open, Made,
              gateVars, jobVars
<1>9. CandidateApart'
  BY <1>1 DEF CatalogInv, CandidateApart, Open, Made
<1> QED BY <1>2, <1>3, <1>6, <1>7, <1>8, <1>9 DEF CatalogInv

LEMMA StepRead ==
  ASSUME SearchConstants, GateInv, NEW t \in Readers, NEW admission \in BOOLEAN,
         Read(t, admission)
  PROVE  GateInv'
<1>1. t \in Threads /\ t # Refresher
  BY DEF Threads, SearchConstants
<1>2. /\ reading[t] = None /\ ~closed /\ Borrow(t, current)
      /\ UNCHANGED <<current, snapshot, closes, retired, gateVars, jobVars, shutdown>>
      /\ UNCHANGED <<stage, target, candidate>>
      /\ stage \in RefreshStages
  BY DEF Read, refreshVars, GateInv, TypeOK
<1>3. TypeOK' /\ CatalogInv'
  BY <1>1, <1>2, StepBorrow
<1>4. JobInv'
  BY <1>2, SameJobs DEF GateInv
<1> QED BY <1>3, <1>4 DEF GateInv

LEMMA StepJobRead ==
  ASSUME SearchConstants, GateInv, NEW s \in Slots, JobRead(s)
  PROVE  GateInv'
<1>1. s \in Threads /\ s # Refresher
  BY DEF Threads, SearchConstants
<1>2. /\ reading[s] = None /\ bound[s] = current /\ Borrow(s, current)
      /\ UNCHANGED <<current, snapshot, closes, retired, gateVars, jobVars, shutdown>>
      /\ UNCHANGED <<stage, target, candidate>>
      /\ stage \in RefreshStages
  BY DEF JobRead, refreshVars, GateInv, TypeOK, JobInv, RefreshAlone, Busy
<1>3. running > 0
  <2>1. s \in RunningSlots /\ IsFiniteSet(RunningSlots)
    BY FewThreads DEF JobRead, RunningSlots
  <2>2. Cardinality(RunningSlots) # 0 /\ Cardinality(RunningSlots) \in Nat
    BY <2>1, FS_EmptySet, FS_CardinalityType
  <2> QED BY <2>2 DEF GateInv, JobInv, JobsCounted
<1>4. TypeOK' /\ CatalogInv'
  BY <1>1, <1>2, <1>3, StepBorrow
<1>5. JobInv'
  BY <1>2, SameJobs DEF GateInv
<1> QED BY <1>4, <1>5 DEF GateInv

(* Whoever is done with a binding may be its last reader: it is closed if *)
(* it was given up, and then nobody reads it. *)
LEMMA StepReturn ==
  ASSUME SearchConstants, GateInv, NEW t \in Threads, Return(t),
         t = Refresher \/ (t # Refresher /\ UNCHANGED stage),
         stage' \in RefreshStages, stage' \notin {"validate", "swap"} \/ UNCHANGED stage,
         candidate # None => UNCHANGED stage,
         UNCHANGED <<current, snapshot, gateVars, jobVars, target, candidate, shutdown>>
  PROVE  TypeOK' /\ CatalogInv'
<1> PICK b \in Bindings : b = reading[t]
  BY DEF GateInv, TypeOK, Return
<1>1. /\ TypeOK /\ CatalogInv /\ None \notin Bindings /\ b = reading[t]
      /\ RetireReady(b, retired, readers') /\ retired \in SUBSET Bindings
  BY DEF GateInv, TypeOK, SearchConstants, Return
<1>2. /\ ReadersCounted'
      /\ reading' \in [Threads -> Bindings \cup {None}] /\ readers' \in [Bindings -> Nat]
  BY <1>1, ReturnCounted DEF CatalogInv
<1>3. reading \in [Threads -> Bindings \cup {None}] /\ reading' = [reading EXCEPT ![t] = None]
  BY <1>1 DEF TypeOK, Return
<1>4. /\ retired' \in SUBSET retired /\ closes' \in [Bindings -> Nat]
      /\ RetiredOpen' /\ UnmadeUntouched' /\ ClosedOnce'
      /\ \A c \in retired : c \in retired' \/ (c = b /\ readers'[b] = 0)
      /\ \A c \in Bindings : closes'[c] # closes[c] => c = b /\ b \in retired /\ readers'[b] = 0
  BY <1>1, RetiredOrClosed DEF CatalogInv, RetiredOpen
<1>5. TypeOK'
  BY <1>1, <1>2, <1>4 DEF TypeOK, gateVars, jobVars
<1>6. readers'[b] = 0 => \A u \in Threads : reading'[u] # b
  <2>1. ASSUME readers'[b] = 0 PROVE Cardinality(ReadersOf(b)') = 0
    BY <1>1, <1>2, <2>1 DEF ReadersCounted
  <2>2. IsFiniteSet(ReadersOf(b)')
    <3>1. IsFiniteSet(Threads) /\ ReadersOf(b)' \in SUBSET Threads
      BY FewThreads DEF ReadersOf
    <3> QED BY <3>1, FS_Subset
  <2>3. ASSUME readers'[b] = 0 PROVE ReadersOf(b)' = {}
    BY <2>1, <2>2, <2>3, FS_EmptySet
  <2> QED BY <2>3 DEF ReadersOf
<1>7. ReadsInPlace'
  <2> SUFFICES ASSUME NEW u \in Threads, reading'[u] # None
               PROVE  Open(reading[u])' /\ reading'[u] \in retired' \cup {current'}
    BY DEF ReadsInPlace
  <2>1. u # t /\ reading'[u] = reading[u] /\ reading[u] \in Bindings
    BY <1>3
  <2>2. Open(reading[u]) /\ reading[u] \in retired \cup {current}
    BY <1>1, <2>1 DEF CatalogInv, ReadsInPlace
  <2>3. closes'[reading[u]] = closes[reading[u]]
    BY <1>4, <1>6, <2>1
  <2>4. Open(reading[u])'
    BY <2>1, <2>2, <2>3 DEF Open, Made
  <2> QED BY <1>4, <1>6, <2>1, <2>2, <2>4
<1>8. RefresherReads'
  BY <1>1, <1>3 DEF CatalogInv, RefresherReads, Threads
<1>9. CurrentKept'
  BY <1>1, <1>4 DEF CatalogInv, CurrentKept, TypeOK, Made, gateVars, jobVars
<1>10. CandidateApart'
  <2>1. candidate # None => stage' = stage /\ candidate \in Bindings
    BY <1>1 DEF TypeOK
  <2>2. candidate # None => closes'[candidate] = closes[candidate]
    BY <1>1, <1>4, <2>1 DEF CatalogInv, CandidateApart
  <2> QED BY <1>1, <1>4, <2>1, <2>2 DEF CatalogInv, CandidateApart, Open, Made
<1> QED BY <1>2, <1>4, <1>5, <1>7, <1>8, <1>9, <1>10 DEF CatalogInv

LEMMA StepReadDone ==
  ASSUME SearchConstants, GateInv, NEW t \in Readers \cup Slots, ReadDone(t)
  PROVE  GateInv'
<1>1. t \in Threads /\ t # Refresher
  BY DEF Threads, SearchConstants
<1>2. /\ Return(t) /\ stage' = stage /\ stage \in RefreshStages
      /\ UNCHANGED <<current, snapshot, gateVars, jobVars, target, candidate, shutdown>>
  BY DEF ReadDone, refreshVars, GateInv, TypeOK
<1>3. TypeOK' /\ CatalogInv'
  BY <1>1, <1>2, StepReturn
<1>4. JobInv'
  BY <1>2, SameJobs DEF GateInv
<1> QED BY <1>3, <1>4 DEF GateInv

----------------------------------------------------------------------------
(* Steps of jobs. *)

LEMMA SameBindings ==
  ASSUME CatalogInv, UNCHANGED <<current, snapshot, closes, retired, readVars>>
  PROVE  ReadersCounted' /\ ReadsInPlace' /\ RetiredOpen' /\ UnmadeUntouched' /\ ClosedOnce'
<1>1. ReadersCounted'
  BY SameReaders DEF CatalogInv
<1> QED BY <1>1 DEF CatalogInv, ReadsInPlace, RetiredOpen, UnmadeUntouched, ClosedOnce, Open, Made,
                    readVars

LEMMA StepSubmit ==
  ASSUME SearchConstants, GateInv, Submit
  PROVE  GateInv'
<1>1. /\ TypeOK /\ CatalogInv /\ JobInv
      /\ queue \in Seq(Bindings) /\ current \in Bindings /\ pending \in Nat
      /\ queue' = Append(queue, current) /\ pending' = pending + 1 /\ ~paused /\ ~closing
      /\ UNCHANGED <<current, snapshot, closes, retired, readVars, gateVars, running, slot, bound, stage, target, candidate, shutdown>>
  BY DEF GateInv, TypeOK, Submit, refreshVars
<1>2. TypeOK'
  BY <1>1 DEF TypeOK, readVars, gateVars
<1>3. CatalogInv'
  BY <1>1, SameBindings DEF CatalogInv, CurrentKept, CandidateApart, RefresherReads, Open, Made,
     readVars, gateVars
<1>4. Len(queue) \in Nat /\ Len(queue') = Len(queue) + 1 /\ \A i \in 1 .. Len(queue') : queue'[i] = current
  BY <1>1 DEF JobInv, RefreshAlone
<1>5. RefreshAlone'
  BY <1>1, <1>4 DEF JobInv, RefreshAlone, Busy, gateVars
<1>6. BusySlots' = BusySlots /\ RunningSlots' = RunningSlots
  BY <1>1 DEF BusySlots, RunningSlots, Busy
<1>7. Cardinality(BusySlots) \in Nat
  BY FewThreads, FS_CardinalityType
<1>8. JobsCounted'
  BY <1>1, <1>4, <1>6, <1>7 DEF JobInv, JobsCounted, gateVars
<1>9. ShutdownAt'
  BY <1>1 DEF JobInv, ShutdownAt, gateVars
<1> QED BY <1>2, <1>3, <1>5, <1>8, <1>9 DEF GateInv, JobInv

LEMMA StepTake ==
  ASSUME SearchConstants, GateInv, NEW s \in Slots, Take(s)
  PROVE  GateInv'
<1>1. /\ TypeOK /\ CatalogInv /\ JobInv
      /\ queue \in Seq(Bindings) /\ pending \in Nat /\ queue # <<>>
      /\ slot \in [Slots -> {"idle", "taken", "running"}] /\ bound \in [Slots -> Bindings \cup {None}]
      /\ slot[s] = "idle" /\ slot' = [slot EXCEPT ![s] = "taken"]
      /\ bound' = [bound EXCEPT ![s] = Head(queue)] /\ queue' = Tail(queue)
      /\ UNCHANGED <<current, snapshot, closes, retired, readVars, gateVars, pending, running, stage, target, candidate, shutdown>>
  BY DEF GateInv, TypeOK, Take, refreshVars
<1>2. /\ Head(queue) = current /\ Len(queue') = Len(queue) - 1 /\ Len(queue) \in Nat
      /\ queue' \in Seq(Bindings) /\ \A i \in 1 .. Len(queue') : queue'[i] = current
  BY <1>1 DEF JobInv, RefreshAlone
<1>3. TypeOK'
  BY <1>1, <1>2 DEF TypeOK, readVars, gateVars
<1>4. CatalogInv'
  BY <1>1, SameBindings DEF CatalogInv, CurrentKept, CandidateApart, RefresherReads, Open, Made,
     readVars, gateVars
<1>5. RefreshAlone'
  BY <1>1, <1>2 DEF JobInv, RefreshAlone, Busy, gateVars
<1>6. /\ BusySlots' = BusySlots \cup {s} /\ s \notin BusySlots
      /\ RunningSlots' = RunningSlots
  BY <1>1 DEF BusySlots, RunningSlots, Busy
<1>7. Cardinality(BusySlots) \in Nat /\ Cardinality(BusySlots') = Cardinality(BusySlots) + 1
  BY <1>6, FewThreads, FS_CardinalityType, FS_AddElement
<1>8. JobsCounted'
  BY <1>1, <1>2, <1>6, <1>7 DEF JobInv, JobsCounted, gateVars
<1>9. ShutdownAt'
  BY <1>1 DEF JobInv, ShutdownAt, gateVars
<1> QED BY <1>3, <1>4, <1>5, <1>8, <1>9 DEF GateInv, JobInv

LEMMA StepBegin ==
  ASSUME SearchConstants, GateInv, NEW s \in Slots, Begin(s)
  PROVE  GateInv'
<1>1. /\ TypeOK /\ CatalogInv /\ JobInv /\ running \in Nat
      /\ slot \in [Slots -> {"idle", "taken", "running"}]
      /\ slot[s] = "taken" /\ slot' = [slot EXCEPT ![s] = "running"] /\ running' = running + 1
      /\ UNCHANGED <<current, snapshot, closes, retired, readVars, gateVars, pending, queue, bound, stage, target, candidate, shutdown>>
  BY DEF GateInv, TypeOK, Begin, refreshVars
<1>2. TypeOK'
  BY <1>1 DEF TypeOK, readVars, gateVars
<1>3. ~closed
  BY <1>1 DEF JobInv, ShutdownAt
<1>4. CatalogInv'
  BY <1>1, <1>3, SameBindings DEF CatalogInv, CurrentKept, CandidateApart, RefresherReads, Open,
     Made, readVars, gateVars
<1>5. RefreshAlone'
  BY <1>1 DEF JobInv, RefreshAlone, Busy, gateVars
<1>6. /\ BusySlots' = BusySlots
      /\ RunningSlots' = RunningSlots \cup {s} /\ s \notin RunningSlots
  BY <1>1 DEF BusySlots, RunningSlots, Busy
<1>7. Cardinality(RunningSlots') = Cardinality(RunningSlots) + 1
  BY <1>6, FewThreads, FS_AddElement
<1>8. JobsCounted'
  BY <1>1, <1>6, <1>7 DEF JobInv, JobsCounted, gateVars
<1>9. ShutdownAt'
  BY <1>1 DEF JobInv, ShutdownAt, gateVars
<1> QED BY <1>2, <1>4, <1>5, <1>8, <1>9 DEF GateInv, JobInv

(* The binding of a job is the current one, so it is given up here only as *)
(* the last one after Close. *)
LEMMA StepFinish ==
  ASSUME SearchConstants, GateInv, NEW s \in Slots, Finish(s)
  PROVE  GateInv'
<1> DEFINE R == IF closed /\ running' = 0 THEN retired \cup {current} ELSE retired
<1>1. /\ TypeOK /\ CatalogInv /\ JobInv /\ running \in Nat /\ pending \in Nat
      /\ queue \in Seq(Bindings) /\ current \in Bindings /\ retired \in SUBSET Bindings
      /\ slot \in [Slots -> {"idle", "taken", "running"}] /\ bound \in [Slots -> Bindings \cup {None}]
      /\ slot[s] = "running" /\ slot' = [slot EXCEPT ![s] = "idle"]
      /\ bound' = [bound EXCEPT ![s] = None]
      /\ running' = running - 1 /\ pending' = pending - 1
      /\ RetireReady(bound[s], R, readers)
      /\ UNCHANGED <<current, snapshot, readVars, gateVars, queue, stage, target, candidate, shutdown>>
  BY DEF GateInv, TypeOK, Finish, refreshVars
<1>2. bound[s] = current
  BY <1>1 DEF JobInv, RefreshAlone, Busy
<1>3. /\ BusySlots' = BusySlots \ {s} /\ s \in BusySlots
      /\ RunningSlots' = RunningSlots \ {s} /\ s \in RunningSlots
  BY <1>1 DEF BusySlots, RunningSlots, Busy
<1>4. /\ Cardinality(RunningSlots') = Cardinality(RunningSlots) - 1
      /\ Cardinality(BusySlots') = Cardinality(BusySlots) - 1
      /\ Cardinality(RunningSlots') \in Nat /\ Cardinality(BusySlots') \in Nat
      /\ Cardinality(RunningSlots) \in Nat /\ Cardinality(BusySlots) \in Nat
  <2>1. IsFiniteSet(BusySlots \ {s}) /\ IsFiniteSet(RunningSlots \ {s})
    BY FewThreads, FS_RemoveElement
  <2> QED BY <1>3, <2>1, FewThreads, FS_RemoveElement, FS_CardinalityType
<1>5. running > 0 /\ running' \in Nat /\ pending' \in Nat /\ Len(queue) \in Nat
  BY <1>1, <1>4 DEF JobInv, JobsCounted
<1>6. closes[current] = 0 /\ current \notin retired /\ Open(current)
  BY <1>1, <1>5 DEF CatalogInv, CurrentKept, Open
<1>7. R \in SUBSET Bindings /\ \A c \in R : Open(c)
  BY <1>1, <1>6 DEF CatalogInv, RetiredOpen
<1>8. /\ retired' \in SUBSET R /\ closes' \in [Bindings -> Nat]
      /\ RetiredOpen' /\ UnmadeUntouched' /\ ClosedOnce'
      /\ \A c \in R : c \in retired' \/ (c = current /\ readers[current] = 0)
      /\ \A c \in Bindings : closes'[c] # closes[c]
            => c = current /\ current \in R /\ readers[current] = 0
  <2>1. RetireReady(current, R, readers)
    BY <1>1, <1>2
  <2> HIDE DEF R
  <2> QED BY <1>1, <1>7, <2>1, RetiredOrClosed DEF CatalogInv
<1>9. TypeOK'
  BY <1>1, <1>5, <1>7, <1>8 DEF TypeOK, readVars, gateVars
<1>10. ReadersCounted'
  BY <1>1, SameReaders DEF CatalogInv
<1>11. readers[current] = 0 => \A t \in Threads : reading[t] # current
  BY <1>1, NobodyReads DEF CatalogInv, ReadersCounted
<1>12. ReadsInPlace'
  <2> SUFFICES ASSUME NEW t \in Threads, reading[t] # None
               PROVE  Open(reading[t])' /\ reading[t] \in retired' \cup {current}
    BY <1>1 DEF ReadsInPlace, readVars
  <2>1. Open(reading[t]) /\ reading[t] \in retired \cup {current} /\ reading[t] \in Bindings
    BY <1>1 DEF CatalogInv, ReadsInPlace, TypeOK
  <2>2. closes'[reading[t]] = closes[reading[t]]
    BY <1>8, <1>11, <2>1
  <2>3. Open(reading[t])'
    BY <1>1, <2>1, <2>2 DEF Open, Made, readVars
  <2> QED BY <1>8, <1>11, <2>1, <2>3
<1>13. RefresherReads'
  BY <1>1 DEF CatalogInv, RefresherReads, readVars
<1>14. CurrentKept'
  <2>1. ~closed \/ running' > 0 => retired' \in SUBSET retired /\ closes'[current] = 0
    BY <1>1, <1>5, <1>6, <1>8
  <2> QED BY <1>1, <1>6, <2>1 DEF CatalogInv, CurrentKept, Made, gateVars
<1>15. CandidateApart'
  <2>1. candidate # None => candidate \in Bindings /\ candidate \notin R /\ candidate # current
    BY <1>1 DEF TypeOK, CatalogInv, CandidateApart
  <2>2. candidate # None => candidate \notin retired' /\ closes'[candidate] = closes[candidate]
    BY <1>8, <2>1
  <2> QED BY <1>1, <2>1, <2>2 DEF CatalogInv, CandidateApart, Open, Made
<1>16. RefreshAlone'
  BY <1>1 DEF JobInv, RefreshAlone, Busy, gateVars
<1>17. JobsCounted'
  BY <1>1, <1>4, <1>5 DEF JobInv, JobsCounted, gateVars
<1>18. ShutdownAt'
  BY <1>1 DEF JobInv, ShutdownAt, gateVars
<1> QED BY <1>8, <1>9, <1>10, <1>12, <1>13, <1>14, <1>15, <1>16, <1>17, <1>18
        DEF GateInv, CatalogInv, JobInv

----------------------------------------------------------------------------
(* Steps of refresh(). *)

NoJobs == queue = <<>> /\ \A s \in Slots : ~Busy(s)

LEMMA StepRefreshBegin ==
  ASSUME SearchConstants, GateInv, NEW sn \in Snapshots, RefreshBegin(sn)
  PROVE  GateInv'
<1>1. /\ TypeOK /\ CatalogInv /\ JobInv /\ stage = "idle" /\ stage' = "drain"
      /\ paused' = TRUE /\ target' = sn
      /\ UNCHANGED <<current, snapshot, closes, retired, readVars, closing, closed, jobVars, candidate, shutdown>>
  BY DEF GateInv, RefreshBegin
<1>2. TypeOK'
  BY <1>1 DEF TypeOK, readVars, jobVars, RefreshStages
<1>3. CatalogInv'
  BY <1>1, SameBindings DEF CatalogInv, CurrentKept, CandidateApart, RefresherReads, Open, Made,
     readVars, jobVars
<1>4. JobInv'
  BY <1>1 DEF JobInv, RefreshAlone, JobsCounted, ShutdownAt, BusySlots, RunningSlots, Busy, jobVars
<1> QED BY <1>2, <1>3, <1>4 DEF GateInv

(* refresh() goes on to its next stage and touches no binding. *)
LEMMA StepOn ==
  ASSUME SearchConstants, GateInv, stage \notin {"idle", "check"},
         \/ stage' = "end"
         \/ stage' \in {"compare", "durable", "create"} /\ candidate = None /\ NoJobs
         \/ stage = "validate" /\ stage' = "swap",
         UNCHANGED <<current, snapshot, closes, retired, readVars, gateVars, jobVars, target, candidate, shutdown>>
  PROVE  GateInv'
<1>1. TypeOK /\ CatalogInv /\ JobInv
  BY DEF GateInv
<1>2. TypeOK'
  BY <1>1 DEF TypeOK, readVars, gateVars, jobVars, RefreshStages
<1>3. CatalogInv'
  BY <1>1, SameBindings DEF CatalogInv, CurrentKept, CandidateApart, RefresherReads, Open, Made,
     readVars, gateVars, jobVars
<1>4. RefreshAlone'
  BY <1>1 DEF JobInv, RefreshAlone, NoJobs, Busy, gateVars, jobVars
<1>5. JobsCounted' /\ ShutdownAt'
  BY <1>1 DEF JobInv, JobsCounted, ShutdownAt, BusySlots, RunningSlots, Busy, gateVars, jobVars
<1> QED BY <1>2, <1>3, <1>4, <1>5 DEF GateInv, JobInv

(* Past the drain no job is admitted and unfinished, since pending is *)
(* exact while the process is not closing. *)
LEMMA StepDrain ==
  ASSUME SearchConstants, GateInv, Drain
  PROVE  GateInv'
<1>1. CASE closing \/ pending # 0
  BY <1>1, StepOn DEF Drain, RefreshGo
<1>2. CASE ~closing /\ pending = 0
  <2>1. IsFiniteSet(BusySlots) /\ Cardinality(BusySlots) \in Nat
    BY FewThreads, FS_CardinalityType
  <2>2. Len(queue) = 0 /\ Cardinality(BusySlots) = 0
    BY <1>2, <2>1 DEF GateInv, JobInv, JobsCounted, TypeOK
  <2>3. NoJobs
    <3>1. queue = <<>>
      BY <2>2 DEF GateInv, TypeOK
    <3>2. BusySlots = {}
      BY <2>1, <2>2, FS_EmptySet
    <3> QED BY <3>1, <3>2 DEF NoJobs, BusySlots
  <2>4. candidate = None
    BY DEF Drain, GateInv, CatalogInv, CandidateApart
  <2> QED BY <1>2, <2>3, <2>4, StepOn DEF Drain, RefreshGo
<1> QED BY <1>1, <1>2

LEMMA StepCompare ==
  ASSUME SearchConstants, GateInv, Compare
  PROVE  GateInv'
<1>1. /\ stage = "compare" /\ candidate = None /\ NoJobs /\ reading[Refresher] = None
      /\ stage \in RefreshStages
  BY DEF Compare, GateInv, CatalogInv, CandidateApart, JobInv, RefreshAlone, NoJobs, RefresherReads,
         RefreshStages
<1>2. CASE snapshot[current] = target /\ ~closed
  <2>1. /\ Borrow(Refresher, current) /\ stage' = "check"
        /\ UNCHANGED <<current, snapshot, closes, retired, gateVars, jobVars, target, candidate, shutdown>>
    BY <1>2 DEF Compare, RefreshGo
  <2>2. Refresher \in Threads /\ "check" \in RefreshStages
    BY DEF Threads, RefreshStages
  <2>3. TypeOK' /\ CatalogInv'
    BY <1>1, <1>2, <2>1, <2>2, StepBorrow
  <2>4. JobInv'
    BY <1>1, <2>1 DEF GateInv, JobInv, RefreshAlone, JobsCounted, ShutdownAt, BusySlots, RunningSlots,
       Busy, gateVars, jobVars
  <2> QED BY <2>3, <2>4 DEF GateInv
<1>3. CASE ~(snapshot[current] = target /\ ~closed)
  BY <1>1, <1>3, StepOn DEF Compare, RefreshGo
<1> QED BY <1>2, <1>3

LEMMA StepChecked ==
  ASSUME SearchConstants, GateInv, Checked
  PROVE  GateInv'
<1>1. /\ stage = "check" /\ candidate = None /\ NoJobs /\ Return(Refresher)
      /\ stage' \in {"end", "durable"}
      /\ UNCHANGED <<current, snapshot, gateVars, jobVars, target, candidate, shutdown>>
  BY DEF Checked, RefreshGo, GateInv, CatalogInv, CandidateApart, JobInv, RefreshAlone, NoJobs
<1>2. Refresher \in Threads /\ {"end", "durable"} \subseteq RefreshStages
  BY DEF Threads, RefreshStages
<1>3. TypeOK' /\ CatalogInv'
  BY <1>1, <1>2, StepReturn
<1>4. JobInv'
  BY <1>1 DEF GateInv, JobInv, RefreshAlone, JobsCounted, ShutdownAt, BusySlots, RunningSlots, Busy,
     NoJobs, gateVars, jobVars
<1> QED BY <1>3, <1>4 DEF GateInv

LEMMA StepDurable ==
  ASSUME SearchConstants, GateInv, Durable
  PROVE  GateInv'
<1>1. candidate = None /\ NoJobs
  BY DEF Durable, GateInv, CatalogInv, CandidateApart, JobInv, RefreshAlone, NoJobs
<1> QED BY <1>1, StepOn DEF Durable, RefreshGo

(* A client that was just made is nobody else's. *)
LEMMA StepCreate ==
  ASSUME SearchConstants, GateInv, Create
  PROVE  GateInv'
<1>1. CASE RefreshGo("end") /\ UNCHANGED snapshot
  BY <1>1, StepOn DEF Create, RefreshGo
<1>2. ASSUME NEW b \in Bindings, NEW sn \in Snapshots, snapshot[b] = None,
             snapshot' = [snapshot EXCEPT ![b] = sn],
             candidate' = b, stage' = "validate", UNCHANGED target
      PROVE  GateInv'
  <2>1. /\ TypeOK /\ CatalogInv /\ JobInv /\ stage = "create" /\ candidate = None /\ NoJobs
        /\ snapshot \in [Bindings -> Snapshots \cup {None}]
        /\ None \notin Bindings /\ None \notin Snapshots
        /\ UNCHANGED <<current, closes, retired, readVars, gateVars, jobVars, shutdown>>
    BY DEF GateInv, TypeOK, SearchConstants, Create, CatalogInv, CandidateApart, JobInv, RefreshAlone,
           NoJobs
  <2>2. TypeOK'
    BY <1>2, <2>1 DEF TypeOK, readVars, gateVars, jobVars, RefreshStages
  <2>3. ReadersCounted'
    BY <2>1, SameReaders DEF CatalogInv
  <2>4. \A c \in Bindings : Made(c) => Made(c)' /\ c # b
    BY <1>2, <2>1 DEF Made
  <2>5. ReadsInPlace'
    BY <2>1, <2>4 DEF CatalogInv, ReadsInPlace, Open, TypeOK, readVars
  <2>6. RetiredOpen' /\ UnmadeUntouched' /\ ClosedOnce'
    BY <2>1, <2>4 DEF CatalogInv, RetiredOpen, UnmadeUntouched, ClosedOnce, Open, TypeOK
  <2>7. RefresherReads' /\ CurrentKept'
    BY <2>1, <2>4 DEF CatalogInv, RefresherReads, CurrentKept, TypeOK, readVars, gateVars, jobVars
  <2>8. CandidateApart'
    <3>1. Made(b)' /\ closes[b] = 0
      BY <1>2, <2>1 DEF CatalogInv, UnmadeUntouched, Made
    <3>2. b # current /\ b \notin retired
      BY <2>1, <2>4 DEF CatalogInv, CurrentKept, RetiredOpen, Open, TypeOK
    <3> QED BY <1>2, <2>1, <3>1, <3>2 DEF CandidateApart, Open
  <2>9. JobInv'
    BY <1>2, <2>1 DEF JobInv, RefreshAlone, JobsCounted, ShutdownAt, BusySlots, RunningSlots, Busy,
       NoJobs, gateVars, jobVars
  <2> QED BY <2>2, <2>3, <2>5, <2>6, <2>7, <2>8, <2>9 DEF GateInv, CatalogInv
<1> QED BY <1>1, <1>2 DEF Create

LEMMA StepValidate ==
  ASSUME SearchConstants, GateInv, Validate
  PROVE  GateInv'
BY StepOn DEF Validate, RefreshGo

(* The old binding is given up with its readers, and is closed if it has *)
(* none; no job is on it. *)
LEMMA StepSwap ==
  ASSUME SearchConstants, GateInv, Swap
  PROVE  GateInv'
<1>1. CASE closing
  BY <1>1, StepOn DEF Swap
<1>2. CASE ~closing
  <2> DEFINE R == retired \cup {current}
  <2>1. /\ TypeOK /\ CatalogInv /\ JobInv /\ stage = "swap" /\ stage' = "end"
        /\ current' = candidate /\ candidate' = None /\ RetireReady(current, R, readers)
        /\ UNCHANGED <<snapshot, readVars, gateVars, jobVars, target, shutdown>>
        /\ current \in Bindings /\ retired \in SUBSET Bindings /\ candidate \in Bindings
        /\ None \notin Bindings /\ ~closed
    BY <1>2 DEF Swap, GateInv, TypeOK, CatalogInv, CandidateApart, JobInv, ShutdownAt, SearchConstants
  <2>2. /\ Open(candidate) /\ candidate # current /\ candidate \notin retired /\ NoJobs
        /\ Open(current) /\ current \notin retired
    BY <2>1 DEF CatalogInv, CandidateApart, CurrentKept, Open, JobInv, RefreshAlone, NoJobs
  <2>3. R \in SUBSET Bindings /\ \A c \in R : Open(c)
    BY <2>1, <2>2 DEF CatalogInv, RetiredOpen
  <2>4. /\ retired' \in SUBSET R /\ closes' \in [Bindings -> Nat]
        /\ RetiredOpen' /\ UnmadeUntouched' /\ ClosedOnce'
        /\ \A c \in R : c \in retired' \/ (c = current /\ readers[current] = 0)
        /\ \A c \in Bindings : closes'[c] # closes[c]
              => c = current /\ current \in R /\ readers[current] = 0
    <3> HIDE DEF R
    <3> QED BY <2>1, <2>3, RetiredOrClosed DEF CatalogInv
  <2>5. TypeOK'
    BY <2>1, <2>4 DEF TypeOK, readVars, gateVars, jobVars, RefreshStages
  <2>6. ReadersCounted'
    BY <2>1, SameReaders DEF CatalogInv
  <2>7. readers[current] = 0 => \A t \in Threads : reading[t] # current
    BY <2>1, NobodyReads DEF CatalogInv, ReadersCounted
  <2>8. ReadsInPlace'
    <3> SUFFICES ASSUME NEW t \in Threads, reading[t] # None
                 PROVE  Open(reading[t])' /\ reading[t] \in retired' \cup {candidate}
      BY <2>1 DEF ReadsInPlace, readVars
    <3>1. Open(reading[t]) /\ reading[t] \in R /\ reading[t] \in Bindings
      BY <2>1 DEF CatalogInv, ReadsInPlace, TypeOK
    <3>2. closes'[reading[t]] = closes[reading[t]] /\ reading[t] \in retired'
      BY <2>4, <2>7, <3>1
    <3>3. Open(reading[t])'
      BY <2>1, <3>1, <3>2 DEF Open, Made, readVars
    <3> QED BY <3>2, <3>3
  <2>9. RefresherReads' /\ CandidateApart'
    BY <2>1 DEF CatalogInv, RefresherReads, CandidateApart, readVars
  <2>10. CurrentKept'
    <3>1. closes'[candidate] = 0 /\ candidate \notin retired'
      BY <2>1, <2>2, <2>4 DEF Open
    <3> QED BY <2>1, <2>2, <3>1 DEF CurrentKept, Open, Made
  <2>11. RefreshAlone'
    BY <2>1, <2>2 DEF JobInv, RefreshAlone, NoJobs, Busy, gateVars, jobVars
  <2>12. JobsCounted' /\ ShutdownAt'
    BY <2>1 DEF JobInv, JobsCounted, ShutdownAt, BusySlots, RunningSlots, Busy, gateVars, jobVars
  <2> QED BY <2>4, <2>5, <2>6, <2>8, <2>9, <2>10, <2>11, <2>12 DEF GateInv, CatalogInv, JobInv
<1> QED BY <1>1, <1>2

(* A candidate that was not put in place is closed: only refresh() has it. *)
LEMMA StepRefreshEnd ==
  ASSUME SearchConstants, GateInv, RefreshEnd
  PROVE  GateInv'
<1>1. /\ TypeOK /\ CatalogInv /\ JobInv /\ stage = "end" /\ stage' = "idle" /\ target' = None
      /\ closes' = IF candidate = None THEN closes ELSE [closes EXCEPT ![candidate] = @ + 1]
      /\ candidate' = None /\ paused' = closing
      /\ UNCHANGED <<current, snapshot, retired, readVars, closing, closed, jobVars, shutdown>>
      /\ current \in Bindings /\ retired \in SUBSET Bindings
      /\ closes \in [Bindings -> Nat] /\ candidate \in Bindings \cup {None}
      /\ reading \in [Threads -> Bindings \cup {None}] /\ closing \in BOOLEAN
  BY DEF RefreshEnd, GateInv, TypeOK
<1>2. candidate # None => Open(candidate) /\ candidate # current /\ candidate \notin retired
  BY <1>1 DEF CatalogInv, CandidateApart
<1>3. closes' \in [Bindings -> Nat] /\ \A b \in Bindings : b # candidate => closes'[b] = closes[b]
  BY <1>1
<1>4. TypeOK'
  BY <1>1, <1>3 DEF TypeOK, readVars, jobVars, RefreshStages
<1>5. ReadersCounted'
  BY <1>1, SameReaders DEF CatalogInv
<1>6. ReadsInPlace'
  <2> SUFFICES ASSUME NEW t \in Threads, reading[t] # None
               PROVE  Open(reading[t])' /\ reading[t] \in retired \cup {current}
    BY <1>1 DEF ReadsInPlace, readVars
  <2>1. Open(reading[t]) /\ reading[t] \in retired \cup {current} /\ reading[t] \in Bindings
    BY <1>1 DEF CatalogInv, ReadsInPlace
  <2>2. closes'[reading[t]] = closes[reading[t]]
    BY <1>2, <1>3, <2>1
  <2> QED BY <1>1, <2>1, <2>2 DEF Open, Made, readVars
<1>7. RetiredOpen'
  BY <1>1, <1>2, <1>3 DEF CatalogInv, RetiredOpen, Open, Made
<1>8. UnmadeUntouched' /\ ClosedOnce'
  BY <1>1, <1>2 DEF CatalogInv, UnmadeUntouched, ClosedOnce, Open, Made
<1>9. CurrentKept'
  BY <1>1, <1>2, <1>3 DEF CatalogInv, CurrentKept, Made, jobVars
<1>10. RefresherReads' /\ CandidateApart'
  BY <1>1 DEF CatalogInv, RefresherReads, CandidateApart, readVars
<1>11. RefreshAlone' /\ JobsCounted' /\ ShutdownAt'
  BY <1>1 DEF JobInv, RefreshAlone, JobsCounted, ShutdownAt, BusySlots, RunningSlots, Busy, jobVars
<1> QED BY <1>4, <1>5, <1>6, <1>7, <1>8, <1>9, <1>10, <1>11 DEF GateInv, CatalogInv, JobInv

----------------------------------------------------------------------------
(* Steps of a shutdown. *)

LEMMA StepStopBegin ==
  ASSUME SearchConstants, GateInv, StopBegin
  PROVE  GateInv'
<1>1. /\ TypeOK /\ CatalogInv /\ JobInv /\ shutdown = "no" /\ shutdown' = "stopping"
      /\ closing' = TRUE /\ paused' = TRUE
      /\ UNCHANGED <<current, snapshot, closes, retired, readVars, closed, jobVars, stage, target, candidate>>
  BY DEF GateInv, StopBegin, refreshVars
<1>2. TypeOK'
  BY <1>1 DEF TypeOK, readVars, jobVars
<1>3. CatalogInv'
  BY <1>1, SameBindings DEF CatalogInv, CurrentKept, CandidateApart, RefresherReads, Open, Made,
     readVars, jobVars
<1>4. RefreshAlone' /\ JobsCounted' /\ ShutdownAt'
  BY <1>1 DEF JobInv, RefreshAlone, JobsCounted, ShutdownAt, BusySlots, RunningSlots, Busy, jobVars
<1> QED BY <1>2, <1>3, <1>4 DEF GateInv, JobInv

LEMMA StepStopDrop ==
  ASSUME SearchConstants, GateInv, StopDrop
  PROVE  GateInv'
<1>1. /\ TypeOK /\ CatalogInv /\ JobInv /\ shutdown = "stopping" /\ shutdown' = "emptied"
      /\ queue' = <<>> /\ queue \in Seq(Bindings) /\ pending \in Nat
      /\ UNCHANGED <<current, snapshot, closes, retired, readVars, gateVars, pending, running, slot, bound, stage, target, candidate>>
  BY DEF GateInv, TypeOK, StopDrop, refreshVars
<1>2. TypeOK'
  BY <1>1 DEF TypeOK, readVars, gateVars
<1>3. CatalogInv'
  BY <1>1, SameBindings DEF CatalogInv, CurrentKept, CandidateApart, RefresherReads, Open, Made,
     readVars, gateVars
<1>4. RefreshAlone' /\ ShutdownAt'
  BY <1>1 DEF JobInv, RefreshAlone, ShutdownAt, Busy, gateVars
<1>5. JobsCounted'
  <2>1. Len(queue) \in Nat /\ Len(queue') = 0 /\ closing'
    BY <1>1 DEF JobInv, ShutdownAt, gateVars
  <2>2. Cardinality(BusySlots) \in Nat /\ BusySlots' = BusySlots /\ RunningSlots' = RunningSlots
    BY <1>1, FewThreads, FS_CardinalityType DEF BusySlots, RunningSlots, Busy
  <2> QED BY <1>1, <2>1, <2>2 DEF JobInv, JobsCounted
<1> QED BY <1>2, <1>3, <1>4, <1>5 DEF GateInv, JobInv

LEMMA StepStopReturn ==
  ASSUME SearchConstants, GateInv, StopReturn
  PROVE  GateInv'
<1>1. /\ TypeOK /\ CatalogInv /\ JobInv /\ shutdown = "emptied" /\ shutdown' = "stopped"
      /\ pending' = running /\ running \in Nat /\ \A s \in Slots : slot[s] # "taken"
      /\ slot \in [Slots -> {"idle", "taken", "running"}]
      /\ UNCHANGED <<current, snapshot, closes, retired, readVars, gateVars, running, queue, slot, bound, stage, target, candidate>>
  BY DEF GateInv, TypeOK, StopReturn, refreshVars
<1>2. TypeOK'
  BY <1>1 DEF TypeOK, readVars, gateVars
<1>3. CatalogInv'
  BY <1>1, SameBindings DEF CatalogInv, CurrentKept, CandidateApart, RefresherReads, Open, Made,
     readVars, gateVars
<1>4. RefreshAlone' /\ ShutdownAt'
  BY <1>1 DEF JobInv, RefreshAlone, ShutdownAt, Busy, gateVars
<1>5. JobsCounted'
  <2>1. queue' = <<>> /\ closing'
    BY <1>1 DEF JobInv, ShutdownAt, gateVars
  <2>2. BusySlots' = RunningSlots /\ RunningSlots' = RunningSlots
    BY <1>1 DEF BusySlots, RunningSlots, Busy
  <2>3. running = Cardinality(RunningSlots)
    BY <1>1 DEF JobInv, JobsCounted
  <2> QED BY <1>1, <2>1, <2>2, <2>3 DEF JobsCounted
<1> QED BY <1>2, <1>3, <1>4, <1>5 DEF GateInv, JobInv

(* The current binding is given up, unless a job is still on it: then the *)
(* last one does it (StepFinish). *)
LEMMA StepClose ==
  ASSUME SearchConstants, GateInv, Close
  PROVE  GateInv'
<1> DEFINE R == IF running = 0 THEN retired \cup {current} ELSE retired
<1>1. /\ TypeOK /\ CatalogInv /\ JobInv /\ shutdown = "stopped" /\ shutdown' = "done"
      /\ closed' = TRUE /\ closing' = TRUE /\ paused' = TRUE /\ RetireReady(current, R, readers)
      /\ UNCHANGED <<current, snapshot, readVars, jobVars, stage, target, candidate>>
      /\ current \in Bindings /\ retired \in SUBSET Bindings /\ running \in Nat
      /\ None \notin Bindings
  BY DEF Close, GateInv, TypeOK, refreshVars, SearchConstants
<1>2. ~closed /\ closing /\ Open(current) /\ current \notin retired
  BY <1>1 DEF JobInv, ShutdownAt, CatalogInv, CurrentKept, Open
<1>3. R \in SUBSET Bindings /\ \A c \in R : Open(c)
  BY <1>1, <1>2 DEF CatalogInv, RetiredOpen
<1>4. /\ retired' \in SUBSET R /\ closes' \in [Bindings -> Nat]
      /\ RetiredOpen' /\ UnmadeUntouched' /\ ClosedOnce'
      /\ \A c \in R : c \in retired' \/ (c = current /\ readers[current] = 0)
      /\ \A c \in Bindings : closes'[c] # closes[c]
            => c = current /\ current \in R /\ readers[current] = 0
  <2> HIDE DEF R
  <2> QED BY <1>1, <1>3, RetiredOrClosed DEF CatalogInv
<1>5. TypeOK'
  BY <1>1, <1>4 DEF TypeOK, readVars, jobVars
<1>6. ReadersCounted'
  BY <1>1, SameReaders DEF CatalogInv
<1>7. readers[current] = 0 => \A t \in Threads : reading[t] # current
  BY <1>1, NobodyReads DEF CatalogInv, ReadersCounted
<1>8. ReadsInPlace'
  <2> SUFFICES ASSUME NEW t \in Threads, reading[t] # None
               PROVE  Open(reading[t])' /\ reading[t] \in retired' \cup {current}
    BY <1>1 DEF ReadsInPlace, readVars
  <2>1. Open(reading[t]) /\ reading[t] \in retired \cup {current} /\ reading[t] \in Bindings
    BY <1>1 DEF CatalogInv, ReadsInPlace, TypeOK
  <2>2. closes'[reading[t]] = closes[reading[t]]
    BY <1>4, <1>7, <2>1
  <2>3. Open(reading[t])'
    BY <1>1, <2>1, <2>2 DEF Open, Made, readVars
  <2> QED BY <1>4, <1>7, <2>1, <2>3
<1>9. RefresherReads'
  BY <1>1 DEF CatalogInv, RefresherReads, readVars
<1>10. CurrentKept'
  <2>1. running > 0 => closes'[current] = 0 /\ current \notin retired'
    BY <1>1, <1>2, <1>4 DEF Open
  <2> QED BY <1>1, <1>2, <2>1 DEF CurrentKept, Open, Made, jobVars
<1>11. CandidateApart'
  <2>1. candidate # None => candidate \in Bindings /\ candidate \notin R /\ candidate # current
    BY <1>1 DEF TypeOK, CatalogInv, CandidateApart
  <2>2. candidate # None => candidate \notin retired' /\ closes'[candidate] = closes[candidate]
    BY <1>4, <2>1
  <2> QED BY <1>1, <2>1, <2>2 DEF CatalogInv, CandidateApart, Open, Made
<1>12. RefreshAlone' /\ JobsCounted' /\ ShutdownAt'
  BY <1>1, <1>2 DEF JobInv, RefreshAlone, JobsCounted, ShutdownAt, BusySlots, RunningSlots, Busy,
     jobVars
<1> QED BY <1>4, <1>5, <1>6, <1>8, <1>9, <1>10, <1>11, <1>12 DEF GateInv, CatalogInv, JobInv

----------------------------------------------------------------------------
(* The gate. *)

LEMMA GateStarts ==
  ASSUME SearchConstants, Init
  PROVE  GateInv
<1>1. First \in Bindings /\ None \notin Bindings /\ None \notin Snapshots
  BY DEF SearchConstants
<1>2. TypeOK
  <2>1. snapshot \in [Bindings -> Snapshots \cup {None}] /\ closes \in [Bindings -> Nat]
        /\ readers \in [Bindings -> Nat] /\ reading \in [Threads -> Bindings \cup {None}]
    BY DEF Init
  <2>2. slot \in [Slots -> {"idle", "taken", "running"}] /\ bound \in [Slots -> Bindings \cup {None}]
        /\ queue \in Seq(Bindings)
    BY DEF Init
  <2> QED BY <1>1, <2>1, <2>2 DEF Init, TypeOK, RefreshStages
<1>3. \A b \in Bindings : ReadersOf(b) = {}
  BY <1>1 DEF Init, ReadersOf
<1>4. BusySlots = {} /\ RunningSlots = {} /\ Len(queue) = 0
  BY DEF Init, BusySlots, RunningSlots, Busy
<1>5. ReadersCounted
  BY <1>3, FS_EmptySet DEF Init, ReadersCounted
<1>6. ReadsInPlace /\ RefresherReads /\ RetiredOpen /\ UnmadeUntouched /\ ClosedOnce
  BY DEF Init, ReadsInPlace, RefresherReads, RetiredOpen, UnmadeUntouched, ClosedOnce, Threads
<1>7. CurrentKept /\ CandidateApart
  BY <1>1 DEF Init, CurrentKept, CandidateApart, Made
<1>8. RefreshAlone /\ ShutdownAt
  BY DEF Init, RefreshAlone, ShutdownAt, Busy
<1>9. JobsCounted
  BY <1>4, FS_EmptySet DEF Init, JobsCounted
<1> QED BY <1>2, <1>5, <1>6, <1>7, <1>8, <1>9 DEF GateInv, CatalogInv, JobInv

LEMMA GateStutters ==
  ASSUME GateInv, UNCHANGED vars
  PROVE  GateInv'
<1>1. UNCHANGED <<current, snapshot, closes, retired, readVars, gateVars, jobVars, stage, target, candidate, shutdown>>
  BY DEF vars, refreshVars
<1>2. TypeOK' /\ JobInv'
  BY <1>1, SameJobs DEF GateInv, TypeOK, readVars, gateVars, jobVars
<1>3. CatalogInv'
  BY <1>1, SameBindings DEF GateInv, CatalogInv, CurrentKept, CandidateApart, RefresherReads, Open,
     Made, readVars, gateVars, jobVars
<1> QED BY <1>2, <1>3 DEF GateInv

LEMMA GateStep ==
  ASSUME SearchConstants, GateInv, [Next]_vars
  PROVE  GateInv'
<1>1. ASSUME NEW t \in Readers, NEW admission \in BOOLEAN, Read(t, admission) PROVE GateInv'
  BY <1>1, StepRead
<1>2. ASSUME NEW t \in Readers \cup Slots, ReadDone(t) PROVE GateInv'
  BY <1>2, StepReadDone
<1>3. ASSUME NEW s \in Slots, SlotStep(s) PROVE GateInv'
  BY <1>3, StepTake, StepBegin, StepJobRead, StepFinish DEF SlotStep
<1>4. ASSUME NEW sn \in Snapshots, RefreshBegin(sn) PROVE GateInv'
  BY <1>4, StepRefreshBegin
<1>5. CASE RefreshStep
  BY <1>5, StepDrain, StepCompare, StepChecked, StepDurable, StepCreate, StepValidate, StepSwap,
     StepRefreshEnd DEF RefreshStep
<1>6. CASE Submit \/ StopBegin \/ ShutdownStep
  BY <1>6, StepSubmit, StepStopBegin, StepStopDrop, StepStopReturn, StepClose DEF ShutdownStep
<1>7. CASE UNCHANGED vars
  BY <1>7, GateStutters
<1> QED BY <1>1, <1>2, <1>3, <1>4, <1>5, <1>6, <1>7 DEF Next

LEMMA GateHolds ==
  ASSUME SearchConstants
  PROVE  Spec => []GateInv
<1>1. Init => GateInv
  BY GateStarts
<1>2. GateInv /\ [Next]_vars => GateInv'
  BY GateStep
<1> QED BY <1>1, <1>2, PTL DEF Spec

(* A job in the queue or in hand is on the current binding, which is given *)
(* up only when there is none (Close, or the last Finish after it). *)
LEMMA GateKeepsOpen ==
  ASSUME SearchConstants, GateInv
  PROVE  InUseIsOpen
<1>1. TypeOK /\ CatalogInv /\ JobInv
  BY DEF GateInv
<1>2. \A t \in Threads : reading[t] # None => Open(reading[t])
  BY <1>1 DEF CatalogInv, ReadsInPlace
<1>3. ~closed \/ running > 0 => Open(current)
  BY <1>1 DEF CatalogInv, CurrentKept, Open
<1>4. ASSUME NEW i \in 1 .. Len(queue) PROVE Open(queue[i])
  <2>1. queue # <<>> /\ queue[i] = current
    BY <1>1 DEF JobInv, RefreshAlone
  <2> QED BY <1>1, <1>3, <2>1 DEF JobInv, ShutdownAt
<1>5. ASSUME NEW s \in Slots, Busy(s) PROVE Open(bound[s])
  <2>1. bound[s] = current
    BY <1>1, <1>5 DEF JobInv, RefreshAlone
  <2>2. CASE ~closed
    BY <1>3, <2>1, <2>2
  <2>3. CASE closed
    <3>1. s \in RunningSlots
      BY <1>1, <1>5, <2>3 DEF JobInv, ShutdownAt, RunningSlots, Busy, TypeOK
    <3>2. Cardinality(RunningSlots) \in Nat /\ Cardinality(RunningSlots) # 0
      BY <3>1, FewThreads, FS_EmptySet, FS_CardinalityType
    <3> QED BY <1>1, <1>3, <2>1, <3>2 DEF JobInv, JobsCounted
  <2> QED BY <2>2, <2>3
<1> QED BY <1>2, <1>3, <1>4, <1>5 DEF InUseIsOpen

----------------------------------------------------------------------------
(* Every variable of the gate keeps its type. *)
THEOREM GateTypes ==
  ASSUME SearchConstants
  PROVE  Spec => []TypeOK
<1>1. GateInv => TypeOK
  BY DEF GateInv
<1> QED BY <1>1, GateHolds, PTL

(* No client of the catalog is closed while a reader, a job in the queue *)
(* or in hand, or the next job to be admitted would use it, through any *)
(* number of refreshes and a shutdown (_retire_ready, _run, close). *)
THEOREM InUseStaysOpen ==
  ASSUME SearchConstants
  PROVE  Spec => []InUseIsOpen
<1>1. GateInv => InUseIsOpen
  BY GateKeepsOpen
<1> QED BY <1>1, GateHolds, PTL

(* A refresh that looks at the catalog has drained the jobs of the old one *)
(* and admits none, so that a job keeps one binding from admission to its *)
(* end (refresh, submit). *)
THEOREM RefreshIsAlone ==
  ASSUME SearchConstants
  PROVE  Spec => []RefreshAlone
<1>1. GateInv => RefreshAlone
  BY DEF GateInv, JobInv
<1> QED BY <1>1, GateHolds, PTL

(* The count that refresh() waits for is the number of jobs queued or in *)
(* hand, until the process is told to stop (submit, _run). *)
THEOREM PendingIsExact ==
  ASSUME SearchConstants
  PROVE  Spec => []PendingExact
<1>1. GateInv => PendingExact
  BY DEF GateInv, JobInv, JobsCounted, PendingExact, BusySlots
<1> QED BY <1>1, GateHolds, PTL

(* No client is closed twice, whoever gives it up: refresh(), its last *)
(* reader, the last job, close() or the end of a refresh that failed. *)
THEOREM ClosedAtMostOnce ==
  ASSUME SearchConstants
  PROVE  Spec => []ClosedOnce
<1>1. GateInv => ClosedOnce
  BY DEF GateInv, CatalogInv
<1> QED BY <1>1, GateHolds, PTL

(* What the run of the gate checks, for every value of the constants. *)
THEOREM GateStaysSafe ==
  ASSUME SearchConstants
  PROVE  Spec => []GateIsSafe
BY InUseStaysOpen, RefreshIsAlone, PendingIsExact, ClosedAtMostOnce, PTL DEF GateIsSafe

-----------------------------------------------------------------------------
(* The bindings of Search (SearchBindings). *)

Products == UNION {Items[g] : g \in Generations}

GenOrNone == Generations \cup {NoBinding}

Client == [step : Steps, id : Idents \cup {NoBinding}, gen : GenOrNone,
           hidden : SUBSET Products, got : SUBSET Products, sent : SUBSET Products]

Request == [stage : {"none", "entered", "expire"}, denied : SUBSET Products]

Services == <<serving, readerCount, replaced, endings, entries, call>>

ServiceTyped ==
  /\ serving \in Generations /\ replaced \subseteq Generations
  /\ readerCount \in [Generations -> Nat] /\ endings \in [Generations -> Nat]
  /\ entries \in [Idents -> [gen : GenOrNone, left : 0..Lease]] /\ IsFiniteSet(Live)
  /\ call \in [Calls -> GenOrNone]

(* What is read is current or retired, what is retired was current before, *)
(* and only what is neither current, retired nor yet to come was closed. *)
Shelves ==
  /\ \A g \in Generations : readerCount[g] > 0 => g = serving \/ g \in replaced
  /\ \A g \in replaced : g < serving
  /\ \A g \in Generations : endings[g] <= 1 /\ (g >= serving \/ g \in replaced => endings[g] = 0)

ServiceInv == ServiceTyped /\ ReadersExact /\ Shelves

ClientTyped ==
  /\ expiring \subseteq Idents /\ IsFiniteSet(expiring)
  /\ ready \in BOOLEAN /\ denied \subseteq Products
  /\ client \in [Clients -> Client] /\ request \in [Clients -> Request]

(* A request under way is of a client that asks, and carries what was *)
(* deleted when it was sent. What a client has got so far is visible under *)
(* its contract, and it is all of that once the pages are read. *)
View(v, q) ==
  /\ q.stage # "none" => v.step \in Asking /\ q.denied = v.sent
  /\ q.stage = "expire" => v.step = "bind"
  /\ v.step \in {"none", "contract", "bind"} => v.got = {}
  /\ v.step \notin {"none", "contract", "close"} => v.gen \in Generations
  /\ v.step = "pages" => v.got \subseteq Items[v.gen] \ v.hidden
  /\ v.step \in {"check", "using", "refused", "recheck"} => v.got = Items[v.gen] \ v.hidden
  /\ v.step = "using" => v.sent = v.hidden

ViewAt(c) == View(client[c], request[c])

BindInv == ServiceInv /\ ClientTyped /\ \A c \in Clients : ViewAt(c)

----------------------------------------------------------------------------
(* Counting readers. *)

LEMMA FewReaders ==
  ASSUME BindingConstants, ServiceTyped, NEW g \in Generations
  PROVE  /\ IsFiniteSet(Bound(g)) /\ IsFiniteSet(Holding(g))
         /\ Cardinality(Bound(g)) \in Nat /\ Cardinality(Holding(g)) \in Nat
<1>1. Bound(g) \subseteq Live /\ Holding(g) \subseteq Calls
  BY DEF Bound, Live, Holding, BindingConstants
<1>2. IsFiniteSet(Live) /\ IsFiniteSet(Calls)
  BY DEF ServiceTyped, BindingConstants
<1>3. IsFiniteSet(Bound(g)) /\ IsFiniteSet(Holding(g))
  BY <1>1, <1>2, FS_Subset
<1> QED BY <1>3, FS_CardinalityType

(* A generation that a binding or a call names has a reader. *)
LEMMA NamedIsRead ==
  ASSUME BindingConstants, ServiceTyped, ReadersExact, NEW g \in Generations,
         Bound(g) # {} \/ Holding(g) # {}
  PROVE  readerCount[g] > 0
<1>1. Cardinality(Bound(g)) # 0 \/ Cardinality(Holding(g)) # 0
  BY FewReaders, FS_EmptySet
<1>2. readerCount[g] = Cardinality(Bound(g)) + Cardinality(Holding(g))
  BY DEF ReadersExact
<1> QED BY <1>1, <1>2, FewReaders

(* The same generation for every binding. *)
LEMMA SameHolders ==
  ASSUME ServiceInv, UNCHANGED <<serving, readerCount, replaced, endings, call>>,
         entries' \in [Idents -> [gen : GenOrNone, left : 0..Lease]],
         \A i \in Idents : entries'[i].gen = entries[i].gen
  PROVE  ServiceInv'
<1>1. Live' = Live /\ \A g \in Generations : Bound(g)' = Bound(g) /\ Holding(g)' = Holding(g)
  BY DEF Live, Bound, Holding
<1> QED BY <1>1 DEF ServiceInv, ServiceTyped, ReadersExact, Shelves

(* _release_reader: one reader less, and the last one closes. *)
LEMMA ReleaseKeepsPlaces ==
  ASSUME BindingConstants, ServiceTyped, Shelves, NEW g \in Generations, readerCount[g] > 0, ReleaseReader(g)
  PROVE  /\ Shelves' /\ serving' \in Generations /\ replaced' \subseteq Generations
         /\ readerCount' \in [Generations -> Nat] /\ endings' \in [Generations -> Nat]
         /\ readerCount'[g] = readerCount[g] - 1
         /\ \A h \in Generations : h # g => readerCount'[h] = readerCount[h]
<1>1. Generations \subseteq Nat /\ serving \in Generations
  BY DEF BindingConstants, ServiceTyped
<1>2. /\ readerCount' = [readerCount EXCEPT ![g] = @ - 1] /\ serving' = serving
      /\ readerCount \in [Generations -> Nat] /\ endings \in [Generations -> Nat]
  BY DEF ReleaseReader, ServiceTyped
<1>3. /\ readerCount' \in [Generations -> Nat] /\ readerCount'[g] = readerCount[g] - 1
      /\ \A h \in Generations : h # g => readerCount'[h] = readerCount[h]
  BY <1>2
<1>4. CASE readerCount[g] = 1 /\ g \in replaced
  <2>1. replaced' = replaced \ {g} /\ endings' = [endings EXCEPT ![g] = @ + 1]
    BY <1>4 DEF ReleaseReader
  <2>2. g < serving /\ endings[g] = 0
    BY <1>4 DEF Shelves
  <2>3. endings' \in [Generations -> Nat] /\ endings'[g] = 1
        /\ \A h \in Generations : h # g => endings'[h] = endings[h]
    BY <1>2, <2>1, <2>2
  <2>4. Shelves'
    BY <1>1, <1>2, <1>3, <1>4, <2>1, <2>2, <2>3 DEF Shelves
  <2> QED BY <1>2, <1>3, <2>1, <2>3, <2>4 DEF ServiceTyped
<1>5. CASE ~(readerCount[g] = 1 /\ g \in replaced)
  <2>1. UNCHANGED <<replaced, endings>>
    BY <1>5 DEF ReleaseReader
  <2>2. Shelves'
    BY <1>1, <1>2, <1>3, <2>1 DEF Shelves
  <2> QED BY <1>2, <1>3, <2>1, <2>2 DEF ServiceTyped
<1> QED BY <1>4, <1>5

(* release() of a binding, by whoever pops it. *)
LEMMA ReleaseCounted ==
  ASSUME BindingConstants, ServiceInv, NEW i \in Idents, Release(i), call' = call
  PROVE  ServiceInv'
<1>1. /\ entries' = [entries EXCEPT ![i] = NoEntry]
      /\ entries \in [Idents -> [gen : GenOrNone, left : 0..Lease]]
      /\ NoEntry \in [gen : GenOrNone, left : 0..Lease] /\ NoEntry.gen = NoBinding
  BY DEF Release, ServiceInv, ServiceTyped, NoEntry, GenOrNone, BindingConstants
<1>2. /\ entries' \in [Idents -> [gen : GenOrNone, left : 0..Lease]]
      /\ entries'[i].gen = NoBinding /\ \A k \in Idents : k # i => entries'[k].gen = entries[k].gen
  BY <1>1
<1>3. CASE i \notin Live
  <2>1. entries[i].gen = NoBinding /\ ServiceFrame
    BY <1>3 DEF Live, Release
  <2> QED BY <1>2, <2>1, SameHolders DEF ServiceFrame
<1>4. CASE i \in Live
  <2> DEFINE g == entries[i].gen
  <2>1. g \in Generations /\ ReleaseReader(g) /\ i \in Bound(g)
    BY <1>1, <1>4 DEF Live, Bound, Release, GenOrNone
  <2>2. readerCount[g] > 0
    BY <2>1, NamedIsRead DEF ServiceInv
  <2> HIDE DEF g
  <2>3. /\ Shelves' /\ serving' \in Generations /\ replaced' \subseteq Generations
        /\ readerCount' \in [Generations -> Nat] /\ endings' \in [Generations -> Nat]
        /\ readerCount'[g] = readerCount[g] - 1
        /\ \A h \in Generations : h # g => readerCount'[h] = readerCount[h]
    BY <2>1, <2>2, ReleaseKeepsPlaces DEF ServiceInv
  <2>4. Live' = Live \ {i} /\ IsFiniteSet(Live \ {i})
    BY <1>2, <1>4, FS_RemoveElement DEF Live, ServiceInv, ServiceTyped
  <2>5. ASSUME NEW h \in Generations
        PROVE  readerCount'[h] = Cardinality(Bound(h)') + Cardinality(Holding(h)')
    <3>1. Holding(h)' = Holding(h)
      BY DEF Holding
    <3>2. readerCount[h] = Cardinality(Bound(h)) + Cardinality(Holding(h))
      BY DEF ServiceInv, ReadersExact
    <3>3. IsFiniteSet(Bound(h)) /\ Cardinality(Bound(h)) \in Nat /\ Cardinality(Holding(h)) \in Nat
      BY FewReaders DEF ServiceInv
    <3>4. CASE h = g
      <4>1. Bound(h)' = Bound(h) \ {i} /\ i \in Bound(h)
        BY <1>2, <2>1, <3>4 DEF Bound, BindingConstants
      <4>2. Cardinality(Bound(h) \ {i}) = Cardinality(Bound(h)) - 1
        BY <3>3, <4>1, FS_RemoveElement
      <4> QED BY <2>3, <3>1, <3>2, <3>3, <3>4, <4>1, <4>2
    <3>5. CASE h # g
      <4>1. Bound(h)' = Bound(h)
        BY <1>2, <2>1, <3>5 DEF Bound, BindingConstants, g
      <4> QED BY <2>3, <3>1, <3>2, <3>5, <4>1
    <3> QED BY <3>4, <3>5
  <2>6. call' \in [Calls -> GenOrNone]
    BY DEF ServiceInv, ServiceTyped
  <2> QED BY <1>2, <2>3, <2>4, <2>5, <2>6 DEF ServiceInv, ServiceTyped, ReadersExact
<1> QED BY <1>3, <1>4

(* acquire(): a new binding of the current generation. *)
LEMMA BindCounted ==
  ASSUME BindingConstants, ServiceInv, NEW i \in Idents, i \notin Live,
         entries' = [entries EXCEPT ![i] = [gen |-> serving, left |-> Lease]],
         readerCount' = [readerCount EXCEPT ![serving] = @ + 1],
         UNCHANGED <<serving, replaced, endings, call>>
  PROVE  ServiceInv'
<1>1. /\ serving \in Generations /\ Lease \in 0..Lease /\ NoBinding \notin Generations
      /\ entries \in [Idents -> [gen : GenOrNone, left : 0..Lease]]
      /\ readerCount \in [Generations -> Nat] /\ entries[i].gen = NoBinding
  BY DEF ServiceInv, ServiceTyped, BindingConstants, Live
<1>2. /\ entries' \in [Idents -> [gen : GenOrNone, left : 0..Lease]]
      /\ entries'[i].gen = serving /\ \A k \in Idents : k # i => entries'[k].gen = entries[k].gen
  BY <1>1 DEF GenOrNone
<1>3. /\ readerCount' \in [Generations -> Nat] /\ readerCount'[serving] = readerCount[serving] + 1
      /\ \A h \in Generations : h # serving => readerCount'[h] = readerCount[h]
  BY <1>1
<1>4. Live' = Live \cup {i} /\ IsFiniteSet(Live \cup {i})
  <2>1. Live' = Live \cup {i}
    BY <1>1, <1>2 DEF Live
  <2>2. IsFiniteSet(Live)
    BY DEF ServiceInv, ServiceTyped
  <2> QED BY <2>1, <2>2, FS_AddElement
<1>5. ASSUME NEW h \in Generations
      PROVE  readerCount'[h] = Cardinality(Bound(h)') + Cardinality(Holding(h)')
  <2>1. Holding(h)' = Holding(h)
    BY DEF Holding
  <2>2. readerCount[h] = Cardinality(Bound(h)) + Cardinality(Holding(h))
    BY DEF ServiceInv, ReadersExact
  <2>3. IsFiniteSet(Bound(h)) /\ Cardinality(Bound(h)) \in Nat /\ Cardinality(Holding(h)) \in Nat
    BY FewReaders DEF ServiceInv
  <2>4. CASE h = serving
    <3>1. Bound(h)' = Bound(h) \cup {i} /\ i \notin Bound(h)
      BY <1>1, <1>2, <2>4 DEF Bound
    <3>2. Cardinality(Bound(h) \cup {i}) = Cardinality(Bound(h)) + 1
      BY <2>3, <3>1, FS_AddElement
    <3> QED BY <1>3, <2>1, <2>2, <2>3, <2>4, <3>1, <3>2
  <2>5. CASE h # serving
    <3>1. Bound(h)' = Bound(h)
      BY <1>1, <1>2, <2>5 DEF Bound
    <3> QED BY <1>3, <2>1, <2>2, <2>5, <3>1
  <2> QED BY <2>4, <2>5
<1>6. Shelves'
  BY <1>1, <1>3 DEF ServiceInv, Shelves, BindingConstants
<1> QED BY <1>2, <1>3, <1>4, <1>5, <1>6 DEF ServiceInv, ServiceTyped, ReadersExact

(* A call that begins or ends. *)
LEMMA CallCounted ==
  ASSUME BindingConstants, ServiceInv, NEW r \in Calls, CallStart(r) \/ CallEnd(r)
  PROVE  ServiceInv'
<1>1. /\ serving \in Generations /\ NoBinding \notin Generations
      /\ readerCount \in [Generations -> Nat] /\ call \in [Calls -> GenOrNone] /\ entries' = entries
  BY DEF ServiceInv, ServiceTyped, BindingConstants, CallStart, CallEnd
<1>2. Live' = Live /\ \A h \in Generations : Bound(h)' = Bound(h)
  BY <1>1 DEF Live, Bound
<1>3. CASE CallStart(r)
  <2>1. /\ call[r] = NoBinding /\ call' \in [Calls -> GenOrNone] /\ call'[r] = serving
        /\ \A q \in Calls : q # r => call'[q] = call[q]
    BY <1>1, <1>3 DEF CallStart, GenOrNone
  <2>2. /\ readerCount' \in [Generations -> Nat] /\ readerCount'[serving] = readerCount[serving] + 1
        /\ \A h \in Generations : h # serving => readerCount'[h] = readerCount[h]
        /\ UNCHANGED <<serving, replaced, endings>>
    BY <1>1, <1>3 DEF CallStart
  <2>3. ASSUME NEW h \in Generations
        PROVE  readerCount'[h] = Cardinality(Bound(h)') + Cardinality(Holding(h)')
    <3>1. readerCount[h] = Cardinality(Bound(h)) + Cardinality(Holding(h))
      BY DEF ServiceInv, ReadersExact
    <3>2. IsFiniteSet(Holding(h)) /\ Cardinality(Bound(h)) \in Nat /\ Cardinality(Holding(h)) \in Nat
      BY FewReaders DEF ServiceInv
    <3>3. CASE h = serving
      <4>1. Holding(h)' = Holding(h) \cup {r} /\ r \notin Holding(h)
        BY <1>1, <2>1, <3>3 DEF Holding
      <4>2. Cardinality(Holding(h) \cup {r}) = Cardinality(Holding(h)) + 1
        BY <3>2, <4>1, FS_AddElement
      <4> QED BY <1>2, <2>2, <3>1, <3>2, <3>3, <4>1, <4>2
    <3>4. CASE h # serving
      <4>1. Holding(h)' = Holding(h)
        BY <1>1, <2>1, <3>4 DEF Holding
      <4> QED BY <1>2, <2>2, <3>1, <3>4, <4>1
    <3> QED BY <3>3, <3>4
  <2>4. Shelves'
    BY <1>1, <2>2 DEF ServiceInv, Shelves, BindingConstants
  <2> QED BY <1>1, <1>2, <2>1, <2>2, <2>3, <2>4 DEF ServiceInv, ServiceTyped, ReadersExact
<1>4. CASE CallEnd(r)
  <2> DEFINE g == call[r]
  <2>1. g \in Generations /\ ReleaseReader(g) /\ r \in Holding(g)
    BY <1>1, <1>4 DEF CallEnd, GenOrNone, Holding
  <2>2. /\ call' \in [Calls -> GenOrNone] /\ call'[r] = NoBinding
        /\ \A q \in Calls : q # r => call'[q] = call[q]
    BY <1>1, <1>4 DEF CallEnd, GenOrNone
  <2>3. readerCount[g] > 0
    BY <2>1, NamedIsRead DEF ServiceInv
  <2> HIDE DEF g
  <2>4. /\ Shelves' /\ serving' \in Generations /\ replaced' \subseteq Generations
        /\ readerCount' \in [Generations -> Nat] /\ endings' \in [Generations -> Nat]
        /\ readerCount'[g] = readerCount[g] - 1
        /\ \A h \in Generations : h # g => readerCount'[h] = readerCount[h]
    BY <2>1, <2>3, ReleaseKeepsPlaces DEF ServiceInv
  <2>5. ASSUME NEW h \in Generations
        PROVE  readerCount'[h] = Cardinality(Bound(h)') + Cardinality(Holding(h)')
    <3>1. readerCount[h] = Cardinality(Bound(h)) + Cardinality(Holding(h))
      BY DEF ServiceInv, ReadersExact
    <3>2. IsFiniteSet(Holding(h)) /\ Cardinality(Bound(h)) \in Nat /\ Cardinality(Holding(h)) \in Nat
      BY FewReaders DEF ServiceInv
    <3>3. CASE h = g
      <4>1. Holding(h)' = Holding(h) \ {r} /\ r \in Holding(h)
        BY <1>1, <2>1, <2>2, <3>3 DEF Holding
      <4>2. Cardinality(Holding(h) \ {r}) = Cardinality(Holding(h)) - 1
        BY <3>2, <4>1, FS_RemoveElement
      <4> QED BY <1>2, <2>4, <3>1, <3>2, <3>3, <4>1, <4>2
    <3>4. CASE h # g
      <4>1. Holding(h)' = Holding(h)
        BY <1>1, <2>1, <2>2, <3>4 DEF Holding
      <4> QED BY <1>2, <2>4, <3>1, <3>4, <4>1
    <3> QED BY <3>3, <3>4
  <2>6. entries' \in [Idents -> [gen : GenOrNone, left : 0..Lease]] /\ IsFiniteSet(Live')
    BY <1>1, <1>2 DEF ServiceInv, ServiceTyped
  <2> QED BY <2>2, <2>4, <2>5, <2>6 DEF ServiceInv, ServiceTyped, ReadersExact
<1> QED BY <1>3, <1>4

(* swap(): what nobody reads is closed at once. *)
LEMMA SwapKeeps ==
  ASSUME BindingConstants, ServiceInv, SwapService
  PROVE  ServiceInv'
<1>1. /\ serving \in Generations /\ Generations \subseteq Nat /\ serving' = serving + 1
      /\ serving + 1 \in Generations /\ UNCHANGED <<readerCount, entries, call>>
      /\ endings \in [Generations -> Nat] /\ replaced \subseteq Generations
  BY DEF ServiceInv, ServiceTyped, BindingConstants, SwapService
<1>2. Live' = Live /\ \A g \in Generations : Bound(g)' = Bound(g) /\ Holding(g)' = Holding(g)
  BY <1>1 DEF Live, Bound, Holding
<1>3. endings[serving] = 0 /\ serving \notin replaced /\ readerCount \in [Generations -> Nat]
  BY <1>1 DEF ServiceInv, ServiceTyped, Shelves
<1>4. CASE Unread(serving)
  <2>1. endings' = [endings EXCEPT ![serving] = @ + 1] /\ replaced' = replaced
    BY <1>4 DEF SwapService
  <2>2. endings' \in [Generations -> Nat] /\ endings'[serving] = 1
        /\ \A h \in Generations : h # serving => endings'[h] = endings[h]
    BY <1>1, <1>3, <2>1
  <2>3. Shelves'
    BY <1>1, <1>3, <1>4, <2>1, <2>2 DEF ServiceInv, Shelves, Unread
  <2> QED BY <1>1, <1>2, <2>1, <2>2, <2>3 DEF ServiceInv, ServiceTyped, ReadersExact
<1>5. CASE ~Unread(serving)
  <2>1. replaced' = replaced \cup {serving} /\ endings' = endings
    BY <1>5 DEF SwapService
  <2>2. Shelves'
    BY <1>1, <1>3, <2>1 DEF ServiceInv, Shelves
  <2> QED BY <1>1, <1>2, <2>1, <2>2 DEF ServiceInv, ServiceTyped, ReadersExact
<1> QED BY <1>4, <1>5

----------------------------------------------------------------------------
(* Identifiers. *)

(* The values of a function on a finite set are finitely many. *)
LEMMA FewValues ==
  ASSUME NEW S, IsFiniteSet(S), NEW f, NEW R, \A y \in R : \E x \in S : y = f[x]
  PROVE  IsFiniteSet(R)
<1> DEFINE g == [x \in S |-> f[x]]
           T == {f[x] : x \in S}
<1>1. g \in Surjection(S, T)
  BY DEF Surjection
<1>2. IsFiniteSet(T)
  BY <1>1, FS_Surjection
<1>3. R \subseteq T
  OBVIOUS
<1> QED BY <1>2, <1>3, FS_Subset

(* There is an identifier that names no binding and that nobody knows. *)
LEMMA FreshIdent ==
  ASSUME BindingConstants, ~IsFiniteSet(Idents), ServiceInv, ClientTyped
  PROVE  (CHOOSE k \in Fresh : TRUE) \in Idents \ Live
<1> DEFINE f == [c \in Clients |-> client[c].id]
           Named == {client[c].id : c \in Clients}
<1>1. IsFiniteSet(Named)
  <2>1. \A y \in Named : \E c \in Clients : y = f[c]
    OBVIOUS
  <2> HIDE DEF Named, f
  <2> QED BY <2>1, FewValues DEF BindingConstants
<1>2. IsFiniteSet(Live \cup expiring)
  BY FS_Union DEF ServiceInv, ServiceTyped, ClientTyped
<1>3. IsFiniteSet((Live \cup expiring) \cup Named)
  <2> HIDE DEF Named
  <2> QED BY <1>1, <1>2, FS_Union
<1>4. Fresh # {}
  <2>1. SUFFICES ASSUME Fresh = {} PROVE FALSE
    OBVIOUS
  <2>2. Idents \subseteq (Live \cup expiring) \cup Named
    BY <2>1 DEF Fresh
  <2> HIDE DEF Named
  <2> QED BY <1>3, <2>2, FS_Subset
<1>5. (CHOOSE k \in Fresh : TRUE) \in Fresh
  BY <1>4
<1> QED BY <1>5 DEF Fresh

----------------------------------------------------------------------------
(* What requests and clients do to the service. *)

LEMMA StepServes ==
  ASSUME BindingConstants, ~IsFiniteSet(Idents), ServiceInv, ClientTyped, [BindingsNext]_bindingsVars
  PROVE  ServiceInv'
<1>1. ASSUME UNCHANGED Services PROVE ServiceInv'
  BY <1>1, SameHolders DEF Services, ServiceInv, ServiceTyped
<1>2. CASE UNCHANGED bindingsVars
  BY <1>1, <1>2 DEF bindingsVars, Services
<1>3. CASE Deny \/ Unready \/ Reopen \/ Watch
  BY <1>1, <1>3 DEF Deny, Unready, Reopen, Watch, ServiceFrame, Services
<1>4. CASE SwapService
  BY <1>4, SwapKeeps
<1>5. CASE Tick
  <2>1. /\ entries' \in [Idents -> [gen : GenOrNone, left : 0..Lease]]
        /\ \A i \in Idents : entries'[i].gen = entries[i].gen
    BY <1>5 DEF Tick, ServiceInv, ServiceTyped, BindingConstants
  <2> QED BY <1>5, <2>1, SameHolders DEF Tick, ServiceFrame
<1>6. CASE WatchRelease
  BY <1>6, ReleaseCounted DEF WatchRelease, ClientTyped
<1>7. ASSUME NEW r \in Calls, CallStart(r) \/ CallEnd(r) PROVE ServiceInv'
  BY <1>7, CallCounted
<1>8. ASSUME NEW c \in Clients, OpenCatalog(c) \/ Use(c) \/ Leave(c) \/ Crash(c) PROVE ServiceInv'
  BY <1>1, <1>8 DEF OpenCatalog, Use, Leave, Crash, ClientSteps, ServiceFrame, RequestFrame, Services
<1>9. ASSUME NEW c \in Clients, CloseCatalog(c) PROVE ServiceInv'
  <2>1. call' = call
    BY <1>9 DEF CloseCatalog, RequestFrame
  <2>2. CASE client[c].id # NoBinding /\ Release(client[c].id)
    <3>1. client[c].id \in Idents
      BY <2>2 DEF ClientTyped, Client
    <3> QED BY <2>1, <2>2, <3>1, ReleaseCounted
  <2>3. CASE UNCHANGED entries /\ ServiceFrame
    BY <1>1, <2>1, <2>3 DEF ServiceFrame, Services
  <2> QED BY <1>9, <2>2, <2>3 DEF CloseCatalog
<1>10. ASSUME NEW c \in Clients, Requests(c) PROVE ServiceInv'
  <2>1. call' = call
    BY <1>10 DEF Requests, Send, Contract, Retain, RetainExpire, Acquire, AcquireUnanswered,
                 Page, Check, Refuse, RequestFrame
  <2>2. CASE Send(c) \/ Contract(c) \/ Retain(c) \/ Refuse(c)
    BY <1>1, <2>1, <2>2 DEF Send, Contract, Retain, Refuse, ServiceFrame, Services
  <2>3. CASE RetainExpire(c)
    BY <2>1, <2>3, ReleaseCounted DEF RetainExpire, Expired, Live
  <2>4. CASE Acquire(c) \/ AcquireUnanswered(c)
    <3> DEFINE i == CHOOSE k \in Fresh : TRUE
    <3>1. i \in Idents /\ i \notin Live
      BY FreshIdent
    <3>2. UNCHANGED <<serving, replaced, endings, call>>
      BY <2>1, <2>4 DEF Acquire, AcquireUnanswered
    <3>3. CASE /\ entries' = [entries EXCEPT ![i] = [gen |-> serving, left |-> Lease]]
               /\ readerCount' = [readerCount EXCEPT ![serving] = @ + 1]
      <4> HIDE DEF i
      <4> QED BY <3>1, <3>2, <3>3, BindCounted
    <3>4. CASE UNCHANGED <<entries, readerCount>>
      BY <1>1, <3>2, <3>4 DEF Services
    <3> QED BY <2>4, <3>3, <3>4 DEF Acquire, AcquireUnanswered
  <2>5. CASE Page(c) \/ Check(c)
    <3>1. ServiceFrame /\ (UNCHANGED entries \/ (Renew(client[c].id) /\ client[c].id \in Idents))
      BY <2>5 DEF Page, Check, Resolves, Live
    <3>2. CASE UNCHANGED entries
      BY <1>1, <2>1, <3>1, <3>2 DEF ServiceFrame, Services
    <3>3. CASE Renew(client[c].id) /\ client[c].id \in Idents
      <4>1. /\ entries' \in [Idents -> [gen : GenOrNone, left : 0..Lease]]
            /\ \A i \in Idents : entries'[i].gen = entries[i].gen
        BY <3>3 DEF Renew, ServiceInv, ServiceTyped, BindingConstants
      <4> QED BY <2>1, <3>1, <4>1, SameHolders DEF ServiceFrame
    <3> QED BY <3>1, <3>2, <3>3
  <2> QED BY <1>10, <2>2, <2>3, <2>4, <2>5 DEF Requests
<1> QED BY <1>2, <1>3, <1>4, <1>5, <1>6, <1>7, <1>8, <1>9, <1>10 DEF BindingsNext

----------------------------------------------------------------------------
(* What a client sees. *)

Viewed == \A c \in Clients : ViewAt(c)

(* A step of one client. *)
Moves(c) ==
  /\ client' \in [Clients -> Client] /\ request' \in [Clients -> Request]
  /\ \A d \in Clients : d # c => client'[d] = client[d] /\ request'[d] = request[d]
  /\ View(client'[c], request'[c])

LEMMA OneMoves ==
  ASSUME Viewed, NEW c \in Clients, Moves(c)
  PROVE  Viewed'
BY DEF Viewed, ViewAt, Moves

(* What it becomes, and its request. *)
LEMMA Become ==
  ASSUME ClientTyped, NEW c \in Clients, NEW v \in Client, NEW q \in Request, View(v, q),
         client' = [client EXCEPT ![c] = v], request' = [request EXCEPT ![c] = q]
  PROVE  Moves(c)
BY DEF Moves, ClientTyped

LEMMA NoClients ==
  /\ NoClient \in Client /\ View(NoClient, NoRequest) /\ NoRequest \in Request
BY DEF NoClient, NoRequest, Client, Request, View, Asking, Steps, GenOrNone

LEMMA ClosingView ==
  ASSUME ClientTyped, NEW c \in Clients, NEW i \in Idents \cup {NoBinding}
  PROVE  /\ Closing(c) \in Client /\ View(Closing(c), NoRequest)
         /\ [Closing(c) EXCEPT !.id = i] \in Client /\ View([Closing(c) EXCEPT !.id = i], NoRequest)
<1>1. client[c].id \in Idents \cup {NoBinding}
  BY DEF ClientTyped, Client
<1>2. Closing(c) = [NoClient EXCEPT !.step = "close", !.id = client[c].id]
  BY DEF Closing
<1> QED BY <1>1, <1>2 DEF NoClient, NoRequest, Client, View, Asking, Steps, GenOrNone

LEMMA FailedMoves ==
  ASSUME ClientTyped, Viewed, NEW c \in Clients, Failed(c)
  PROVE  Moves(c)
<1>1. client[c] \in Client /\ View(client[c], request[c]) /\ NoRequest \in Request
  BY NoClients DEF ClientTyped, Viewed, ViewAt
<1>2. CASE client[c].step = "recheck"
  <2> DEFINE v == [client[c] EXCEPT !.step = "refused"]
  <2>1. v \in Client /\ View(v, NoRequest)
    BY <1>1, <1>2 DEF Client, View, NoRequest, Asking, Steps
  <2>2. client' = [client EXCEPT ![c] = v] /\ request' = [request EXCEPT ![c] = NoRequest]
    BY <1>2 DEF Failed, Done
  <2> HIDE DEF v
  <2> QED BY <1>1, <2>1, <2>2, Become
<1>3. CASE client[c].step # "recheck"
  <2>1. client' = [client EXCEPT ![c] = Closing(c)] /\ request' = [request EXCEPT ![c] = NoRequest]
    BY <1>3 DEF Failed, Done
  <2>2. Closing(c) \in Client /\ View(Closing(c), NoRequest)
    BY ClosingView
  <2> QED BY <1>1, <2>1, <2>2, Become
<1> QED BY <1>2, <1>3

(* The pages: as many products as the contract counts are all of them. *)
LEMMA AllPages ==
  ASSUME BindingConstants, NEW g \in Generations, NEW H, NEW G,
         G \subseteq Items[g] \ H, Cardinality(G) = Cardinality(Items[g] \ H)
  PROVE  G = Items[g] \ H
<1>1. IsFiniteSet(Items[g])
  BY DEF BindingConstants
<1>2. IsFiniteSet(Items[g] \ H)
  BY <1>1, FS_Subset
<1> QED BY <1>2, FS_Subset

LEMMA ItemsKnown ==
  ASSUME NEW g \in Generations
  PROVE  Items[g] \subseteq Products
BY DEF Products

LEMMA PageMoves ==
  ASSUME BindingConstants, ClientTyped, Viewed, NEW c \in Clients, Page(c)
  PROVE  Moves(c)
<1> DEFINE g == client[c].gen
           page == PageAt(c, g, Cardinality(client[c].got))
           got == client[c].got \cup page
           to == IF Cardinality(got) = Count(c) THEN "check" ELSE "pages"
           v == [client[c] EXCEPT !.got = got, !.step = to]
<1>1. client[c] \in Client /\ View(client[c], request[c]) /\ NoRequest \in Request
  BY NoClients DEF ClientTyped, Viewed, ViewAt
<1>2. client[c].step = "pages"
  BY DEF Page, Entered
<1>3. CASE Failed(c)
  BY <1>3, FailedMoves
<1>4. CASE SameContract(c, g) /\ Done(c, v)
  <2>1. g \in Generations /\ client[c].got \subseteq Items[g] \ client[c].hidden
    BY <1>1, <1>2 DEF View
  <2>2. page \subseteq Items[g] \ client[c].hidden
    BY <1>4 DEF PageAt, Visible, SameContract
  <2>3. got \subseteq Items[g] \ client[c].hidden /\ got \in SUBSET Products
    BY <2>1, <2>2, ItemsKnown
  <2>4. to \in {"pages", "check"}
    OBVIOUS
  <2>5. to = "check" => got = Items[g] \ client[c].hidden
    <3>1. SUFFICES ASSUME to = "check" PROVE got = Items[g] \ client[c].hidden
      OBVIOUS
    <3>2. Cardinality(got) = Cardinality(Items[g] \ client[c].hidden)
      BY <3>1 DEF Count
    <3> HIDE DEF got, g, to
    <3> QED BY <2>1, <2>3, <3>2, AllPages
  <2>6. client' = [client EXCEPT ![c] = v] /\ request' = [request EXCEPT ![c] = NoRequest]
    BY <1>4 DEF Done
  <2>7. v \in Client
    <3> HIDE DEF got, to
    <3> QED BY <1>1, <2>3, <2>4 DEF Client, Steps, Asking
  <2>8. v.step = to /\ v.got = got /\ v.gen = g /\ v.hidden = client[c].hidden
    <3> HIDE DEF got, to
    <3> QED BY <1>1 DEF Client
  <2>9. View(v, NoRequest)
    <3> HIDE DEF got, to, v, g
    <3> QED BY <2>1, <2>3, <2>4, <2>5, <2>8 DEF View, NoRequest
  <2> HIDE DEF v
  <2> QED BY <1>1, <2>6, <2>7, <2>9, Become
<1> QED BY <1>3, <1>4 DEF Page

LEMMA CheckMoves ==
  ASSUME ClientTyped, Viewed, NEW c \in Clients, Check(c)
  PROVE  Moves(c)
<1> DEFINE v == [client[c] EXCEPT !.step = "using"]
<1>1. client[c] \in Client /\ View(client[c], request[c]) /\ NoRequest \in Request
  BY NoClients DEF ClientTyped, Viewed, ViewAt
<1>2. client[c].step \in {"check", "recheck"} /\ request[c].stage = "entered"
  BY DEF Check, Entered
<1>3. CASE Failed(c)
  BY <1>3, FailedMoves
<1>4. CASE SameContract(c, client[c].gen) /\ Done(c, v)
  <2>1. client[c].sent = client[c].hidden
    BY <1>1, <1>2, <1>4 DEF View, SameContract
  <2>2. v \in Client /\ View(v, NoRequest)
    BY <1>1, <1>2, <2>1 DEF Client, View, NoRequest, Steps, Asking
  <2>3. client' = [client EXCEPT ![c] = v] /\ request' = [request EXCEPT ![c] = NoRequest]
    BY <1>4 DEF Done
  <2> HIDE DEF v
  <2> QED BY <1>1, <2>2, <2>3, Become
<1> QED BY <1>3, <1>4 DEF Check

LEMMA AcquireMoves ==
  ASSUME BindingConstants, ~IsFiniteSet(Idents), ServiceInv, ClientTyped, Viewed,
         NEW c \in Clients, Acquire(c) \/ AcquireUnanswered(c)
  PROVE  Moves(c)
<1> DEFINE i == CHOOSE k \in Fresh : TRUE
<1>1. client[c] \in Client /\ View(client[c], request[c]) /\ NoRequest \in Request
  BY NoClients DEF ClientTyped, Viewed, ViewAt
<1>2. client[c].step = "bind" /\ client[c].got = {} /\ client[c].gen \in Generations
  BY <1>1 DEF Acquire, AcquireUnanswered, View
<1>3. i \in Idents
  BY FreshIdent
<1>4. CASE Failed(c)
  BY <1>4, FailedMoves
<1>5. CASE Done(c, [[client[c] EXCEPT !.step = "pages"] EXCEPT !.id = i])
  <2> DEFINE v == [[client[c] EXCEPT !.step = "pages"] EXCEPT !.id = i]
  <2>1. client' = [client EXCEPT ![c] = v] /\ request' = [request EXCEPT ![c] = NoRequest]
    BY <1>5 DEF Done
  <2> HIDE DEF i
  <2>2. v \in Client /\ View(v, NoRequest)
    BY <1>1, <1>2, <1>3 DEF Client, View, NoRequest, Steps, Asking
  <2> HIDE DEF v
  <2> QED BY <1>1, <2>1, <2>2, Become
<1>6. CASE Done(c, [Closing(c) EXCEPT !.id = i])
  <2> DEFINE v == [Closing(c) EXCEPT !.id = i]
  <2>1. client' = [client EXCEPT ![c] = v] /\ request' = [request EXCEPT ![c] = NoRequest]
    BY <1>6 DEF Done
  <2> HIDE DEF i
  <2>2. v \in Client /\ View(v, NoRequest)
    BY <1>3, ClosingView
  <2> HIDE DEF v
  <2> QED BY <1>1, <2>1, <2>2, Become
<1> QED BY <1>4, <1>5, <1>6 DEF Acquire, AcquireUnanswered

LEMMA RequestMoves ==
  ASSUME BindingConstants, ServiceInv, ClientTyped, Viewed, NEW c \in Clients,
         Send(c) \/ Contract(c) \/ Retain(c) \/ Refuse(c)
  PROVE  Moves(c)
<1>1. client[c] \in Client /\ View(client[c], request[c]) /\ NoRequest \in Request
  BY NoClients DEF ClientTyped, Viewed, ViewAt
<1>2. request[c] \in Request /\ serving \in Generations /\ denied \subseteq Products
  BY DEF ClientTyped, ServiceInv, ServiceTyped
<1>3. CASE Send(c)
  <2> DEFINE v == [client[c] EXCEPT !.sent = denied]
             q == [stage |-> "entered", denied |-> denied]
  <2>1. v \in Client /\ q \in Request /\ View(v, q)
    BY <1>1, <1>2, <1>3 DEF Send, Client, Request, View, Asking
  <2>2. client' = [client EXCEPT ![c] = v] /\ request' = [request EXCEPT ![c] = q]
    BY <1>3 DEF Send
  <2> HIDE DEF v, q
  <2> QED BY <2>1, <2>2, Become
<1>4. CASE Contract(c)
  <2> DEFINE v == [client[c] EXCEPT !.step = "bind", !.gen = serving, !.hidden = request[c].denied]
  <2>1. v \in Client /\ View(v, NoRequest)
    BY <1>1, <1>2, <1>4 DEF Contract, Entered, Client, Request, View, NoRequest, Asking, Steps, GenOrNone
  <2>2. client' = [client EXCEPT ![c] = v] /\ request' = [request EXCEPT ![c] = NoRequest]
    BY <1>4 DEF Contract, Done
  <2> HIDE DEF v
  <2> QED BY <1>1, <2>1, <2>2, Become
<1>5. CASE Retain(c) /\ ready
  <2>1. UNCHANGED client /\ request' = [request EXCEPT ![c].stage = "expire"]
    BY <1>5 DEF Retain
  <2>2. client[c].step = "bind" /\ request[c].stage = "entered"
    BY <1>5 DEF Retain, Entered
  <2>3. request'[c] \in Request /\ request'[c].stage = "expire" /\ request'[c].denied = request[c].denied
    BY <1>2, <2>1 DEF ClientTyped, Request
  <2>4. View(client'[c], request'[c])
    BY <1>1, <2>1, <2>2, <2>3 DEF View, Asking
  <2> QED BY <1>2, <2>1, <2>3, <2>4 DEF Moves, ClientTyped
<1>6. CASE Failed(c)
  BY <1>6, FailedMoves
<1> QED BY <1>3, <1>4, <1>5, <1>6 DEF Retain, Refuse

LEMMA ClientMoves ==
  ASSUME ClientTyped, Viewed, NEW c \in Clients,
         OpenCatalog(c) \/ Use(c) \/ Leave(c) \/ CloseCatalog(c) \/ Crash(c)
  PROVE  Moves(c)
<1>1. client[c] \in Client /\ View(client[c], request[c]) /\ NoRequest \in Request
  BY NoClients DEF ClientTyped, Viewed, ViewAt
<1>2. CASE CloseCatalog(c) \/ Crash(c)
  BY <1>1, <1>2, NoClients, Become DEF CloseCatalog, Crash, Done
<1>3. ASSUME NEW v \in Client, client[c].step \in {"none", "using", "refused"}, ClientSteps(c, v),
             View(v, NoRequest)
      PROVE  Moves(c)
  <2>1. request[c].stage = "none"
    BY <1>1, <1>3 DEF View, Asking, ClientTyped, Request
  <2>2. View(v, request[c])
    BY <1>3, <2>1 DEF View, NoRequest
  <2>3. client' = [client EXCEPT ![c] = v] /\ request' = request
    BY <1>3 DEF ClientSteps
  <2> QED BY <2>2, <2>3 DEF Moves, ClientTyped
<1>4. CASE OpenCatalog(c)
  <2> DEFINE v == [NoClient EXCEPT !.step = "contract"]
  <2>1. v \in Client /\ View(v, NoRequest)
    BY NoClients DEF NoClient, NoRequest, Client, View, Asking, Steps
  <2> QED BY <1>3, <1>4, <2>1 DEF OpenCatalog
<1>5. CASE Use(c)
  <2> DEFINE v == [client[c] EXCEPT !.step = "recheck"]
  <2>1. v \in Client /\ View(v, NoRequest)
    BY <1>1, <1>5 DEF Use, NoRequest, Client, View, Asking, Steps
  <2> QED BY <1>3, <1>5, <2>1 DEF Use
<1>6. CASE Leave(c)
  BY <1>3, <1>6, ClosingView DEF Leave
<1> QED BY <1>2, <1>4, <1>5, <1>6

LEMMA StepViews ==
  ASSUME BindingConstants, ~IsFiniteSet(Idents), BindInv, [BindingsNext]_bindingsVars
  PROVE  ClientTyped' /\ Viewed'
<1>1. ServiceInv /\ ClientTyped /\ Viewed
  BY DEF BindInv, Viewed
<1>2. ASSUME UNCHANGED <<client, request>>
      PROVE  Viewed' /\ client' \in [Clients -> Client] /\ request' \in [Clients -> Request]
  BY <1>1, <1>2 DEF Viewed, ViewAt, ClientTyped
<1>3. ASSUME NEW c \in Clients, Moves(c), UNCHANGED <<expiring, denied, ready>>
      PROVE  ClientTyped' /\ Viewed'
  <2>1. Viewed'
    BY <1>1, <1>3, OneMoves
  <2> QED BY <1>1, <1>3, <2>1 DEF Moves, ClientTyped
<1>4. CASE UNCHANGED <<client, request, expiring, denied, ready>>
  BY <1>1, <1>2, <1>4 DEF ClientTyped
<1>5. CASE UNCHANGED bindingsVars
  BY <1>4, <1>5 DEF bindingsVars
<1>6. CASE SwapService \/ Tick
  BY <1>4, <1>6 DEF SwapService, Tick, LoopFrame, ClientFrame
<1>7. CASE Deny \/ Unready \/ Reopen
  <2>1. UNCHANGED <<client, request, expiring>> /\ ready' \in BOOLEAN /\ denied' \subseteq Products
    BY <1>1, <1>7 DEF Deny, Unready, Reopen, ClientFrame, ClientTyped, Products
  <2> QED BY <1>1, <1>2, <2>1 DEF ClientTyped
<1>8. CASE Watch
  <2>1. UNCHANGED <<client, request, denied, ready>> /\ expiring' = Expired
    BY <1>8 DEF Watch, LoopFrame, ClientFrame
  <2>2. Expired \subseteq Live /\ Expired \subseteq Idents
    BY DEF Expired, Live
  <2>3. IsFiniteSet(Live)
    BY <1>1 DEF ServiceInv, ServiceTyped
  <2>4. IsFiniteSet(Expired)
    BY <2>2, <2>3, FS_Subset
  <2> QED BY <1>1, <1>2, <2>1, <2>2, <2>4 DEF ClientTyped
<1>9. CASE WatchRelease
  <2>1. UNCHANGED <<client, request, denied, ready>> /\ expiring' \subseteq expiring
    BY <1>9 DEF WatchRelease, LoopFrame, ClientFrame
  <2>2. IsFiniteSet(expiring') /\ expiring' \subseteq Idents
    BY <1>1, <2>1, FS_Subset DEF ClientTyped
  <2> QED BY <1>1, <1>2, <2>1, <2>2 DEF ClientTyped
<1>10. ASSUME NEW r \in Calls, CallStart(r) \/ CallEnd(r) PROVE ClientTyped' /\ Viewed'
  BY <1>4, <1>10 DEF CallStart, CallEnd, LoopFrame, ClientFrame
<1>11. ASSUME NEW c \in Clients, OpenCatalog(c) \/ Use(c) \/ Leave(c) \/ CloseCatalog(c) \/ Crash(c)
       PROVE  ClientTyped' /\ Viewed'
  <2>1. UNCHANGED <<expiring, denied, ready>>
    BY <1>11 DEF OpenCatalog, Use, Leave, CloseCatalog, Crash, ClientSteps, RequestFrame, LoopFrame
  <2>2. Moves(c)
    BY <1>1, <1>11, ClientMoves
  <2> QED BY <1>3, <2>1, <2>2
<1>12. ASSUME NEW c \in Clients, Requests(c) PROVE ClientTyped' /\ Viewed'
  <2>1. UNCHANGED <<expiring, denied, ready>>
    BY <1>12 DEF Requests, Send, Contract, Retain, RetainExpire, Acquire, AcquireUnanswered,
                 Page, Check, Refuse, RequestFrame, LoopFrame
  <2>2. CASE RetainExpire(c)
    BY <1>4, <2>1, <2>2 DEF RetainExpire
  <2>3. CASE ~RetainExpire(c)
    <3>1. Moves(c)
      BY <1>1, <1>12, <2>3, RequestMoves, AcquireMoves, PageMoves, CheckMoves DEF Requests
    <3> QED BY <1>3, <2>1, <3>1
  <2> QED BY <2>2, <2>3
<1> QED BY <1>5, <1>6, <1>7, <1>8, <1>9, <1>10, <1>11, <1>12 DEF BindingsNext

----------------------------------------------------------------------------
LEMMA BindStarts == ASSUME BindingConstants, BindingsInit PROVE BindInv
<1>1. Live = {} /\ IsFiniteSet(Live) /\ IsFiniteSet(expiring)
  BY FS_EmptySet DEF BindingsInit, Live, NoEntry
<1>2. ServiceTyped
  BY <1>1 DEF BindingsInit, ServiceTyped, NoEntry, GenOrNone, BindingConstants
<1>3. ReadersExact
  <2>1. ASSUME NEW g \in Generations PROVE Bound(g) = {} /\ Holding(g) = {}
    BY DEF Bound, Holding, BindingsInit, NoEntry, BindingConstants
  <2> QED BY <2>1, FS_EmptySet DEF ReadersExact, BindingsInit
<1>4. Shelves
  BY DEF Shelves, BindingsInit
<1>5. ClientTyped
  BY <1>1, NoClients DEF BindingsInit, ClientTyped
<1>6. \A c \in Clients : ViewAt(c)
  BY NoClients DEF BindingsInit, ViewAt
<1> QED BY <1>2, <1>3, <1>4, <1>5, <1>6 DEF BindInv, ServiceInv

LEMMA BindSteps ==
  ASSUME BindingConstants, ~IsFiniteSet(Idents), BindInv, [BindingsNext]_bindingsVars
  PROVE  BindInv'
<1>1. ServiceInv'
  BY StepServes DEF BindInv
<1>2. ClientTyped' /\ Viewed'
  BY StepViews
<1> QED BY <1>1, <1>2 DEF BindInv, Viewed

(* Everything on the server and in its clients stays of its type. *)
THEOREM BindingTypes ==
  ASSUME BindingConstants, ~IsFiniteSet(Idents)
  PROVE  BindingsSpec => []BindingsTypeOK
<1>1. BindInv => BindingsTypeOK
  BY DEF BindInv, ServiceInv, ServiceTyped, ClientTyped, BindingsTypeOK, Client, Request, GenOrNone
<1>2. BindInv /\ [BindingsNext]_bindingsVars => BindInv'
  BY BindSteps
<1> QED BY <1>1, <1>2, BindStarts, PTL DEF BindingsSpec

(* expire(), release(), a DELETE and a swap in any order give each reader *)
(* back once. *)
THEOREM ReadersAreExact ==
  ASSUME BindingConstants, ~IsFiniteSet(Idents)
  PROVE  BindingsSpec => []ReadersExact
<1>1. BindInv => ReadersExact
  BY DEF BindInv, ServiceInv
<1>2. BindInv /\ [BindingsNext]_bindingsVars => BindInv'
  BY BindSteps
<1> QED BY <1>1, <1>2, BindStarts, PTL DEF BindingsSpec

(* A generation that somebody reads is open, and none is closed twice. *)
THEOREM ReadStaysOpen ==
  ASSUME BindingConstants, ~IsFiniteSet(Idents)
  PROVE  BindingsSpec => []ReadIsOpen
<1>1. ASSUME BindInv, NEW g \in Generations,
             g = serving \/ Bound(g) # {} \/ Holding(g) # {}
      PROVE  endings[g] = 0
  <2>1. readerCount[g] > 0 \/ g = serving
    BY <1>1, NamedIsRead DEF BindInv, ServiceInv
  <2>2. g = serving \/ g \in replaced
    BY <1>1, <2>1 DEF BindInv, ServiceInv, Shelves
  <2> QED BY <1>1, <2>2 DEF BindInv, ServiceInv, ServiceTyped, Shelves, BindingConstants
<1>2. BindInv => ReadIsOpen
  BY <1>1 DEF ReadIsOpen, BindInv, ServiceInv, Shelves
<1>3. BindInv /\ [BindingsNext]_bindingsVars => BindInv'
  BY BindSteps
<1> QED BY <1>2, <1>3, BindStarts, PTL DEF BindingsSpec

(* A client has the products of one generation, but for those deleted. *)
THEOREM ClientsSeeOne ==
  ASSUME BindingConstants, ~IsFiniteSet(Idents)
  PROVE  BindingsSpec => []OneView
<1>1. BindInv => OneView
  BY DEF BindInv, ViewAt, View, OneView
<1>2. BindInv /\ [BindingsNext]_bindingsVars => BindInv'
  BY BindSteps
<1> QED BY <1>1, <1>2, BindStarts, PTL DEF BindingsSpec

(* The bindings, all of it at once, for every limit, lease and number of *)
(* clients: readers are counted exactly, what is read is open, a client *)
(* has one generation whole. *)
THEOREM BindingsAreWhole ==
  ASSUME BindingConstants, ~IsFiniteSet(Idents)
  PROVE  BindingsSpec => []BindingsHold
BY ReadersAreExact, ReadStaysOpen, ClientsSeeOne, PTL DEF BindingsHold

-----------------------------------------------------------------------------
(* The shell of the Profiler (ProfilerShell). *)

ShellPhases == {"down", "connect", "catalog", "vectors", "recover", "serving"}
Connected == {"catalog", "vectors", "recover", "serving"}
ShellTasks == [at : {"idle", "run", "catalog", "version"}, held : 0..2, wants : BOOLEAN,
               catalog : BOOLEAN]
Shells == [phase : ShellPhases, conf : Settings \cup {Nothing},
           reader : CatalogSources \cup {"none", Nothing}, vectors : BOOLEAN, loaded : BOOLEAN]

ShellTyped ==
  /\ db \in [up : BOOLEAN, version : Versions, catalog : BOOLEAN]
  /\ shell \in Shells
  /\ task \in [RunSlots \cup IoThreads -> ShellTasks]
  /\ said \in Answer \cup {Nothing}

(* What a process was let through with stays so: the database is only *)
(* migrated upwards. *)
LetThrough ==
  /\ shell.phase # "down" => shell.conf \in Settings
  /\ shell.phase \in Connected =>
       /\ ~PoolTooSmall(shell.conf)
       /\ shell.conf.strict => MigrationOk(shell.conf)

SaidInService ==
  said # Nothing =>
    /\ shell.phase = "serving"
    /\ shell.conf.strict /\ said.db => said.migration

(* A thread has one connection or waits for it; a slot that waits has at *)
(* most one in hand. *)
HandFits(t) ==
  IF t \in IoThreads
  THEN /\ task[t].held <= 1
       /\ task[t].wants => task[t].held = 0
  ELSE /\ task[t].at # "version"
       /\ task[t].at = "idle" => task[t].held = 0 /\ ~task[t].wants
       /\ task[t].at = "run" => task[t].held <= 1 /\ (task[t].wants => task[t].held = 0)
       /\ task[t].at = "catalog" => IF task[t].wants THEN task[t].held <= 1 ELSE task[t].held >= 1

HandsFit == \A t \in RunSlots \cup IoThreads : HandFits(t)

ShellInv == ShellTyped /\ LetThrough /\ SaidInService /\ HandsFit

LEMMA HandsAtRest ==
  ASSUME task = [t \in RunSlots \cup IoThreads |-> Idle]
  PROVE  HandsFit /\ task \in [RunSlots \cup IoThreads -> ShellTasks]
<1>1. Idle.held = 0 /\ ~Idle.wants /\ Idle.at = "idle" /\ Idle \in ShellTasks
  BY DEF Idle, ShellTasks
<1>2. \A t \in RunSlots \cup IoThreads : task[t] = Idle
  OBVIOUS
<1> QED BY <1>1, <1>2 DEF HandsFit, HandFits

LEMMA ShellStarts ==
  ASSUME ShellAssumption, ShellInit
  PROVE  ShellInv
<1>1. shell = Gone /\ said = Nothing /\ task = [t \in RunSlots \cup IoThreads |-> Idle]
  BY DEF ShellInit
<1>2. Gone \in Shells /\ Gone.phase = "down"
  BY DEF Gone, Shells, ShellPhases
<1>3. ShellTyped
  BY <1>1, <1>2, HandsAtRest DEF ShellInit, ShellTyped
<1> QED BY <1>1, <1>2, <1>3, HandsAtRest DEF ShellInv, LetThrough, SaidInService, Connected

LEMMA ProcessGone ==
  ASSUME ShellInv, TurnedAway, db' = db
  PROVE  ShellInv'
<1>1. shell' = Gone /\ said' = Nothing /\ task' = [t \in RunSlots \cup IoThreads |-> Idle]
  BY DEF TurnedAway
<1>2. Gone \in Shells /\ Gone.phase = "down"
  BY DEF Gone, Shells, ShellPhases
<1>3. HandsFit' /\ task' \in [RunSlots \cup IoThreads -> ShellTasks]
  <2>1. Idle.held = 0 /\ ~Idle.wants /\ Idle.at = "idle" /\ Idle \in ShellTasks
    BY DEF Idle, ShellTasks
  <2>2. \A t \in RunSlots \cup IoThreads : task'[t] = Idle
    BY <1>1
  <2> QED BY <1>1, <2>1, <2>2 DEF HandsFit, HandFits
<1> QED BY <1>1, <1>2, <1>3 DEF ShellInv, ShellTyped, LetThrough, SaidInService, Connected

(* The start goes on to the next phase. *)
GoesOn ==
  /\ shell \in Shells
  /\ shell.phase # "down" /\ shell.conf \in Settings
  /\ shell.phase \in Connected =>
       /\ ~PoolTooSmall(shell.conf)
       /\ shell.conf.strict => MigrationOk(shell.conf)

LEMMA ProcessGoesOn ==
  ASSUME ShellInv, GoesOn', UNCHANGED <<db, task, said>>, shell.phase # "serving"
  PROVE  ShellInv'
<1>1. said = Nothing
  BY DEF ShellInv, SaidInService
<1>2. ShellTyped' /\ HandsFit'
  BY DEF ShellInv, ShellTyped, HandsFit, HandFits, GoesOn
<1>3. LetThrough' /\ SaidInService'
  BY <1>1 DEF LetThrough, SaidInService, GoesOn
<1> QED BY <1>2, <1>3 DEF ShellInv

LEMMA StepStartShell ==
  ASSUME ShellInv, NEW conf \in Settings, StartShell(conf)
  PROVE  ShellInv'
<1>1. /\ shell' = [Gone EXCEPT !.phase = "connect", !.conf = conf] /\ shell.phase = "down"
      /\ UNCHANGED <<db, task, said>>
  BY DEF StartShell
<1>2. GoesOn'
  BY <1>1 DEF GoesOn, Gone, Shells, ShellPhases, Connected
<1> QED BY <1>1, <1>2, ProcessGoesOn

LEMMA StepConnectDb ==
  ASSUME ShellInv, ConnectDb
  PROVE  ShellInv'
<1>1. CASE TurnedAway
  BY <1>1, ProcessGone DEF ConnectDb
<1>2. CASE ~TurnedAway
  <2>1. /\ shell' = [shell EXCEPT !.phase = "catalog"] /\ shell.phase = "connect"
        /\ ~PoolTooSmall(shell.conf) /\ (shell.conf.strict => MigrationOk(shell.conf))
        /\ UNCHANGED <<db, task, said>>
    BY <1>2 DEF ConnectDb, To
  <2>2. shell'.conf = shell.conf /\ shell'.phase = "catalog" /\ shell' \in Shells
    BY <2>1 DEF ShellInv, ShellTyped, Shells, ShellPhases
  <2>3. ~PoolTooSmall(shell'.conf)
    BY <2>1, <2>2
  <2>4. GoesOn'
    BY <2>1, <2>2, <2>3 DEF GoesOn, ShellInv, LetThrough, MigrationOk
  <2> QED BY <2>1, <2>4, ProcessGoesOn
<1> QED BY <1>1, <1>2

(* A later phase asks nothing more of the pool and the revision. *)
LEMMA PhasePasses ==
  ASSUME ShellInv, shell.phase \in Connected \ {"serving"}, shell' \in Shells,
         shell'.conf = shell.conf, shell'.phase \in Connected, UNCHANGED <<db, task, said>>
  PROVE  ShellInv'
<1>1. ~PoolTooSmall(shell.conf) /\ (shell.conf.strict => MigrationOk(shell.conf))
  BY DEF ShellInv, LetThrough
<1>2. shell.conf \in Settings /\ shell'.phase # "down" /\ shell.phase # "serving"
  BY DEF ShellInv, LetThrough, Connected
<1>3. ~PoolTooSmall(shell'.conf)
  BY <1>1
<1>4. GoesOn'
  BY <1>1, <1>2, <1>3 DEF GoesOn, MigrationOk
<1> QED BY <1>2, <1>4, ProcessGoesOn

LEMMA StepLoadCatalog ==
  ASSUME ShellAssumption, ShellInv, NEW ok \in BOOLEAN, LoadCatalog(ok)
  PROVE  ShellInv'
<1>1. CASE TurnedAway
  BY <1>1, ProcessGone DEF LoadCatalog
<1>2. CASE ~TurnedAway
  <2> DEFINE source == shell.conf.source
             reader == IF source = "file" /\ ~ok THEN "none" ELSE source
             loaded == ok /\ (source = "db" => db.up /\ db.catalog)
  <2>1. /\ shell' = [shell EXCEPT !.phase = "vectors", !.reader = reader, !.loaded = loaded]
        /\ shell.phase = "catalog" /\ UNCHANGED <<db, task, said>>
    BY <1>2 DEF LoadCatalog
  <2>2. shell.conf \in Settings /\ source \in CatalogSources
    BY <2>1 DEF ShellInv, LetThrough, ShellAssumption, Setting
  <2>3. reader \in CatalogSources \cup {"none"} /\ loaded \in BOOLEAN
    BY <2>2 DEF ShellInv, ShellTyped
  <2> HIDE DEF reader, loaded, source
  <2>4. shell'.conf = shell.conf /\ shell'.phase = "vectors" /\ shell' \in Shells
    BY <2>1, <2>3 DEF ShellInv, ShellTyped, Shells, ShellPhases
  <2> QED BY <2>1, <2>4, PhasePasses DEF Connected
<1> QED BY <1>1, <1>2

LEMMA StepStartEngines ==
  ASSUME ShellInv, NEW spec \in BOOLEAN, NEW ok \in BOOLEAN, StartEngines(spec, ok)
  PROVE  ShellInv'
<1>1. CASE TurnedAway
  BY <1>1, ProcessGone DEF StartEngines
<1>2. CASE ~TurnedAway
  <2> DEFINE vecs == shell.reader = "search_http" \/ (shell.conf.vectors /\ ok)
  <2>1. /\ shell' = [shell EXCEPT !.phase = "recover", !.vectors = vecs]
        /\ shell.phase = "vectors" /\ UNCHANGED <<db, task, said>>
    BY <1>2 DEF StartEngines
  <2>2. vecs \in BOOLEAN
    OBVIOUS
  <2> HIDE DEF vecs
  <2>3. shell'.conf = shell.conf /\ shell'.phase = "recover" /\ shell' \in Shells
    BY <2>1, <2>2 DEF ShellInv, ShellTyped, Shells, ShellPhases
  <2> QED BY <2>1, <2>3, PhasePasses DEF Connected
<1> QED BY <1>1, <1>2

LEMMA StepRecover ==
  ASSUME ShellInv, Recover
  PROVE  ShellInv'
<1>1. CASE TurnedAway
  BY <1>1, ProcessGone DEF Recover
<1>2. CASE ~TurnedAway
  <2>1. /\ shell' = [shell EXCEPT !.phase = "serving"] /\ shell.phase = "recover"
        /\ UNCHANGED <<db, task, said>>
    BY <1>2 DEF Recover, To
  <2>2. shell'.conf = shell.conf /\ shell'.phase = "serving" /\ shell' \in Shells
    BY <2>1 DEF ShellInv, ShellTyped, Shells, ShellPhases
  <2> QED BY <2>1, <2>2, PhasePasses DEF Connected
<1> QED BY <1>1, <1>2

(* A slot or a thread moves on with connections that fit; what is known of *)
(* the catalog may change with it. *)
LEMMA TaskMoves ==
  ASSUME ShellInv, Serving, NEW t \in RunSlots \cup IoThreads, NEW v \in ShellTasks,
         Becomes(t, v), HandFits(t)',
         \/ shell' = shell
         \/ \E l \in BOOLEAN : shell' = [shell EXCEPT !.loaded = l],
         \/ said' = said
         \/ said' \in Answer /\ (shell.conf.strict /\ said'.db => said'.migration)
  PROVE  ShellInv'
<1>1. db' = db /\ task' = [task EXCEPT ![t] = v]
  BY DEF Becomes
<1>2. shell' \in Shells /\ shell'.phase = "serving" /\ shell'.conf = shell.conf
  BY DEF ShellInv, ShellTyped, Shells, Serving
<1>3. ShellTyped'
  BY <1>1, <1>2 DEF ShellInv, ShellTyped
<1>4. LetThrough'
  <2>1. /\ shell.conf \in Settings /\ ~PoolTooSmall(shell.conf)
        /\ shell.conf.strict => MigrationOk(shell.conf)
    BY DEF ShellInv, LetThrough, Serving, Connected
  <2>2. ~PoolTooSmall(shell'.conf)
    BY <1>2, <2>1
  <2> QED BY <1>1, <1>2, <2>1, <2>2 DEF LetThrough, MigrationOk
<1>5. SaidInService'
  BY <1>2 DEF ShellInv, SaidInService
<1>6. HandsFit'
  <2>1. ASSUME NEW u \in RunSlots \cup IoThreads, u # t PROVE HandFits(u)'
    <3>1. task'[u] = task[u]
      BY <1>1, <2>1 DEF ShellInv, ShellTyped
    <3> QED BY <3>1 DEF ShellInv, HandsFit, HandFits
  <2> QED BY <2>1 DEF HandsFit
<1> QED BY <1>3, <1>4, <1>5, <1>6 DEF ShellInv

LEMMA StepTask ==
  ASSUME ShellAssumption, ShellInv, NEW t \in RunSlots \cup IoThreads,
         \/ t \in RunSlots /\ (RunStarts(t) \/ RunLooks(t) \/ RunHasLooked(t) \/ RunEnds(t))
         \/ t \in IoThreads /\ (Asked(t) \/ AskedCatalog(t) \/ Answered(t))
         \/ TakeConnection(t)
         \/ TakeTimesOut(t)
  PROVE  ShellInv'
<1> DEFINE k == task[t]
<1>0. /\ k \in ShellTasks /\ t \in DOMAIN task /\ HandFits(t)
      /\ task \in [RunSlots \cup IoThreads -> ShellTasks]
      /\ shell \in Shells /\ db.up \in BOOLEAN /\ db.catalog \in BOOLEAN
      /\ ~(t \in RunSlots /\ t \in IoThreads)
  BY DEF ShellInv, ShellTyped, HandsFit, ShellAssumption
<1>1. /\ k.at \in {"idle", "run", "catalog", "version"} /\ k.held \in 0..2
      /\ k.wants \in BOOLEAN /\ k.catalog \in BOOLEAN /\ shell.loaded \in BOOLEAN
  BY <1>0 DEF ShellTasks, Shells
<1>2. Idle \in ShellTasks /\ Idle.at = "idle" /\ Idle.held = 0 /\ ~Idle.wants
  BY DEF Idle, ShellTasks
<1>3. ASSUME NEW v, Becomes(t, v) PROVE task'[t] = v
  BY <1>0, <1>3 DEF Becomes
<1>4. CASE t \in RunSlots /\ RunStarts(t)
  <2>1. PICK v : /\ v = [Idle EXCEPT !.at = "run", !.wants = TRUE]
                 /\ Becomes(t, v) /\ Serving /\ UNCHANGED <<shell, said>>
    BY <1>4 DEF RunStarts
  <2>7. v = [at |-> "run", held |-> 0, wants |-> TRUE, catalog |-> FALSE]
    BY <2>1 DEF Idle
  <2>2. v \in ShellTasks /\ v.at = "run" /\ v.held = 0 /\ v.wants
    BY <2>7 DEF ShellTasks
  <2>8. task'[t] = v
    BY <1>3, <2>1
  <2>3. HandFits(t)'
    BY <1>0, <1>4, <2>2, <2>8 DEF HandFits
  <2> QED BY <2>1, <2>2, <2>3, TaskMoves
<1>5. CASE t \in RunSlots /\ RunLooks(t)
  <2> DEFINE v == [k EXCEPT !.at = "catalog", !.wants = TRUE]
  <2>1. Becomes(t, v) /\ Serving /\ UNCHANGED <<shell, said>> /\ k.at = "run" /\ ~k.wants
    BY <1>5 DEF RunLooks
  <2>2. v \in ShellTasks /\ v.at = "catalog" /\ v.held = k.held /\ v.wants
    BY <1>0, <1>1 DEF ShellTasks
  <2>3. k.held <= 1
    BY <1>0, <1>5, <2>1 DEF HandFits
  <2> HIDE DEF v
  <2>4. HandFits(t)'
    BY <1>0, <1>3, <1>5, <2>1, <2>2, <2>3 DEF HandFits
  <2> QED BY <2>1, <2>2, <2>4, TaskMoves
<1>6. CASE t \in RunSlots /\ RunHasLooked(t)
  <2> DEFINE l == shell.loaded \/ (db.up /\ db.catalog)
  <2>1. PICK v :
        /\ v = [k EXCEPT !.at = "run", !.held = k.held - 1]
        /\ Becomes(t, v) /\ Serving /\ said' = said /\ k.at = "catalog" /\ ~k.wants
        /\ shell' = [shell EXCEPT !.loaded = l]
    BY <1>6 DEF RunHasLooked
  <2>2. k.held >= 1
    BY <1>0, <1>6, <2>1 DEF HandFits
  <2>7. v = [at |-> "run", held |-> k.held - 1, wants |-> k.wants, catalog |-> k.catalog]
    BY <1>0, <2>1 DEF ShellTasks
  <2>8. k.held - 1 \in 0..2
    BY <1>1, <2>2
  <2>3. v \in ShellTasks /\ v.at = "run" /\ v.held = k.held - 1 /\ v.wants = k.wants
    BY <1>1, <2>7, <2>8 DEF ShellTasks
  <2>4. l \in BOOLEAN
    OBVIOUS
  <2> HIDE DEF l
  <2>5. HandFits(t)'
    <3>1. task'[t] = v
      BY <1>3, <2>1
    <3> QED BY <1>0, <1>1, <1>6, <2>2, <2>3, <3>1 DEF HandFits
  <2> QED BY <2>1, <2>3, <2>4, <2>5, TaskMoves
<1>7. CASE t \in RunSlots /\ RunEnds(t)
  <2>1. Becomes(t, Idle) /\ Serving /\ UNCHANGED <<shell, said>>
    BY <1>7 DEF RunEnds
  <2>2. HandFits(t)'
    BY <1>0, <1>2, <1>3, <1>7, <2>1 DEF HandFits
  <2> QED BY <1>2, <2>1, <2>2, TaskMoves
<1>8. CASE t \in IoThreads /\ Asked(t)
  <2>1. PICK v : /\ Becomes(t, v)
                 /\ \/ v = [Idle EXCEPT !.at = "catalog", !.wants = TRUE]
                    \/ v = [Idle EXCEPT !.at = "version", !.wants = TRUE,
                                        !.catalog = shell.reader # "none"]
    BY <1>8 DEF Asked
  <2>7. \E a \in {"catalog", "version"}, c \in BOOLEAN :
          v = [at |-> a, held |-> 0, wants |-> TRUE, catalog |-> c]
    <3>1. CASE v = [Idle EXCEPT !.at = "catalog", !.wants = TRUE]
      <4>1. v = [at |-> "catalog", held |-> 0, wants |-> TRUE, catalog |-> FALSE]
        BY <3>1 DEF Idle
      <4> QED BY <4>1
    <3>2. CASE v = [Idle EXCEPT !.at = "version", !.wants = TRUE, !.catalog = shell.reader # "none"]
      <4> DEFINE c == shell.reader # "none"
      <4>1. v = [at |-> "version", held |-> 0, wants |-> TRUE, catalog |-> c]
        BY <3>2 DEF Idle
      <4>2. c \in BOOLEAN
        OBVIOUS
      <4> QED BY <4>1, <4>2
    <3> QED BY <2>1, <3>1, <3>2
  <2>2. v \in ShellTasks /\ v.held = 0
    BY <2>7 DEF ShellTasks
  <2>3. Serving /\ UNCHANGED <<shell, said>>
    BY <1>8 DEF Asked
  <2>4. HandFits(t)'
    BY <1>3, <1>8, <2>1, <2>2 DEF HandFits
  <2> QED BY <2>1, <2>2, <2>3, <2>4, TaskMoves
<1>9. CASE t \in IoThreads /\ AskedCatalog(t)
  <2> DEFINE found == db.up /\ db.catalog
             l == shell.loaded \/ found
  <2>1. PICK v :
        /\ v = [Idle EXCEPT !.at = "version", !.wants = TRUE, !.catalog = found]
        /\ Becomes(t, v) /\ Serving /\ said' = said
        /\ shell' = [shell EXCEPT !.loaded = l]
    BY <1>9 DEF AskedCatalog
  <2>7. found \in BOOLEAN /\ l \in BOOLEAN
    OBVIOUS
  <2> HIDE DEF found, l
  <2>8. v = [at |-> "version", held |-> 0, wants |-> TRUE, catalog |-> found]
    BY <2>1 DEF Idle
  <2>2. v \in ShellTasks /\ v.held = 0 /\ l \in BOOLEAN
    BY <2>7, <2>8 DEF ShellTasks
  <2>3. HandFits(t)'
    <3>1. task'[t] = v
      BY <1>3, <2>1
    <3> QED BY <1>9, <2>2, <3>1 DEF HandFits
  <2> QED BY <2>1, <2>2, <2>3, TaskMoves
<1>10. CASE t \in IoThreads /\ Answered(t)
  <2> DEFINE a == [catalog |-> k.catalog, db |-> db.up,
                   migration |-> db.up /\ MigrationOk(shell.conf)]
  <2>1. said' = a /\ Becomes(t, Idle) /\ Serving /\ shell' = shell
    BY <1>10 DEF Answered
  <2>2. shell.conf.strict => MigrationOk(shell.conf)
    BY <2>1 DEF ShellInv, LetThrough, Serving, Connected
  <2>3. (db.up /\ MigrationOk(shell.conf)) \in BOOLEAN
    OBVIOUS
  <2>4. a \in Answer
    BY <1>0, <1>1, <2>3 DEF Answer
  <2>5. shell.conf.strict /\ a.db => a.migration
    BY <2>2
  <2> HIDE DEF a
  <2>6. HandFits(t)'
    BY <1>2, <1>3, <1>10, <2>1 DEF HandFits
  <2>7. said' \in Answer /\ (shell.conf.strict /\ said'.db => said'.migration)
    BY <2>1, <2>4, <2>5
  <2> QED BY <1>2, <2>1, <2>6, <2>7, TaskMoves
<1>11. CASE TakeConnection(t)
  <2>1. PICK v : /\ v = [k EXCEPT !.held = k.held + 1, !.wants = FALSE]
                 /\ Becomes(t, v) /\ Serving /\ UNCHANGED <<shell, said>> /\ k.wants
    BY <1>11 DEF TakeConnection
  <2>2. k.held <= 1 /\ (t \in IoThreads => k.held = 0)
        /\ (t \notin IoThreads => k.at \in {"run", "catalog"} /\ (k.at = "run" => k.held = 0))
    BY <1>0, <1>1, <2>1 DEF HandFits
  <2>7. v = [at |-> k.at, held |-> k.held + 1, wants |-> FALSE, catalog |-> k.catalog]
    BY <1>0, <2>1 DEF ShellTasks
  <2>8. k.held + 1 \in 0..2
    BY <1>1, <2>2
  <2>3. v \in ShellTasks /\ v.at = k.at /\ v.held = k.held + 1 /\ ~v.wants
    BY <1>1, <2>7, <2>8 DEF ShellTasks
  <2>4. HandFits(t)'
    <3>1. task'[t] = v
      BY <1>3, <2>1
    <3> QED BY <1>0, <1>1, <2>1, <2>2, <2>3, <3>1 DEF HandFits
  <2> QED BY <2>1, <2>3, <2>4, TaskMoves
<1>12. CASE TakeTimesOut(t)
  <2>0. k.wants /\ Serving /\ shell' = shell
    BY <1>12 DEF TakeTimesOut
  <2>1. CASE t \in RunSlots /\ k.at = "run"
    <3> DEFINE v == [k EXCEPT !.wants = FALSE]
    <3>1. Becomes(t, v) /\ said' = said
      BY <1>12, <2>1 DEF TakeTimesOut
    <3>2. k.held = 0
      BY <1>0, <2>0, <2>1 DEF HandFits
    <3>3. v \in ShellTasks /\ v.at = "run" /\ v.held = 0 /\ ~v.wants
      BY <1>0, <1>1, <2>1, <3>2 DEF ShellTasks
    <3> HIDE DEF v
    <3>4. HandFits(t)'
      BY <1>0, <1>3, <2>1, <3>1, <3>3 DEF HandFits
    <3> QED BY <2>0, <3>1, <3>3, <3>4, TaskMoves
  <2>2. CASE ~(t \in RunSlots /\ k.at = "run")
    <3> DEFINE a == [catalog |-> k.catalog, db |-> FALSE, migration |-> FALSE]
    <3>1. Becomes(t, Idle) /\ (said' = said \/ said' = a)
      BY <1>12, <2>2 DEF TakeTimesOut
    <3>2. a \in Answer /\ ~a.db
      BY <1>1 DEF Answer
    <3> HIDE DEF a
    <3>3. HandFits(t)'
      BY <1>2, <1>3, <3>1 DEF HandFits
    <3>4. said' = said \/ (said' \in Answer /\ (shell.conf.strict /\ said'.db => said'.migration))
      BY <3>1, <3>2
    <3> QED BY <1>2, <2>0, <3>1, <3>3, <3>4, TaskMoves
  <2> QED BY <2>1, <2>2
<1> QED BY <1>4, <1>5, <1>6, <1>7, <1>8, <1>9, <1>10, <1>11, <1>12

(* `alembic upgrade` only goes forward. *)
LEMMA StepDbChanges ==
  ASSUME ShellAssumption, ShellInv, DbChanges
  PROVE  ShellInv'
<1>1. UNCHANGED <<shell, task, said>>
  BY DEF DbChanges, Changed
<1>0. /\ db \in [up : BOOLEAN, version : Versions, catalog : BOOLEAN]
      /\ Versions \subseteq Nat
  BY DEF ShellInv, ShellTyped, ShellAssumption
<1>2. /\ db' \in [up : BOOLEAN, version : Versions, catalog : BOOLEAN]
      /\ db'.version >= db.version
  <2>1. CASE \E n \in Versions : n > db.version /\ db.up /\ Changed([db EXCEPT !.version = n])
    <3>1. PICK n \in Versions : n > db.version /\ db' = [db EXCEPT !.version = n]
      BY <2>1 DEF Changed
    <3> QED BY <1>0, <3>1
  <2>2. CASE Changed([db EXCEPT !.up = ~@])
    <3>1. PICK b \in BOOLEAN : db' = [db EXCEPT !.up = b]
      BY <2>2 DEF Changed
    <3> QED BY <1>0, <3>1
  <2>3. CASE Changed([db EXCEPT !.catalog = ~@])
    <3>1. PICK b \in BOOLEAN : db' = [db EXCEPT !.catalog = b]
      BY <2>3 DEF Changed
    <3> QED BY <1>0, <3>1
  <2> QED BY <2>1, <2>2, <2>3 DEF DbChanges
<1>3. ShellTyped' /\ HandsFit' /\ SaidInService'
  BY <1>1, <1>2 DEF ShellInv, ShellTyped, HandsFit, HandFits, SaidInService
<1>4. ASSUME shell.conf \in Settings, MigrationOk(shell.conf) PROVE MigrationOk(shell.conf)'
  <2>1. shell.conf.expects \in Nat /\ db.version \in Nat /\ db'.version \in Nat
    BY <1>2, <1>4 DEF ShellInv, ShellTyped, ShellAssumption, Setting
  <2> QED BY <1>1, <1>2, <1>4, <2>1 DEF MigrationOk
<1>5. LetThrough'
  BY <1>1, <1>4 DEF ShellInv, LetThrough, Connected, PoolTooSmall, Pool
<1> QED BY <1>3, <1>5 DEF ShellInv

LEMMA ShellStep ==
  ASSUME ShellAssumption, ShellInv, [ShellNext]_shellVars
  PROVE  ShellInv'
<1>1. CASE UNCHANGED shellVars
  BY <1>1 DEF shellVars, ShellInv, ShellTyped, LetThrough, SaidInService, HandsFit, HandFits,
              PoolTooSmall, Pool, MigrationOk
<1>2. CASE ShellNext
  <2>1. CASE StopShell
    BY <2>1, ProcessGone DEF StopShell
  <2> QED BY <1>2, <2>1, StepStartShell, StepConnectDb, StepRecover, StepDbChanges,
             StepLoadCatalog, StepStartEngines, StepTask DEF ShellNext
<1> QED BY <1>1, <1>2

(* Whoever waits and has a connection is a slot with the one of its lock, *)
(* and there are more connections than slots. *)
LEMMA SomebodyNeedsNoOther ==
  ASSUME ShellAssumption, ShellInv, Serving,
         \A t \in DOMAIN task : task[t].held > 0 => task[t].wants
  PROVE  Free
<1>1. ASSUME NEW c \in Held PROVE c[1] \in RunSlots /\ c[2] = 1 /\ c = <<c[1], c[2]>>
  <2>1. /\ c[1] \in RunSlots \cup IoThreads /\ c[2] \in {1, 2} /\ c = <<c[1], c[2]>>
        /\ c[2] <= task[c[1]].held
    BY DEF Held
  <2>2. task[c[1]] \in ShellTasks /\ c[1] \in DOMAIN task /\ HandFits(c[1])
    BY <2>1 DEF ShellInv, ShellTyped, HandsFit
  <2>3. /\ task[c[1]].held \in 0..2
        /\ task[c[1]].at \in {"idle", "run", "catalog", "version"}
    BY <2>2 DEF ShellTasks
  <2>4. task[c[1]].held > 0 /\ task[c[1]].wants
    BY <2>1, <2>2, <2>3
  <2> QED BY <2>1, <2>2, <2>3, <2>4 DEF HandFits
<1>2. IsFiniteSet(RunSlots) /\ IsFiniteSet(IoThreads) /\ IoThreads # {}
  BY DEF ShellAssumption
<1>3. Cardinality(Held) \in Nat /\ Cardinality(Held) <= Cardinality(RunSlots)
  <2> DEFINE f == [c \in Held |-> c[1]]
  <2>1. f \in [Held -> RunSlots]
    BY <1>1
  <2>2. ASSUME NEW c \in Held, NEW d \in Held, f[c] = f[d] PROVE c = d
    BY <1>1, <2>2
  <2>3. f \in Injection(Held, RunSlots)
    BY <2>1, <2>2 DEF Injection, IsInjective
  <2> HIDE DEF f
  <2> QED BY <1>2, <2>3, FS_Injection, FS_CardinalityType
<1>4. Cardinality(IoThreads) \in Nat \ {0} /\ Cardinality(RunSlots) \in Nat
  BY <1>2, FS_CardinalityType, FS_EmptySet
<1>5. ~PoolTooSmall(shell.conf) /\ shell.conf \in Setting
  BY DEF ShellInv, LetThrough, Serving, Connected, ShellAssumption
<1>6. Pool(shell.conf) \in Nat /\ shell.conf.overflow \in Nat
  BY <1>4, <1>5 DEF Pool, Setting
<1> QED BY <1>3, <1>4, <1>5, <1>6 DEF Free, PoolTooSmall

(* A strict process in service has the revision it needs and says so *)
(* whenever the database answers, and whoever waits for a connection waits *)
(* for somebody who needs no other (main.py migration_ok, _connect_db). *)
THEOREM ShellStandsReady ==
  ASSUME ShellAssumption
  PROVE  ShellSpec => [](RollingKeepsReady /\ WaitsEnd)
<1>1. ShellInit => ShellInv
  BY ShellStarts
<1>2. ShellInv /\ [ShellNext]_shellVars => ShellInv'
  BY ShellStep
<1>3. ShellInv => RollingKeepsReady /\ WaitsEnd
  <2>1. ASSUME ShellInv PROVE RollingKeepsReady
    BY <2>1 DEF ShellInv, LetThrough, SaidInService, RollingKeepsReady, Serving, Connected,
                MigrationOk
  <2>2. ASSUME ShellInv PROVE WaitsEnd
    BY <2>2, SomebodyNeedsNoOther DEF WaitsEnd
  <2> QED BY <2>1, <2>2
<1> QED BY <1>1, <1>2, <1>3, PTL DEF ShellSpec

(* A process that is down has no configuration, and none is configured *)
(* with nothing; the changes that are explored are counted. *)
DownIsBare == shell.phase = "down" => shell.conf = Nothing
CountFits == DownIsBare /\ changes \in 0..MaxChanges

LEMMA CountFitsStep ==
  ASSUME ShellAssumption, ShellInv, CountFits, [ShellNext]_shellVars
  PROVE  CountFits'
<1> shell \in Shells
  BY DEF ShellInv, ShellTyped
<1>1. changes' \in 0..MaxChanges
  <2>1. CASE DbChanges
    BY <2>1 DEF DbChanges, Changed, CountFits, ShellAssumption
  <2>2. CASE ~DbChanges
    <3>1. changes' = changes
      BY <2>2 DEF ShellNext, shellVars, StartShell, ConnectDb, Recover, StopShell, LoadCatalog,
           StartEngines, RunStarts, RunLooks, RunHasLooked, RunEnds, Asked, AskedCatalog,
           Answered, TakeConnection, TakeTimesOut, Becomes
    <3> QED BY <3>1 DEF CountFits
  <2> QED BY <2>1, <2>2
<1>2. DownIsBare'
  <2>1. CASE shell' = shell
    BY <2>1 DEF CountFits, DownIsBare
  <2>2. CASE shell' = Gone
    BY <2>2 DEF Gone, DownIsBare
  <2>3. ASSUME NEW conf \in Settings, StartShell(conf) PROVE DownIsBare'
    BY <2>3 DEF StartShell, Gone, DownIsBare
  <2>4. CASE ConnectDb /\ shell' # Gone
    BY <2>4 DEF ConnectDb, TurnedAway, To, Shells, DownIsBare
  <2>5. CASE Recover /\ shell' # Gone
    BY <2>5 DEF Recover, TurnedAway, To, Shells, DownIsBare
  <2>6. ASSUME NEW ok \in BOOLEAN, LoadCatalog(ok), shell' # Gone PROVE DownIsBare'
    <3>1. \E r, l : shell' = [shell EXCEPT !.phase = "vectors", !.reader = r, !.loaded = l]
      BY <2>6 DEF LoadCatalog, TurnedAway
    <3> QED BY <3>1 DEF Shells, DownIsBare
  <2>7. ASSUME NEW ok \in BOOLEAN, NEW spec \in BOOLEAN, StartEngines(spec, ok), shell' # Gone
        PROVE  DownIsBare'
    <3>1. \E v : shell' = [shell EXCEPT !.phase = "recover", !.vectors = v]
      BY <2>7 DEF StartEngines, TurnedAway
    <3> QED BY <3>1 DEF Shells, DownIsBare
  <2>8. ASSUME NEW t, RunHasLooked(t) \/ AskedCatalog(t) PROVE DownIsBare'
    <3>1. shell.phase = "serving" /\ \E l : shell' = [shell EXCEPT !.loaded = l]
      BY <2>8 DEF RunHasLooked, AskedCatalog, Serving
    <3> QED BY <3>1 DEF Shells, DownIsBare
  <2>9. ASSUME NEW t, \/ RunStarts(t) \/ RunLooks(t) \/ RunEnds(t) \/ Asked(t) \/ Answered(t)
                      \/ TakeConnection(t) \/ TakeTimesOut(t)
        PROVE  shell' = shell
    BY <2>9 DEF RunStarts, RunLooks, RunEnds, Asked, Answered, TakeConnection, TakeTimesOut
  <2>10. StopShell => shell' = Gone
    BY DEF StopShell, TurnedAway
  <2>11. DbChanges \/ UNCHANGED shellVars => shell' = shell
    BY DEF DbChanges, Changed, shellVars
  <2> QED BY <2>1, <2>2, <2>3, <2>4, <2>5, <2>6, <2>7, <2>8, <2>9, <2>10, <2>11 DEF ShellNext
<1> QED BY <1>1, <1>2 DEF CountFits

(* The process, its slots and its threads keep their types (main.py). *)
THEOREM ShellTypes ==
  ASSUME ShellAssumption
  PROVE  ShellSpec => []ShellTypeOK
<1>1. ShellInit => ShellInv /\ CountFits
  <2> SUFFICES ASSUME ShellInit
               PROVE  CountFits
    BY ShellStarts
  <2> QED BY DEF ShellInit, Gone, CountFits, DownIsBare, ShellAssumption
<1>2. ShellInv /\ CountFits /\ [ShellNext]_shellVars => (ShellInv /\ CountFits)'
  BY ShellStep, CountFitsStep
<1>3. ShellInv /\ CountFits => ShellTypeOK
  <2> SUFFICES ASSUME ShellInv, CountFits
               PROVE  ShellTypeOK
    OBVIOUS
  <2>1. (shell.phase = "down") = (shell.conf = Nothing)
    BY DEF ShellInv, LetThrough, CountFits, DownIsBare, ShellAssumption
  <2> QED BY <2>1 DEF ShellInv, ShellTyped, CountFits, ShellTypeOK, Shells, ShellPhases, ShellTasks
<1> QED BY <1>1, <1>2, <1>3, PTL DEF ShellSpec

-----------------------------------------------------------------------------
(* The launcher of the containers (RoleLaunch). *)

Launched == [phase : Phases, role : Roles \cup {Unset}, token : Tokens \cup {Unset},
             file : 0..Len(Files)]

(* What a container finds behind it stays: a file that Search has passed *)
(* is the image's, one that a job has passed may be cut short again by *)
(* another job. *)
Stands(role, f) ==
  \/ volume[role][f] = image
  \/ role = "sync" /\ volume[role][f] = Part

Copying == {"files", "truncate", "write"}
Copied == {"links", "running"}

CopyFits(c) ==
  /\ container[c].phase \notin {"off", "running"} => container[c].role \in Prepares
  /\ container[c].role \in Prepares /\ container[c].phase \in Copying =>
       /\ container[c].file \in 1..Len(Files)
       /\ \A i \in 1..Len(Files) :
            i < container[c].file => Stands(container[c].role, Files[i])
  /\ container[c].role \in Prepares /\ container[c].phase \in Copied =>
       \A i \in 1..Len(Files) : Stands(container[c].role, Files[i])

(* Search is alone on its volume: what it is about to write is not there. *)
SearchCopies(c) ==
  container[c].role = "search" =>
    /\ container[c].phase = "truncate" => volume["search"][Files[container[c].file]] = Absent
    /\ container[c].phase = "write" => volume["search"][Files[container[c].file]] = Part

TokenFits(c) ==
  container[c].phase # "off" /\ container[c].role # "sync" =>
    container[c].token = Token(container[c].role) /\ container[c].token # Unset

Searching(c) == container[c].phase # "off" /\ container[c].role = "search"

ContainerFits(c) == CopyFits(c) /\ SearchCopies(c) /\ TokenFits(c)

LaunchInv ==
  /\ LaunchTypeOK
  /\ \A c \in Containers : ContainerFits(c)
  /\ \A c, d \in Containers : Searching(c) /\ Searching(d) => c = d

LEMMA TokenIsOfTheEnvironment ==
  ASSUME env' = env
  PROVE  \A r : Token(r)' = Token(r)
BY DEF Token, SearchToken, Managed, OldName, Internal, Legacy, Unreadable, Secret

LEMMA LaunchStarts ==
  ASSUME LaunchAssumption, LaunchInit
  PROVE  LaunchInv
<1>1. Off \in Launched /\ Off.phase = "off"
  BY DEF Off, Launched, Phases, LaunchAssumption
<1>2. \A c \in Containers : container[c] = Off
  BY DEF LaunchInit
<1>3. EmptyVolume \in [FileNames -> Contents]
  BY DEF EmptyVolume, Contents
<1>4. LaunchTypeOK
  BY <1>1, <1>3 DEF LaunchInit, LaunchTypeOK, Launched, LaunchAssumption
<1>5. \A c \in Containers : ContainerFits(c) /\ ~Searching(c)
  BY <1>1, <1>2 DEF ContainerFits, CopyFits, SearchCopies, TokenFits, Searching, Copying, Copied
<1> QED BY <1>4, <1>5 DEF LaunchInv

(* A step of one container that leaves the volumes alone. *)
LEMMA ContainerMoves ==
  ASSUME LaunchInv, NEW c \in Containers, NEW k \in Launched,
         container' = [container EXCEPT ![c] = k], UNCHANGED <<env, image, volume, cleanings>>,
         ContainerFits(c)',
         Searching(c)' => \A d \in Containers : Searching(d) => d = c
  PROVE  LaunchInv'
<1>1. container \in [Containers -> Launched]
  BY DEF LaunchInv, LaunchTypeOK, Launched
<1>2. LaunchTypeOK'
  BY <1>1 DEF LaunchInv, LaunchTypeOK, Launched
<1>3. ASSUME NEW d \in Containers, d # c PROVE ContainerFits(d)' /\ (Searching(d)' <=> Searching(d))
  <2>1. container'[d] = container[d]
    BY <1>1, <1>3
  <2>2. ContainerFits(d)
    BY DEF LaunchInv
  <2>3. CopyFits(d)' /\ SearchCopies(d)'
    BY <2>1, <2>2 DEF ContainerFits, CopyFits, SearchCopies, Stands
  <2>4. TokenFits(d)'
    BY <2>1, <2>2, TokenIsOfTheEnvironment DEF ContainerFits, TokenFits
  <2> QED BY <2>1, <2>3, <2>4 DEF ContainerFits, Searching
<1> QED BY <1>2, <1>3 DEF LaunchInv

LEMMA StepLaunch ==
  ASSUME LaunchAssumption, LaunchInv, NEW c \in Containers, NEW role \in Roles, Launch(c, role)
  PROVE  LaunchInv'
<1>1. PICK k : /\ k = [phase |-> IF role \in Prepares THEN "assets" ELSE "running", role |-> role,
                       token |-> IF role = "sync" THEN Unset ELSE Token(role), file |-> 0]
               /\ container' = [container EXCEPT ![c] = k]
  BY DEF Launch, Holds
<1>2. container \in [Containers -> Launched]
  BY DEF LaunchInv, LaunchTypeOK, Launched
<1>3. /\ k.phase \in {"assets", "running"} /\ k.role = role /\ k.file = 0
      /\ k.phase = "running" <=> role \notin Prepares
      /\ role # "sync" => k.token = Token(role)
  BY <1>1
<1>4. /\ UNCHANGED <<env, image, volume, cleanings>>
      /\ role # "sync" => Token(role) # Unset
      /\ role = "search" => \A d \in Containers : container[d].role # "search"
  BY DEF Launch
<1>5. Token(role) \in Tokens \cup {Unset}
  <2>1. /\ env.source \in [Names -> Sources]
        /\ "AI_INTERNAL_SERVICE_TOKEN" \in Names /\ "AI_SERVICE_TOKEN" \in Names
    BY DEF LaunchInv, LaunchTypeOK, Names
  <2>2. Internal \in Tokens \cup {Unset} /\ Legacy \in Tokens \cup {Unset}
    BY <2>1 DEF Internal, Legacy, Secret, Sources
  <2> QED BY <2>2 DEF Token, SearchToken
<1>6. 0 \in 0..Len(Files)
  BY DEF LaunchAssumption
<1>7. k \in Launched
  <2>1. \E p \in Phases, t \in Tokens \cup {Unset} :
          k = [phase |-> p, role |-> role, token |-> t, file |-> 0]
    BY <1>1, <1>5 DEF Phases
  <2> QED BY <2>1, <1>6 DEF Launched
<1>8. container'[c] = k
  BY <1>1, <1>2
<1>9. CopyFits(c)' /\ SearchCopies(c)'
  BY <1>3, <1>8 DEF CopyFits, SearchCopies, Copying, Copied
<1>10. TokenFits(c)'
  BY <1>3, <1>4, <1>8, TokenIsOfTheEnvironment DEF TokenFits
<1>11. Searching(c)' => \A d \in Containers : Searching(d) => d = c
  BY <1>3, <1>4, <1>8 DEF Searching
<1> QED BY <1>1, <1>4, <1>7, <1>9, <1>10, <1>11, ContainerMoves DEF ContainerFits

(* A container that goes on keeps its role and its token. *)
LEMMA SameRole ==
  ASSUME LaunchInv, NEW c \in Containers, NEW k,
         container' = [container EXCEPT ![c] = k], UNCHANGED env,
         container[c].phase # "off", k.role = container[c].role, k.token = container[c].token
  PROVE  /\ TokenFits(c)'
         /\ Searching(c)' => \A d \in Containers : Searching(d) => d = c
<1>1. container'[c] = k
  BY DEF LaunchInv, LaunchTypeOK
<1>2. TokenFits(c)'
  BY <1>1, TokenIsOfTheEnvironment DEF LaunchInv, ContainerFits, TokenFits
<1> QED BY <1>1, <1>2 DEF LaunchInv, Searching

LEMMA StepEnds ==
  ASSUME LaunchAssumption, LaunchInv, NEW c \in Containers,
         container' = [container EXCEPT ![c] = Off], UNCHANGED <<env, image, volume, cleanings>>
  PROVE  LaunchInv'
<1>1. Off \in Launched /\ Off.phase = "off"
  BY DEF Off, Launched, Phases, LaunchAssumption
<1>2. container'[c] = Off
  BY DEF LaunchInv, LaunchTypeOK
<1>3. ContainerFits(c)' /\ ~Searching(c)'
  BY <1>1, <1>2 DEF ContainerFits, CopyFits, SearchCopies, TokenFits, Searching, Copying, Copied
<1> QED BY <1>1, <1>3, ContainerMoves

LEMMA StepCheckAssets ==
  ASSUME LaunchAssumption, LaunchInv, NEW c \in Containers, CheckAssets(c)
  PROVE  LaunchInv'
<1>1. CASE env.assets
  <2>1. PICK k : /\ k = [container[c] EXCEPT !.phase = "files", !.file = 1]
                 /\ container' = [container EXCEPT ![c] = k]
                 /\ UNCHANGED <<env, image, volume, cleanings>> /\ container[c].phase = "assets"
    BY <1>1 DEF CheckAssets, Holds
  <2>2. container \in [Containers -> Launched] /\ container'[c] = k /\ Len(Files) \in Nat \ {0}
    BY <2>1 DEF LaunchInv, LaunchTypeOK, Launched, LaunchAssumption
  <2>3. /\ k \in Launched /\ k.phase = "files" /\ k.file = 1
        /\ k.role = container[c].role /\ k.token = container[c].token
    <3>1. 1 \in 0..Len(Files)
      BY <2>2
    <3> QED BY <2>1, <2>2, <3>1 DEF Launched, Phases
  <2>4. TokenFits(c)' /\ (Searching(c)' => \A d \in Containers : Searching(d) => d = c)
    BY <2>1, <2>3, SameRole
  <2>5. CopyFits(c)' /\ SearchCopies(c)'
    BY <2>1, <2>2, <2>3 DEF LaunchInv, ContainerFits, CopyFits, SearchCopies, Copying, Copied
  <2> QED BY <2>1, <2>3, <2>4, <2>5, ContainerMoves DEF ContainerFits
<1>2. CASE ~env.assets
  BY <1>2, StepEnds DEF CheckAssets, Holds
<1> QED BY <1>1, <1>2

(* Past a file that stands there is the next one, or the links. *)
LEMMA PastAFile ==
  ASSUME LaunchAssumption, LaunchInv, NEW c \in Containers,
         container[c].phase \in {"files", "write"}
  PROVE  /\ Onward(c) \in Launched
         /\ Onward(c).role = container[c].role /\ Onward(c).token = container[c].token
         /\ \/ /\ Onward(c).phase = "links" /\ container[c].file = Len(Files)
            \/ /\ Onward(c).phase = "files" /\ Onward(c).file \in 1..Len(Files)
               /\ Onward(c).file = container[c].file + 1
<1>1. container[c] \in Launched /\ container[c].file \in 1..Len(Files) /\ Len(Files) \in Nat
  BY DEF LaunchInv, LaunchTypeOK, Launched, ContainerFits, CopyFits, Copying, LaunchAssumption
<1>2. CASE container[c].file = Len(Files)
  <2>1. Onward(c) = [container[c] EXCEPT !.phase = "links"]
    BY <1>2 DEF Onward
  <2> QED BY <1>1, <1>2, <2>1 DEF Launched, Phases
<1>3. CASE container[c].file # Len(Files)
  <2>1. Onward(c) = [container[c] EXCEPT !.phase = "files", !.file = @ + 1]
    BY <1>3 DEF Onward
  <2>2. container[c].file + 1 \in 1..Len(Files) /\ container[c].file + 1 \in 0..Len(Files)
    BY <1>1, <1>3
  <2> QED BY <1>1, <2>1, <2>2 DEF Launched, Phases
<1> QED BY <1>2, <1>3

LEMMA StepLookAtFile ==
  ASSUME LaunchAssumption, LaunchInv, NEW c \in Containers, LookAtFile(c)
  PROVE  LaunchInv'
<1>0. /\ container[c].phase = "files" /\ UNCHANGED <<env, image, volume, cleanings>>
      /\ container \in [Containers -> Launched]
      /\ container[c].role \in Prepares /\ container[c].file \in 1..Len(Files)
      /\ \A i \in 1..Len(Files) :
            i < container[c].file => Stands(container[c].role, Files[i])
  BY DEF LookAtFile, LaunchInv, LaunchTypeOK, Launched, ContainerFits, CopyFits, Copying
<1>1. CASE Here(c)[File(c)] = Absent
  <2>1. PICK k : /\ k = [container[c] EXCEPT !.phase = "truncate"]
                 /\ container' = [container EXCEPT ![c] = k]
    BY <1>1 DEF LookAtFile, Holds
  <2>2. container'[c] = k
    BY <1>0, <2>1
  <2>3. /\ k \in Launched /\ k.phase = "truncate" /\ k.file = container[c].file
        /\ k.role = container[c].role /\ k.token = container[c].token
    BY <1>0, <2>1 DEF Launched, Phases
  <2>4. TokenFits(c)' /\ (Searching(c)' => \A d \in Containers : Searching(d) => d = c)
    BY <1>0, <2>1, <2>3, SameRole
  <2>5. CopyFits(c)'
    BY <1>0, <2>2, <2>3 DEF CopyFits, Copying, Copied, Stands
  <2>6. SearchCopies(c)'
    BY <1>0, <1>1, <2>2, <2>3 DEF SearchCopies, Here, File
  <2> QED BY <1>0, <2>1, <2>3, <2>4, <2>5, <2>6, ContainerMoves DEF ContainerFits
<1>2. CASE Here(c)[File(c)] # Absent /\ SameFile(c)
  <2>1. PICK k : k = Onward(c) /\ container' = [container EXCEPT ![c] = k]
    BY <1>2 DEF LookAtFile, Holds
  <2>2. container'[c] = k
    BY <1>0, <2>1
  <2>3. /\ k \in Launched /\ k.role = container[c].role /\ k.token = container[c].token
        /\ \/ /\ k.phase = "links" /\ container[c].file = Len(Files)
           \/ /\ k.phase = "files" /\ k.file \in 1..Len(Files)
              /\ k.file = container[c].file + 1
    BY <1>0, <2>1, PastAFile
  <2>4. TokenFits(c)' /\ (Searching(c)' => \A d \in Containers : Searching(d) => d = c)
    BY <1>0, <2>1, <2>3, SameRole
  <2>5. \A i \in 1..Len(Files) :
          i <= container[c].file => Stands(container[c].role, Files[i])
    <3>1. Stands(container[c].role, Files[container[c].file])
      BY <1>2 DEF SameFile, Here, File, Stands
    <3>2. Len(Files) \in Nat
      BY DEF LaunchAssumption
    <3> QED BY <1>0, <3>1, <3>2
  <2>6. CopyFits(c)'
    <3>1. Len(Files) \in Nat
      BY DEF LaunchAssumption
    <3> QED BY <1>0, <2>2, <2>3, <2>5, <3>1 DEF CopyFits, Copying, Copied, Stands
  <2>7. SearchCopies(c)'
    BY <2>2, <2>3 DEF SearchCopies
  <2> QED BY <1>0, <2>1, <2>3, <2>4, <2>6, <2>7, ContainerMoves DEF ContainerFits
<1>3. CASE Here(c)[File(c)] # Absent /\ ~SameFile(c)
  BY <1>0, <1>3, StepEnds DEF LookAtFile, Holds
<1> QED BY <1>1, <1>2, <1>3

LEMMA StepLinks ==
  ASSUME LaunchAssumption, LaunchInv, NEW c \in Containers, Links(c)
  PROVE  LaunchInv'
<1>1. PICK k : /\ k = [container[c] EXCEPT !.phase = "running"]
               /\ container' = [container EXCEPT ![c] = k]
               /\ UNCHANGED <<env, image, volume, cleanings>> /\ container[c].phase = "links"
  BY DEF Links, Holds
<1>2. container \in [Containers -> Launched] /\ container'[c] = k
  BY <1>1 DEF LaunchInv, LaunchTypeOK, Launched
<1>3. /\ k \in Launched /\ k.phase = "running"
      /\ k.role = container[c].role /\ k.token = container[c].token
  BY <1>1, <1>2 DEF Launched, Phases
<1>4. TokenFits(c)' /\ (Searching(c)' => \A d \in Containers : Searching(d) => d = c)
  BY <1>1, <1>3, SameRole
<1>5. CopyFits(c)' /\ SearchCopies(c)'
  BY <1>1, <1>2, <1>3 DEF LaunchInv, ContainerFits, CopyFits, SearchCopies, Copying, Copied, Stands
<1> QED BY <1>1, <1>3, <1>4, <1>5, ContainerMoves DEF ContainerFits

(* One container writes a file of its volume: what another has behind it *)
(* is in another volume, or it is a job too. *)
LEMMA ContainerWrites ==
  ASSUME LaunchAssumption, LaunchInv, NEW c \in Containers, NEW k \in Launched,
         NEW content \in {Part, image},
         container[c].phase \in {"truncate", "write"},
         container' = [container EXCEPT ![c] = k], Puts(c, content),
         k.role = container[c].role, k.token = container[c].token,
         CopyFits(c)', SearchCopies(c)', UNCHANGED <<env, image, cleanings>>
  PROVE  LaunchInv'
<1> DEFINE r == container[c].role
           f == Files[container[c].file]
<1>1. /\ container \in [Containers -> Launched] /\ container'[c] = k
      /\ volume \in [Prepares -> [FileNames -> Contents]]
      /\ r \in Prepares /\ container[c].file \in 1..Len(Files) /\ f \in FileNames
  <2>1. /\ container \in [Containers -> Launched]
        /\ volume \in [Prepares -> [FileNames -> Contents]]
    BY DEF LaunchInv, LaunchTypeOK, Launched
  <2>2. r \in Prepares /\ container[c].file \in 1..Len(Files)
    BY DEF LaunchInv, ContainerFits, CopyFits, Copying
  <2> QED BY <2>1, <2>2 DEF FileNames
<1>2. volume' = [volume EXCEPT ![r][f] = content]
  BY DEF Puts, File
<1>3. content \in Contents
  BY DEF Contents, LaunchInv, LaunchTypeOK
<1> HIDE DEF f
<1>4. volume' \in [Prepares -> [FileNames -> Contents]]
  BY <1>1, <1>2, <1>3
<1>5. LaunchTypeOK'
  BY <1>1, <1>4 DEF LaunchInv, LaunchTypeOK, Launched
<1>6. TokenFits(c)' /\ (Searching(c)' => \A d \in Containers : Searching(d) => d = c)
  BY SameRole
<1>7. ASSUME NEW d \in Containers, d # c PROVE ContainerFits(d)' /\ (Searching(d)' <=> Searching(d))
  <2>1. container'[d] = container[d]
    BY <1>1, <1>7
  <2>2. ContainerFits(d)
    BY DEF LaunchInv
  <2>3. ~(r = "search" /\ Searching(d))
    BY <1>7 DEF LaunchInv, Searching
  <2>4. ASSUME NEW s \in Prepares, NEW g \in FileNames, s # "search" \/ r # "search", Stands(s, g)
        PROVE  Stands(s, g)'
    <3>1. CASE s = r /\ g = f
      <4>1. volume'[s][g] = content /\ s = "sync"
        BY <1>1, <1>2, <2>4, <3>1 DEF Prepares
      <4> QED BY <4>1 DEF Stands
    <3>2. CASE ~(s = r /\ g = f)
      <4>1. volume'[s][g] = volume[s][g]
        BY <1>1, <1>2, <3>2
      <4> QED BY <2>4, <4>1 DEF Stands
    <3> QED BY <3>1, <3>2
  <2>5. \A i \in 1..Len(Files) : Files[i] \in FileNames
    BY DEF FileNames
  <2>6. CopyFits(d)'
    <3>1. CASE container[d].role \in Prepares /\ container[d].phase \in Copying \cup Copied
      <4>1. container[d].role # "search" \/ r # "search"
        BY <2>3, <3>1 DEF Searching, Copying, Copied
      <4>2. PICK s \in Prepares : s = container[d].role
        BY <3>1
      <4>3. \A i \in 1..Len(Files) : Stands(s, Files[i]) => Stands(s, Files[i])'
        BY <2>4, <2>5, <4>1, <4>2
      <4>4. \A i \in 1..Len(Files) : Stands(container[d].role, Files[i]) => Stands(s, Files[i])
        BY <4>2 DEF Stands
      <4>5. \A i \in 1..Len(Files) : Stands(s, Files[i])' => Stands(container[d].role, Files[i])'
        BY <2>1, <4>2 DEF Stands
      <4> QED BY <2>1, <2>2, <4>3, <4>4, <4>5 DEF ContainerFits, CopyFits
    <3>2. CASE ~(container[d].role \in Prepares /\ container[d].phase \in Copying \cup Copied)
      BY <2>1, <2>2, <3>2 DEF ContainerFits, CopyFits
    <3> QED BY <3>1, <3>2
  <2>7. SearchCopies(d)'
    <3>1. CASE Searching(d)
      <4>1. volume'["search"] = volume["search"]
        BY <1>1, <1>2, <2>3, <3>1 DEF Prepares
      <4> QED BY <2>1, <2>2, <4>1 DEF ContainerFits, SearchCopies
    <3>2. CASE ~Searching(d)
      BY <2>1, <3>2 DEF SearchCopies, Searching
    <3> QED BY <3>1, <3>2
  <2>8. TokenFits(d)'
    BY <2>1, <2>2, TokenIsOfTheEnvironment DEF ContainerFits, TokenFits
  <2> QED BY <2>1, <2>6, <2>7, <2>8 DEF ContainerFits, Searching
<1> QED BY <1>5, <1>6, <1>7 DEF LaunchInv, ContainerFits

(* What stands before the file being written stands beside the write: *)
(* Search finds the image's code there and nothing where it writes. *)
LEMMA BehindStands ==
  ASSUME LaunchAssumption, LaunchInv, NEW c \in Containers, NEW content \in {Part, image},
         container[c].phase \in {"truncate", "write"}, Puts(c, content), UNCHANGED image,
         NEW r, r = container[c].role
  PROVE  /\ \A i \in 1..Len(Files) : i < container[c].file => Stands(r, Files[i])'
         /\ volume'[r][Files[container[c].file]] = content
<1> DEFINE f == Files[container[c].file]
<1>1. /\ volume \in [Prepares -> [FileNames -> Contents]] /\ image \in Nat
      /\ r \in Prepares /\ f \in FileNames
  <2>1. volume \in [Prepares -> [FileNames -> Contents]] /\ image \in Nat
    BY DEF LaunchInv, LaunchTypeOK, LaunchAssumption
  <2>2. r \in Prepares /\ container[c].file \in 1..Len(Files)
    BY DEF LaunchInv, ContainerFits, CopyFits, Copying
  <2> QED BY <2>1, <2>2 DEF FileNames
<1>2. volume' = [volume EXCEPT ![r][f] = content]
  BY DEF Puts, File
<1>3. volume'[r][f] = content
  BY <1>1, <1>2
<1>4. ASSUME NEW i \in 1..Len(Files), i < container[c].file PROVE Stands(r, Files[i])'
  <2>1. Stands(r, Files[i])
    <3>1. Stands(container[c].role, Files[i])
      BY <1>1, <1>4 DEF LaunchInv, ContainerFits, CopyFits, Copying
    <3> QED BY <3>1 DEF Stands
  <2>2. Files[i] \in FileNames
    BY DEF FileNames
  <2>3. CASE r = "search"
    <3>1. volume[r][f] \in {Absent, Part}
      BY <2>3 DEF LaunchInv, ContainerFits, SearchCopies
    <3>2. volume[r][Files[i]] = image
      BY <2>1, <2>3 DEF Stands
    <3>3. Files[i] # f
      BY <1>1, <3>1, <3>2 DEF Absent, Part
    <3>4. volume'[r][Files[i]] = volume[r][Files[i]]
      BY <1>1, <1>2, <2>2, <3>3
    <3> QED BY <3>2, <3>4 DEF Stands
  <2>4. CASE r # "search"
    <3>1. r = "sync"
      BY <1>1, <2>4 DEF Prepares
    <3>2. volume'[r][Files[i]] \in {volume[r][Files[i]], content}
      BY <1>1, <1>2, <2>2
    <3> QED BY <2>1, <3>1, <3>2 DEF Stands
  <2> QED BY <2>3, <2>4
<1> QED BY <1>3, <1>4

LEMMA StepTruncate ==
  ASSUME LaunchAssumption, LaunchInv, NEW c \in Containers, Truncate(c)
  PROVE  LaunchInv'
<1>1. PICK k : /\ k = [container[c] EXCEPT !.phase = "write"]
               /\ container' = [container EXCEPT ![c] = k]
               /\ Puts(c, Part) /\ UNCHANGED <<env, image, cleanings>>
               /\ container[c].phase = "truncate"
  BY DEF Truncate, Holds
<1>2. container \in [Containers -> Launched] /\ container'[c] = k
  BY <1>1 DEF LaunchInv, LaunchTypeOK, Launched
<1>3. /\ k \in Launched /\ k.phase = "write" /\ k.file = container[c].file
      /\ k.role = container[c].role /\ k.token = container[c].token
  BY <1>1, <1>2 DEF Launched, Phases
<1>0. PICK r : r = container[c].role
  OBVIOUS
<1>4. /\ \A i \in 1..Len(Files) : i < container[c].file => Stands(r, Files[i])'
      /\ volume'[r][Files[container[c].file]] = Part
  BY <1>1, <1>0, BehindStands
<1>5. CopyFits(c)'
  <2>1. container[c].role \in Prepares /\ container[c].file \in 1..Len(Files)
    BY <1>1 DEF LaunchInv, ContainerFits, CopyFits, Copying
  <2> QED BY <1>0, <1>2, <1>3, <1>4, <2>1 DEF CopyFits, Copying, Copied, Stands
<1>6. SearchCopies(c)'
  BY <1>0, <1>2, <1>3, <1>4 DEF SearchCopies
<1> QED BY <1>1, <1>3, <1>5, <1>6, ContainerWrites

LEMMA StepWrite ==
  ASSUME LaunchAssumption, LaunchInv, NEW c \in Containers, Write(c)
  PROVE  LaunchInv'
<1>1. PICK k : /\ k = Onward(c)
               /\ container' = [container EXCEPT ![c] = k]
               /\ Puts(c, image) /\ UNCHANGED <<env, image, cleanings>>
               /\ container[c].phase = "write"
  BY DEF Write, Holds
<1>2. container \in [Containers -> Launched] /\ container'[c] = k
  BY <1>1 DEF LaunchInv, LaunchTypeOK, Launched
<1>3. /\ k \in Launched /\ k.role = container[c].role /\ k.token = container[c].token
      /\ \/ /\ k.phase = "links" /\ container[c].file = Len(Files)
         \/ /\ k.phase = "files" /\ k.file \in 1..Len(Files)
            /\ k.file = container[c].file + 1
  BY <1>1, PastAFile
<1>0. PICK r : r = container[c].role
  OBVIOUS
<1>4. /\ \A i \in 1..Len(Files) : i < container[c].file => Stands(r, Files[i])'
      /\ volume'[r][Files[container[c].file]] = image
  BY <1>0, <1>1, BehindStands
<1>5. \A i \in 1..Len(Files) : i <= container[c].file => Stands(r, Files[i])'
  <2>3. container[c].file \in Nat /\ Len(Files) \in Nat
    BY <1>2 DEF Launched, LaunchAssumption
  <2>4. ASSUME NEW i \in 1..Len(Files), i <= container[c].file PROVE Stands(r, Files[i])'
    <3>1. CASE i = container[c].file
      BY <1>1, <1>4, <3>1 DEF Stands
    <3>2. CASE i < container[c].file
      BY <1>4, <3>2
    <3> QED BY <2>3, <2>4, <3>1, <3>2
  <2> QED BY <2>4
<1>6. CopyFits(c)'
  <2>1. container[c].role \in Prepares /\ container[c].file \in 1..Len(Files) /\ Len(Files) \in Nat
    BY <1>1 DEF LaunchInv, ContainerFits, CopyFits, Copying, LaunchAssumption
  <2> QED BY <1>0, <1>2, <1>3, <1>5, <2>1 DEF CopyFits, Copying, Copied, Stands
<1>7. SearchCopies(c)'
  BY <1>2, <1>3 DEF SearchCopies
<1> QED BY <1>1, <1>3, <1>6, <1>7, ContainerWrites

(* A deployment, and a new volume, meet nobody who prepares. *)
LEMMA StepOperator ==
  ASSUME LaunchAssumption, LaunchInv, Deploy \/ \E role \in Prepares : NewVolume(role)
  PROVE  LaunchInv'
<1>0. container' = container /\ env' = env
  BY DEF Deploy, NewVolume
<1>1. EmptyVolume \in [FileNames -> Contents]
  BY DEF EmptyVolume, Contents
<1>2. LaunchTypeOK'
  <2>1. CASE Deploy
    <3>1. image' \in 0..MaxImage
      BY <2>1 DEF Deploy, LaunchInv, LaunchTypeOK, LaunchAssumption
    <3> QED BY <1>0, <2>1, <3>1 DEF Deploy, LaunchInv, LaunchTypeOK
  <2>2. ASSUME NEW role \in Prepares, NewVolume(role) PROVE LaunchTypeOK'
    <3>1. cleanings' \in 0..MaxCleanings
      BY <2>2 DEF NewVolume, LaunchInv, LaunchTypeOK, LaunchAssumption
    <3>2. volume' \in [Prepares -> [FileNames -> Contents]]
      BY <1>1, <2>2 DEF NewVolume, LaunchInv, LaunchTypeOK
    <3> QED BY <1>0, <2>2, <3>1, <3>2 DEF NewVolume, LaunchInv, LaunchTypeOK
  <2> QED BY <2>1, <2>2
<1>3. ASSUME NEW c \in Containers PROVE ContainerFits(c)' /\ (Searching(c)' <=> Searching(c))
  <2>1. ContainerFits(c)
    BY DEF LaunchInv
  <2>2. TokenFits(c)' /\ (Searching(c)' <=> Searching(c))
    BY <1>0, <2>1, TokenIsOfTheEnvironment DEF ContainerFits, TokenFits, Searching
  <2>3. CASE container[c].role \notin Prepares
    <3>1. CopyFits(c)' /\ SearchCopies(c)'
      BY <1>0, <2>1, <2>3 DEF ContainerFits, CopyFits, SearchCopies, Prepares
    <3> QED BY <2>2, <3>1 DEF ContainerFits
  <2>4. CASE container[c].role \in Prepares
    <3>1. image' = image /\ volume'[container[c].role] = volume[container[c].role]
      BY <2>4 DEF Deploy, NewVolume, NonePrepares, LaunchInv, LaunchTypeOK
    <3>2. CopyFits(c)' /\ SearchCopies(c)'
      BY <1>0, <2>1, <3>1 DEF ContainerFits, CopyFits, SearchCopies, Stands
    <3> QED BY <2>2, <3>2 DEF ContainerFits
  <2> QED BY <2>3, <2>4
<1> QED BY <1>2, <1>3 DEF LaunchInv

LEMMA LaunchStep ==
  ASSUME LaunchAssumption, LaunchInv, [LaunchNext]_launchVars
  PROVE  LaunchInv'
<1>1. CASE UNCHANGED launchVars
  <2>1. UNCHANGED <<env, image, volume, container, cleanings>>
    BY <1>1 DEF launchVars
  <2>2. LaunchTypeOK'
    BY <2>1 DEF LaunchInv, LaunchTypeOK
  <2>3. ASSUME NEW c \in Containers PROVE ContainerFits(c)' /\ (Searching(c)' <=> Searching(c))
    BY <2>1, TokenIsOfTheEnvironment
       DEF LaunchInv, ContainerFits, CopyFits, SearchCopies, TokenFits, Searching, Stands
  <2> QED BY <2>2, <2>3 DEF LaunchInv
<1>2. ASSUME NEW c \in Containers, Ends(c) PROVE LaunchInv'
  BY <1>2, StepEnds DEF Ends, Holds
<1> QED BY <1>1, <1>2, StepLaunch, StepCheckAssets, StepLookAtFile, StepTruncate, StepWrite,
           StepLinks, StepOperator DEF LaunchNext

(* Search runs on the whole code of its image and a job on no other *)
(* image's, whatever was cut short or left behind; whoever runs sends and *)
(* takes the same token (entrypoint.py prepare_encoder, configure). *)
THEOREM LaunchedRolesAgree ==
  ASSUME LaunchAssumption
  PROVE  LaunchSpec => [](EncoderIsTheImages /\ RolesAgree)
<1>1. LaunchInit => LaunchInv
  BY LaunchStarts
<1>2. LaunchInv /\ [LaunchNext]_launchVars => LaunchInv'
  BY LaunchStep
<1>3. ASSUME LaunchInv PROVE EncoderIsTheImages
  <2>1. ASSUME NEW c \in Containers, container[c].phase = "running",
               container[c].role \in Prepares, NEW f \in FileNames
        PROVE  Here(c)[f] = image \/ (container[c].role = "sync" /\ Here(c)[f] = Part)
    <3>1. PICK i \in 1..Len(Files) : f = Files[i]
      BY DEF FileNames
    <3>2. Stands(container[c].role, Files[i])
      BY <1>3, <2>1 DEF LaunchInv, ContainerFits, CopyFits, Copied
    <3> QED BY <3>1, <3>2 DEF Stands, Here
  <2> QED BY <2>1 DEF EncoderIsTheImages
<1>4. ASSUME LaunchInv PROVE RolesAgree
  <2>1. ASSUME NEW c \in Containers, container[c].phase = "running", container[c].role # "sync"
        PROVE  /\ container[c].token = Token(container[c].role)
               /\ container[c].token # Unset
    BY <1>4, <2>1 DEF LaunchInv, ContainerFits, TokenFits
  <2>2. ASSUME NEW q, NEW r, Token(q) # Unset, Token(r) # Unset PROVE Token(q) = Token(r)
    BY <2>2 DEF Token, SearchToken
  <2> QED BY <2>1, <2>2 DEF RolesAgree
<1>5. LaunchInv => EncoderIsTheImages /\ RolesAgree
  BY <1>3, <1>4
<1> QED BY <1>1, <1>2, <1>5, PTL DEF LaunchSpec

(* The containers, the image and the volumes keep their types *)
(* (entrypoint.py). *)
THEOREM LaunchTypes ==
  ASSUME LaunchAssumption
  PROVE  LaunchSpec => []LaunchTypeOK
<1>1. LaunchInit => LaunchInv
  BY LaunchStarts
<1>2. LaunchInv /\ [LaunchNext]_launchVars => LaunchInv'
  BY LaunchStep
<1>3. LaunchInv => LaunchTypeOK
  BY DEF LaunchInv
<1> QED BY <1>1, <1>2, <1>3, PTL DEF LaunchSpec

-----------------------------------------------------------------------------
(* The migrations of the database (Migrations). *)

Revision == 1..Target

(* What each revision creates and drops, one by one. *)
LEMMA RevisionIs ==
  /\ Revisions[1] = Rev0001 /\ Revisions[2] = Rev0002 /\ Revisions[3] = Rev0003
  /\ Revisions[4] = Rev0004 /\ Revisions[5] = Rev0005 /\ Revisions[6] = Rev0006
  /\ Revisions[7] = Rev0007 /\ Revisions[8] = Rev0008 /\ Revisions[9] = Rev0009
  /\ Revisions[10] = Rev0010 /\ Revisions[11] = Rev0011
BY DEF Revisions

AddedAt(n, x) ==
  \/ n = 1 /\ x \in {"profiles", "disliked_names"}
  \/ n = 2 /\ x = "runs"
  \/ n = 3 /\ x \in {"catalog", "source_keys"}
  \/ n = 5 /\ x = "reviews"
  \/ n = 6 /\ x = "chat_columns"
  \/ n = 7 /\ x = "role_grants"
  \/ n = 8 /\ x = "backend_keys"
  \/ n = 9 /\ x = "embedding"
  \/ n = 10 /\ x = "disliked_tags"
  \/ n = 11 /\ x = "product_tags"

DroppedAt(n, x) == (n = 6 /\ x = "disliked_names") \/ (n = 8 /\ x = "source_keys")

LEMMA RevisionsAre ==
  ASSUME NEW n \in Revision, NEW x
  PROVE  (x \in Revisions[n].adds <=> AddedAt(n, x)) /\ (x \in Revisions[n].drops <=> DroppedAt(n, x))
<1>1. n \in {1, 2, 3, 4, 5, 6, 7, 8, 9, 10, 11}
  BY DEF Revision, Target
<1>2. CASE n = 1
  BY <1>2, RevisionIs DEF Rev0001, AddedAt, DroppedAt
<1>3. CASE n = 2
  BY <1>3, RevisionIs DEF Rev0002, AddedAt, DroppedAt
<1>4. CASE n = 3
  BY <1>4, RevisionIs DEF Rev0003, AddedAt, DroppedAt
<1>5. CASE n = 4
  BY <1>5, RevisionIs DEF Rev0004, AddedAt, DroppedAt
<1>6. CASE n = 5
  BY <1>6, RevisionIs DEF Rev0005, AddedAt, DroppedAt
<1>7. CASE n = 6
  BY <1>7, RevisionIs DEF Rev0006, AddedAt, DroppedAt
<1>8. CASE n = 7
  BY <1>8, RevisionIs DEF Rev0007, AddedAt, DroppedAt
<1>9. CASE n = 8
  BY <1>9, RevisionIs DEF Rev0008, AddedAt, DroppedAt
<1>10. CASE n = 9
  BY <1>10, RevisionIs DEF Rev0009, AddedAt, DroppedAt
<1>11. CASE n = 10
  BY <1>11, RevisionIs DEF Rev0010, AddedAt, DroppedAt
<1>12. CASE n = 11
  BY <1>12, RevisionIs DEF Rev0011, AddedAt, DroppedAt
<1> QED BY <1>1, <1>2, <1>3, <1>4, <1>5, <1>6, <1>7, <1>8, <1>9, <1>10, <1>11, <1>12

(* A name is created once and dropped after that. *)
LEMMA NamesAreNew ==
  ASSUME NEW n \in Revision, NEW m \in Revision, NEW x
  PROVE  /\ AddedAt(n, x) /\ AddedAt(m, x) => n = m
         /\ AddedAt(n, x) /\ DroppedAt(m, x) => n < m
         /\ DroppedAt(n, x) /\ DroppedAt(m, x) => n = m
BY DEF AddedAt, DroppedAt

LEMMA DropsWhatIsThere ==
  ASSUME NEW n \in Revision, NEW x, DroppedAt(n, x)
  PROVE  \E m \in Revision : m < n /\ AddedAt(m, x)
<1>1. 1 \in Revision /\ 3 \in Revision
  BY DEF Revision, Target
<1> QED BY <1>1 DEF AddedAt, DroppedAt

LEMMA SchemaIs ==
  ASSUME NEW n \in 0..Target, NEW x
  PROVE  x \in SchemaOf(n) <=> /\ \E m \in 1..n : AddedAt(m, x)
                               /\ \A m \in 1..n : ~DroppedAt(m, x)
<1>1. \A m \in 1..n : m \in Revision
  BY DEF Revision, Target
<1>2. x \in SchemaOf(n) <=> /\ \E m \in 1..n : x \in Revisions[m].adds
                            /\ \A m \in 1..n : x \notin Revisions[m].drops
  <2> DEFINE A == {Revisions[i].adds : i \in 1..n}
             D == {Revisions[i].drops : i \in 1..n}
  <2>1. x \in UNION A <=> \E m \in 1..n : x \in Revisions[m].adds
    BY Zenon
  <2>2. x \in UNION D <=> \E m \in 1..n : x \in Revisions[m].drops
    BY Zenon
  <2>3. x \in SchemaOf(n) <=> x \in UNION A /\ x \notin UNION D
    BY Zenon DEF SchemaOf
  <2> HIDE DEF A, D
  <2>4. (\A m \in 1..n : x \notin Revisions[m].drops) <=> ~\E m \in 1..n : x \in Revisions[m].drops
    BY Zenon
  <2> QED BY <2>1, <2>2, <2>3, <2>4, Zenon
<1> QED BY <1>1, <1>2, RevisionsAre

(* A revision takes the schema of the one before to its own. *)
LEMMA SchemaGrows ==
  ASSUME NEW n \in Revision
  PROVE  /\ Revisions[n].adds \cap SchemaOf(n - 1) = {}
         /\ Revisions[n].drops \subseteq SchemaOf(n - 1)
         /\ SchemaOf(n) = (SchemaOf(n - 1) \cup Revisions[n].adds) \ Revisions[n].drops
         /\ SchemaOf(n - 1) = (SchemaOf(n) \cup Revisions[n].drops) \ Revisions[n].adds
<1>1. n \in 0..Target /\ n - 1 \in 0..Target
  BY DEF Revision, Target
<1>2. \A m : m \in 1..n <=> m \in 1..(n - 1) \/ m = n
  BY DEF Revision
<1>3. \A m \in 1..n : m \in Revision
  BY DEF Revision, Target
<1>4. ASSUME NEW x PROVE x \in SchemaOf(n - 1) <=> /\ \E m \in 1..(n - 1) : AddedAt(m, x)
                                                   /\ \A m \in 1..(n - 1) : ~DroppedAt(m, x)
  BY <1>1, SchemaIs
<1>5. ASSUME NEW x PROVE x \in SchemaOf(n) <=> /\ \E m \in 1..n : AddedAt(m, x)
                                               /\ \A m \in 1..n : ~DroppedAt(m, x)
  BY <1>1, SchemaIs
<1>6. \A m \in 1..(n - 1) : m < n /\ m \in Revision
  BY <1>2, <1>3 DEF Revision
<1>7. ASSUME NEW x, AddedAt(n, x)
      PROVE  /\ \A m \in 1..(n - 1) : ~AddedAt(m, x)
             /\ \A m \in 1..n : ~DroppedAt(m, x)
  <2>1. \A m \in 1..(n - 1) : ~AddedAt(m, x)
    BY <1>6, <1>7, NamesAreNew
  <2>2. ASSUME NEW m \in 1..n, DroppedAt(m, x) PROVE FALSE
    <3>1. n < m /\ m <= n
      BY <1>3, <1>7, <2>2, NamesAreNew DEF Revision
    <3> QED BY <3>1 DEF Revision
  <2> QED BY <2>1, <2>2
<1>8. ASSUME NEW x, DroppedAt(n, x)
      PROVE  /\ \E m \in 1..(n - 1) : AddedAt(m, x)
             /\ \A m \in 1..(n - 1) : ~DroppedAt(m, x)
  <2>1. PICK m \in Revision : m < n /\ AddedAt(m, x)
    BY <1>8, DropsWhatIsThere
  <2>2. m \in 1..(n - 1)
    BY <2>1 DEF Revision
  <2>3. \A k \in 1..(n - 1) : ~DroppedAt(k, x)
    BY <1>6, <1>8, NamesAreNew DEF Revision
  <2> QED BY <2>1, <2>2, <2>3
<1>9. ASSUME NEW x
      PROVE  /\ x \in Revisions[n].adds <=> AddedAt(n, x)
             /\ x \in Revisions[n].drops <=> DroppedAt(n, x)
  BY RevisionsAre
<1>10. n \in 1..n
  BY <1>2
<1>11. ASSUME NEW x
       PROVE  x \in SchemaOf(n) <=> x \in (SchemaOf(n - 1) \cup Revisions[n].adds) \ Revisions[n].drops
  BY <1>2, <1>4, <1>5, <1>7, <1>8, <1>9, <1>10
<1>12. ASSUME NEW x
       PROVE  x \in SchemaOf(n - 1) <=> x \in (SchemaOf(n) \cup Revisions[n].drops) \ Revisions[n].adds
  BY <1>2, <1>4, <1>5, <1>7, <1>8, <1>9, <1>10
<1>13. Revisions[n].adds \cap SchemaOf(n - 1) = {} /\ Revisions[n].drops \subseteq SchemaOf(n - 1)
  BY <1>4, <1>7, <1>8, <1>9
<1> QED BY <1>11, <1>12, <1>13

LEMMA SchemaIsVersioned ==
  /\ \A n \in Revision : Revisions[n].adds \subseteq Versioned /\ Revisions[n].drops \subseteq Versioned
  /\ \A n \in 0..Target : SchemaOf(n) \subseteq Versioned
  /\ {"generations", "sources", "archive"} \cap Versioned = {}
  /\ "profiles" \in Versioned
<1>1. ASSUME NEW x PROVE x \in Versioned <=> \E m \in Revision : AddedAt(m, x)
  BY RevisionsAre DEF Versioned, Revision
<1>2. \A n \in Revision : Revisions[n].adds \subseteq Versioned /\ Revisions[n].drops \subseteq Versioned
  BY <1>1, RevisionsAre, DropsWhatIsThere
<1>3. ASSUME NEW n \in 0..Target PROVE SchemaOf(n) \subseteq Versioned
  <2>1. \A m \in 1..n : m \in Revision
    BY DEF Revision, Target
  <2> QED BY <1>1, <2>1, SchemaIs
<1>4. {"generations", "sources", "archive"} \cap Versioned = {}
  <2>1. \A m : ~AddedAt(m, "generations") /\ ~AddedAt(m, "sources") /\ ~AddedAt(m, "archive")
    BY DEF AddedAt
  <2> QED BY <1>1, <2>1
<1>5. "profiles" \in Versioned
  <2>1. 1 \in Revision /\ AddedAt(1, "profiles")
    BY DEF Revision, Target, AddedAt
  <2> QED BY <1>1, <2>1
<1> QED BY <1>2, <1>3, <1>4, <1>5

Rows == [who : People, n : 1..MaxWrites, text : BOOLEAN]
ValOf(row) == [who |-> row.who, n |-> row.n]
Tables == Versioned \cup {"generations", "sources", "archive"}
Inputs == {"absent", "empty", "unguarded", "guarded"}
Places == {"rest", "to_0005", "to_0007", "0006", "0008", "0008_copied", "to_0011"}
Jobs == [at : Places, before : 0..Target, held : SUBSET {"profiles", "catalog"},
         rows : SUBSET People]

LEMMA DatabaseIs ==
  Database = [rev : 0..Target, tables : SUBSET Tables, tags : SUBSET Rows,
              leaves : SUBSET Leaves, linked : SUBSET Leaves, sources : SUBSET Leaves,
              archive : SUBSET Value, identity : BOOLEAN, inputs : Inputs]
BY Zenon DEF Database, Tables, Rows, Inputs

(* The committed database: nothing that a job may need is in the way of *)
(* one.  What stayed a string is among the lost values. *)
StoreInv ==
  /\ store \in Database /\ written \in 0..MaxWrites
  /\ \/ store.tables \cap Versioned = SchemaOf(store.rev)
     \/ store.rev = 0 /\ store.tables = {"profiles"}
  /\ "sources" \in store.tables => store.rev >= 8
  /\ "sources" \in store.tables \/ store.archive = {}
  /\ \A a \in store.archive : a.n <= written
  /\ \A row \in store.tags : row.n <= written
  /\ store.rev >= 6 => \A row \in store.tags : row.text => ValOf(row) \in lost
  /\ lost \subseteq raced

(* Where a job is says which revision it has come to and what it locks. *)
Placed ==
  /\ job.before = store.rev /\ job.before <= draft.rev
  /\ job.at = "to_0005" => draft.rev <= 5 /\ job.before < 6
  /\ job.at = "to_0007" => draft.rev \in 5..7 /\ job.before < 8
  /\ job.at = "0006" => draft.rev = 5 /\ job.before < 6
  /\ job.at \in {"0008", "0008_copied"} => draft.rev = 7 /\ job.before < 8
  /\ job.at = "to_0011" => draft.rev \in 8..11

Locked ==
  /\ job.at \in {"0008", "0008_copied"} => "catalog" \in job.held
  /\ job.at = "to_0011" /\ job.before < 8 => "catalog" \in job.held
  /\ job.before < 6 /\ draft.rev >= 6 => "profiles" \in job.held

DraftArchive ==
  /\ job.at = "to_0005" => draft.archive = {}
  /\ job.at \in {"0008_copied", "to_0011"} => "sources" \in draft.tables \/ draft.archive = {}
  /\ \A a \in draft.archive : a.n <= written

(* The rows the job sees are the committed ones until 0006 empties some; *)
(* from then on what is still a string in the draft was written meanwhile, *)
(* and what is committed is in the archive or was. *)
DraftRows ==
  /\ \/ job.before >= 6
     \/ job.at = "to_0005"
     \/ job.at = "to_0007" /\ draft.rev = 5
     => draft.tags = store.tags
  /\ job.before < 6 /\ (job.at = "0006" \/ draft.rev >= 6) =>
       \A row \in draft.tags : row.text => row \in store.tags /\ ValOf(row) \notin draft.archive
  /\ job.before < 6 /\ job.at # "to_0005" =>
       \A row \in store.tags : ValOf(row) \in draft.archive \cup raced
  /\ \A row \in draft.tags : row.n <= written

DraftLeaves ==
  /\ draft.leaves = store.leaves
  /\ job.at = "0008_copied" \/ (job.at = "to_0011" /\ job.before < 8) =>
       store.leaves \subseteq draft.sources

JobStands ==
  /\ draft.tables \cap Versioned = SchemaOf(draft.rev)
  /\ Placed /\ Locked /\ DraftArchive /\ DraftRows /\ DraftLeaves

MigrationInv ==
  /\ StoreInv
  /\ draft \in Database /\ job \in Jobs
  /\ job.at # "rest" => JobStands

-----------------------------------------------------------------------------
LEMMA UpgradedIs ==
  ASSUME NEW n \in Revision, NEW d \in Database
  PROVE  /\ Upgraded(n, d) \in Database
         /\ Upgraded(n, d).rev = n
         /\ Upgraded(n, d).tables = (d.tables \cup Revisions[n].adds) \ Revisions[n].drops
         /\ Upgraded(n, d).tags = IF n = 6 THEN d.tags \ TextRows(d) ELSE d.tags
         /\ Upgraded(n, d).leaves = d.leaves /\ Upgraded(n, d).linked = d.linked
         /\ Upgraded(n, d).sources = d.sources /\ Upgraded(n, d).archive = d.archive
         /\ Upgraded(n, d).inputs = d.inputs
<1> DEFINE t == (d.tables \cup Revisions[n].adds) \ Revisions[n].drops
           g == IF n = 6 THEN d.tags \ TextRows(d) ELSE d.tags
<1>1. Upgraded(n, d) = [d EXCEPT !.rev = n, !.tables = t, !.tags = g]
  BY DEF Upgraded
<1>2. t \in SUBSET Tables /\ g \in SUBSET Rows /\ n \in 0..Target
  BY SchemaIsVersioned, DatabaseIs DEF Tables, Revision, Target
<1> HIDE DEF t, g
<1>3. /\ Upgraded(n, d) \in Database
      /\ Upgraded(n, d).rev = n /\ Upgraded(n, d).tables = t /\ Upgraded(n, d).tags = g
      /\ Upgraded(n, d).leaves = d.leaves /\ Upgraded(n, d).linked = d.linked
      /\ Upgraded(n, d).sources = d.sources /\ Upgraded(n, d).archive = d.archive
      /\ Upgraded(n, d).inputs = d.inputs
  BY <1>1, <1>2, DatabaseIs
<1> QED BY <1>3 DEF t, g

LEMMA StampGrows ==
  ASSUME NEW n \in Revision, NEW d \in Database, d.rev = n - 1,
         d.tables \cap Versioned = SchemaOf(d.rev)
  PROVE  /\ Upgraded(n, d).tables \cap Versioned = SchemaOf(n)
         /\ Applies(Revisions[n], d)
<1>1. /\ Revisions[n].adds \subseteq Versioned /\ Revisions[n].drops \subseteq Versioned
      /\ Upgraded(n, d).tables = (d.tables \cup Revisions[n].adds) \ Revisions[n].drops
  BY SchemaIsVersioned, UpgradedIs
<1>2. /\ SchemaOf(n) = (SchemaOf(n - 1) \cup Revisions[n].adds) \ Revisions[n].drops
      /\ Revisions[n].adds \cap SchemaOf(n - 1) = {}
      /\ Revisions[n].drops \subseteq SchemaOf(n - 1)
  BY SchemaGrows
<1> QED BY <1>1, <1>2 DEF Applies

LEMMA DowngradedIs ==
  ASSUME NEW n \in Revision, NEW d \in Database
  PROVE  /\ Downgraded(n, d) \in Database
         /\ Downgraded(n, d).rev = n - 1
         /\ Downgraded(n, d).tables = (d.tables \cup Revisions[n].drops) \ Revisions[n].adds
         /\ n > 6 => Downgraded(n, d).tags = d.tags
         /\ \A row \in Downgraded(n, d).tags : \E old \in d.tags : row.n = old.n
         /\ Downgraded(n, d).archive = d.archive
<1> DEFINE t == (d.tables \cup Revisions[n].drops) \ Revisions[n].adds
           x == {[row EXCEPT !.text = TRUE] : row \in d.tags}
           g == CASE n = 6 -> x
                  [] n = 1 -> {}
                  [] OTHER -> d.tags
           l == IF n = 3 THEN {} ELSE d.leaves
           k == IF n = 3 THEN {} ELSE d.linked
<1>1. Downgraded(n, d) = [d EXCEPT !.rev = n - 1, !.tables = t, !.tags = g, !.leaves = l, !.linked = k]
  BY DEF Downgraded
<1>2. /\ d.tags \subseteq Rows
      /\ d.leaves \subseteq Leaves /\ d.linked \subseteq Leaves /\ d.tables \subseteq Tables
  BY DatabaseIs
<1>3. ASSUME NEW row \in x PROVE row \in Rows /\ \E old \in d.tags : row.n = old.n
  <2>1. PICK old \in d.tags : row = [old EXCEPT !.text = TRUE]
    OBVIOUS
  <2>2. old \in Rows
    BY <1>2
  <2> QED BY <2>1, <2>2 DEF Rows
<1> HIDE DEF x
<1>4. g = x \/ g = {} \/ g = d.tags
  OBVIOUS
<1>5. n > 6 => g = d.tags
  BY DEF Revision
<1>6. /\ g \in SUBSET Rows /\ \A row \in g : \E old \in d.tags : row.n = old.n
  BY <1>2, <1>3, <1>4
<1>7. t \in SUBSET Tables /\ l \in SUBSET Leaves /\ k \in SUBSET Leaves /\ n - 1 \in 0..Target
  BY <1>2, SchemaIsVersioned DEF Tables, Revision, Target
<1> HIDE DEF t, g, l, k
<1>8. /\ Downgraded(n, d) \in Database
      /\ Downgraded(n, d).rev = n - 1 /\ Downgraded(n, d).tables = t /\ Downgraded(n, d).tags = g
      /\ Downgraded(n, d).archive = d.archive
  BY <1>1, <1>6, <1>7, DatabaseIs
<1> QED BY <1>5, <1>6, <1>8 DEF t

-----------------------------------------------------------------------------
LEMMA MigrationStarts ==
  ASSUME MigrationAssumption, MigrationInit
  PROVE  MigrationInv
<1> DEFINE full == (Versioned \ {"disliked_names", "source_keys"}) \cup {"generations"}
<1>1. Empty \in Database
  <2>1. 0 \in 0..Target
    BY DEF Target
  <2> QED BY <2>1, DatabaseIs DEF Empty, Tables, Inputs
<1>2. /\ Empty.tables = {} /\ Empty.archive = {} /\ Empty.tags = {} /\ Empty.rev = 0
      /\ Empty.leaves = {}
  BY DEF Empty
<1>3. job \in Jobs /\ job.at = "rest" /\ draft \in Database
  <2>1. 0 \in 0..Target
    BY DEF Target
  <2> QED BY <1>1, <2>1 DEF MigrationInit, Resting, Jobs, Places
<1>4. written \in 0..MaxWrites /\ lost \subseteq raced
  BY DEF MigrationInit, MigrationAssumption
<1>5. full \subseteq Tables /\ full \cap Versioned = SchemaOf(Target)
      /\ full \cup {"sources"} \subseteq Tables
      /\ (full \cup {"sources"}) \cap Versioned = SchemaOf(Target)
  <2>1. full \subseteq Tables /\ full \cup {"sources"} \subseteq Tables
    BY DEF Tables
  <2>2. SchemaOf(Target) = Versioned \ {"disliked_names", "source_keys"}
    <3>1. ASSUME NEW x PROVE x \in Versioned <=> \E m \in Revision : AddedAt(m, x)
      BY RevisionsAre DEF Versioned, Revision
    <3>2. ASSUME NEW x PROVE (\E m \in Revision : DroppedAt(m, x)) <=> x \in {"disliked_names", "source_keys"}
      <4>1. 6 \in Revision /\ 8 \in Revision
        BY DEF Revision, Target
      <4> QED BY <4>1 DEF DroppedAt
    <3>3. ASSUME NEW x PROVE x \in SchemaOf(Target) <=> /\ \E m \in Revision : AddedAt(m, x)
                                                        /\ \A m \in Revision : ~DroppedAt(m, x)
      <4>1. Target \in 0..Target
        BY DEF Target
      <4> QED BY <4>1, SchemaIs DEF Revision
    <3> QED BY <3>1, <3>2, <3>3
  <2>3. "generations" \notin Versioned /\ "sources" \notin Versioned
    BY SchemaIsVersioned
  <2> QED BY <2>1, <2>2, <2>3
<1> HIDE DEF full
<1>6. Target \in 0..Target /\ Target >= 8
  BY DEF Target
<1>7. SchemaOf(0) = {}
  <2>1. ASSUME NEW x PROVE x \notin SchemaOf(0)
    <3>1. 0 \in 0..Target
      BY DEF Target
    <3> QED BY <3>1, SchemaIs
  <2> QED BY <2>1
<1>8. CASE store = Empty
  BY <1>1, <1>2, <1>4, <1>7, <1>8, <1>3 DEF MigrationInv, StoreInv
<1>9. CASE store = [Empty EXCEPT !.tables = {"profiles"}]
  <2>1. /\ store \in Database /\ store.rev = 0 /\ store.tables = {"profiles"}
        /\ store.archive = {} /\ store.tags = {}
    BY <1>1, <1>2, <1>9, DatabaseIs, SchemaIsVersioned DEF Tables
  <2> QED BY <1>3, <1>4, <2>1 DEF MigrationInv, StoreInv
<1>10. CASE store = [Empty EXCEPT !.rev = Target, !.identity = FALSE, !.tables = full]
  <2>1. /\ store \in Database /\ store.rev = Target /\ store.tables = full
        /\ store.archive = {} /\ store.tags = {}
    BY <1>1, <1>2, <1>5, <1>6, <1>10, DatabaseIs
  <2> QED BY <1>3, <1>4, <1>5, <1>6, <2>1 DEF MigrationInv, StoreInv
<1>11. ASSUME NEW i \in {"empty", "unguarded"},
              store = [Empty EXCEPT !.rev = Target, !.identity = TRUE, !.inputs = i,
                                    !.tables = full \cup {"sources"}]
       PROVE  MigrationInv
  <2>1. i \in Inputs
    BY DEF Inputs
  <2>2. /\ store \in Database /\ store.rev = Target /\ store.tables = full \cup {"sources"}
        /\ store.archive = {} /\ store.tags = {}
    BY <1>1, <1>2, <1>5, <1>6, <1>11, <2>1, DatabaseIs
  <2> QED BY <1>3, <1>4, <1>5, <1>6, <2>2 DEF MigrationInv, StoreInv
<1>12. \/ store = Empty \/ store = [Empty EXCEPT !.tables = {"profiles"}]
       \/ store = [Empty EXCEPT !.rev = Target, !.identity = FALSE, !.tables = full]
       \/ \E i \in {"empty", "unguarded"} :
            store = [Empty EXCEPT !.rev = Target, !.identity = TRUE, !.inputs = i,
                                  !.tables = full \cup {"sources"}]
  <2>1. (Versioned \ {"disliked_names", "source_keys"}) \cup {"generations", "sources"}
          = full \cup {"sources"}
    BY DEF full
  <2> QED BY <2>1 DEF MigrationInit, full
<1> QED BY <1>8, <1>9, <1>10, <1>11, <1>12

(* Alembic by itself, between two jobs. *)
LEMMA StepPlainUpgrade ==
  ASSUME MigrationInv, PlainUpgrade
  PROVE  MigrationInv'
<1>1. PICK n \in Revision : MayUpgrade(n, store) /\ store' = Upgraded(n, store)
  BY DEF PlainUpgrade, Revision
<1>2. job.at = "rest" /\ UNCHANGED <<draft, job, raced, lost, written>>
  BY DEF PlainUpgrade
<1>3. /\ store \in Database /\ store.rev = n - 1 /\ Applies(Revisions[n], store)
  BY <1>1 DEF MigrationInv, StoreInv, MayUpgrade
<1>4. /\ store' \in Database /\ store'.rev = n
      /\ store'.tables = (store.tables \cup Revisions[n].adds) \ Revisions[n].drops
      /\ store'.tags = IF n = 6 THEN store.tags \ TextRows(store) ELSE store.tags
      /\ store'.archive = store.archive
  <2>1. store \in Database
    BY <1>3
  <2>2. Upgraded(n, store) \in Database /\ Upgraded(n, store).rev = n
    BY ONLY n \in Revision, <2>1, UpgradedIs
  <2>3. /\ Upgraded(n, store).tables = (store.tables \cup Revisions[n].adds) \ Revisions[n].drops
        /\ Upgraded(n, store).archive = store.archive
    BY ONLY n \in Revision, <2>1, UpgradedIs
  <2>4. Upgraded(n, store).tags = IF n = 6 THEN store.tags \ TextRows(store) ELSE store.tags
    BY ONLY n \in Revision, <2>1, UpgradedIs
  <2> QED BY <1>1, <2>2, <2>3, <2>4
<1>5. "sources" \in store'.tables <=> "sources" \in store.tables
  <2>1. "sources" \notin Revisions[n].adds /\ "sources" \notin Revisions[n].drops
    BY SchemaIsVersioned
  <2> QED BY <1>4, <2>1
<1>6. store'.tables \cap Versioned = SchemaOf(n)
  <2>1. store.tables \cap Versioned = SchemaOf(store.rev)
    <3>1. CASE store.rev = 0 /\ store.tables = {"profiles"}
      <4>1. n = 1
        BY <1>3, <3>1 DEF Revision
      <4>2. "profiles" \in Revisions[n].adds
        BY <4>1, RevisionsAre DEF AddedAt
      <4> QED BY <1>3, <3>1, <4>2 DEF Applies
    <3> QED BY <3>1 DEF MigrationInv, StoreInv
  <2> QED BY <1>1, <1>3, <2>1, StampGrows
<1>7. store'.rev >= 6 => \A row \in store'.tags : row.text => ValOf(row) \in lost
  <2>1. CASE n = 6
    BY <1>4, <2>1 DEF TextRows
  <2>2. CASE n # 6
    <3>1. n >= 6 => store.rev >= 6
      BY <1>3, <2>2 DEF Revision
    <3> QED BY <1>4, <2>2, <3>1 DEF MigrationInv, StoreInv
  <2> QED BY <2>1, <2>2
<1>8. "sources" \in store'.tables => store'.rev >= 8
  BY <1>3, <1>4, <1>5 DEF MigrationInv, StoreInv, Revision
<1>9. \A row \in store'.tags : row.n <= written
  BY <1>4 DEF MigrationInv, StoreInv
<1>10. StoreInv'
  BY <1>2, <1>4, <1>5, <1>6, <1>7, <1>8, <1>9 DEF MigrationInv, StoreInv
<1> QED BY <1>2, <1>10 DEF MigrationInv

LEMMA StepPlainDowngrade ==
  ASSUME MigrationInv, PlainDowngrade
  PROVE  MigrationInv'
<1>1. PICK n \in Revision : MayDowngrade(n, store) /\ store' = Downgraded(n, store)
  BY DEF PlainDowngrade, Revision
<1>2. job.at = "rest" /\ UNCHANGED <<draft, job, raced, lost, written>>
  BY DEF PlainDowngrade
<1>3. store \in Database /\ store.rev = n /\ (n = 8 => "sources" \notin store.tables)
  BY <1>1 DEF MigrationInv, StoreInv, MayDowngrade
<1>4. /\ store' \in Database /\ store'.rev = n - 1
      /\ store'.tables = (store.tables \cup Revisions[n].drops) \ Revisions[n].adds
      /\ n > 6 => store'.tags = store.tags
      /\ \A row \in store'.tags : \E old \in store.tags : row.n = old.n
      /\ store'.archive = store.archive
  BY <1>1, <1>3, DowngradedIs
<1>5. "sources" \in store'.tables <=> "sources" \in store.tables
  <2>1. "sources" \notin Revisions[n].adds /\ "sources" \notin Revisions[n].drops
    BY SchemaIsVersioned
  <2> QED BY <1>4, <2>1
<1>6. store'.tables \cap Versioned = SchemaOf(n - 1)
  <2>1. store.tables \cap Versioned = SchemaOf(n)
    BY <1>3 DEF MigrationInv, StoreInv, Revision
  <2>2. Revisions[n].adds \subseteq Versioned /\ Revisions[n].drops \subseteq Versioned
    BY SchemaIsVersioned
  <2>3. SchemaOf(n - 1) = (SchemaOf(n) \cup Revisions[n].drops) \ Revisions[n].adds
    BY SchemaGrows
  <2> QED BY <1>4, <2>1, <2>2, <2>3
<1>7. store'.rev >= 6 => \A row \in store'.tags : row.text => ValOf(row) \in lost
  <2>1. n - 1 >= 6 => n > 6 /\ store.rev >= 6
    BY <1>3 DEF Revision
  <2> QED BY <1>4, <2>1 DEF MigrationInv, StoreInv
<1>8. "sources" \in store'.tables => store'.rev >= 8
  BY <1>3, <1>4, <1>5 DEF MigrationInv, StoreInv, Revision
<1>9. \A row \in store'.tags : row.n <= written
  BY <1>4 DEF MigrationInv, StoreInv
<1>10. StoreInv'
  BY <1>2, <1>4, <1>5, <1>6, <1>7, <1>8, <1>9 DEF MigrationInv, StoreInv
<1> QED BY <1>2, <1>10 DEF MigrationInv

LEMMA StepRollBack ==
  ASSUME MigrationInv, RollBack
  PROVE  MigrationInv'
<1>1. /\ job' = Resting /\ draft' = Empty /\ raced' = raced \cap lost
      /\ UNCHANGED <<store, lost, written>>
  BY DEF RollBack
<1>2. Empty \in Database /\ Resting \in Jobs /\ Resting.at = "rest"
  <2>1. 0 \in 0..Target
    BY DEF Target
  <2> QED BY <2>1, DatabaseIs DEF Empty, Tables, Inputs, Resting, Jobs, Places
<1>3. StoreInv'
  BY <1>1 DEF MigrationInv, StoreInv
<1> QED BY <1>1, <1>2, <1>3 DEF MigrationInv

(* The job. *)
LEMMA StepStartJob ==
  ASSUME MigrationInv, StartJob
  PROVE  MigrationInv'
<1>1. /\ UNCHANGED <<store, raced, lost, written>> /\ draft' = store /\ Known(store)
      /\ job' = [at |-> CASE store.rev < 6 -> "to_0005"
                          [] store.rev \in 6..7 -> "to_0007"
                          [] OTHER -> "to_0011",
                 before |-> store.rev, held |-> {}, rows |-> {}]
  BY DEF StartJob
<1>2. store.rev \in 0..11
  BY DatabaseIs DEF MigrationInv, StoreInv, Target
<1>3. /\ job'.before = store.rev /\ job'.held = {} /\ job'.rows = {}
      /\ job'.at \in {"to_0005", "to_0007", "to_0011"}
      /\ job'.at = "to_0005" <=> store.rev < 6
      /\ job'.at = "to_0007" <=> store.rev \in 6..7
  BY <1>1, <1>2
<1>4. job' \in Jobs
  BY <1>1, <1>2, <1>3 DEF Jobs, Places, Target
<1>5. store.tables \cap Versioned = SchemaOf(store.rev)
  BY <1>1 DEF Known, MigrationInv, StoreInv
<1>6. StoreInv'
  BY <1>1 DEF MigrationInv, StoreInv
<1>7. Placed' /\ Locked'
  BY <1>1, <1>2, <1>3 DEF Placed, Locked
<1>8. DraftArchive'
  BY <1>1, <1>2, <1>3 DEF DraftArchive, MigrationInv, StoreInv
<1>9. DraftRows'
  BY <1>1, <1>2, <1>3 DEF DraftRows, MigrationInv, StoreInv
<1>10. DraftLeaves'
  BY <1>1, <1>2, <1>3 DEF DraftLeaves
<1>11. draft' \in Database
  BY <1>1 DEF MigrationInv, StoreInv
<1> QED BY <1>1, <1>4, <1>5, <1>6, <1>7, <1>8, <1>9, <1>10, <1>11 DEF MigrationInv, JobStands

LEMMA StepStepUp ==
  ASSUME MigrationInv, StepUp
  PROVE  MigrationInv'
<1> DEFINE n == draft.rev + 1
           h == job.held \cup Locks(n) \cup CatalogLocks(n)
<1>1. /\ job.at \in {"to_0005", "to_0007", "to_0011"} /\ n <= LastRevision /\ n # 6
      /\ draft' = Upgraded(n, draft) /\ job' = [job EXCEPT !.held = h]
      /\ UNCHANGED <<store, raced, lost, written>>
  BY DEF StepUp, MayStepUp, Due
<1>2. /\ draft \in Database /\ job \in Jobs /\ draft.rev \in 0..11 /\ JobStands
  BY <1>1, DatabaseIs DEF MigrationInv, Target
<1>3. n \in Revision /\ draft.rev = n - 1
  BY <1>1, <1>2 DEF Revision, Target, LastRevision
<1>4. h \in SUBSET {"profiles", "catalog"} /\ job.held \subseteq h
  BY <1>2 DEF Locks, CatalogLocks, Jobs
<1> HIDE DEF h
<1>5. /\ job' \in Jobs /\ job'.at = job.at /\ job'.before = job.before /\ job'.held = h
  BY <1>1, <1>2, <1>4 DEF Jobs
<1>6. /\ draft' \in Database /\ draft'.rev = n
      /\ draft'.tables = (draft.tables \cup Revisions[n].adds) \ Revisions[n].drops
      /\ draft'.tags = draft.tags /\ draft'.leaves = draft.leaves
      /\ draft'.sources = draft.sources /\ draft'.archive = draft.archive
  BY <1>1, <1>2, <1>3, UpgradedIs
<1>7. draft'.tables \cap Versioned = SchemaOf(n)
  BY <1>1, <1>2, <1>3, StampGrows DEF JobStands
<1>8. "sources" \in draft'.tables <=> "sources" \in draft.tables
  BY <1>3, <1>6, SchemaIsVersioned
<1>15. /\ job.at = "to_0005" => n <= 5
       /\ job.at = "to_0007" => n <= 7
       /\ n <= 11
  BY <1>1, <1>3 DEF LastRevision, Target, Revision
<1>16. job.before \in 0..11
  BY <1>2 DEF Jobs, Target
<1>9. Placed'
  BY <1>1, <1>2, <1>5, <1>6, <1>15, <1>16 DEF JobStands, Placed
<1>10. Locked'
  BY <1>1, <1>2, <1>4, <1>5, <1>6, <1>15, <1>16 DEF JobStands, Placed, Locked
<1>11. DraftArchive'
  BY <1>1, <1>2, <1>5, <1>6, <1>8 DEF JobStands, DraftArchive
<1>12. DraftRows'
  BY <1>1, <1>2, <1>5, <1>6, <1>15, <1>16 DEF JobStands, DraftRows, Placed
<1>13. DraftLeaves'
  BY <1>1, <1>2, <1>5, <1>6 DEF JobStands, DraftLeaves
<1>14. StoreInv'
  BY <1>1 DEF MigrationInv, StoreInv
<1> QED BY <1>5, <1>6, <1>7, <1>9, <1>10, <1>11, <1>12, <1>13, <1>14 DEF MigrationInv, JobStands

LEMMA StepPreserveOldTags ==
  ASSUME MigrationInv, PreserveOldTags
  PROVE  MigrationInv'
<1> DEFINE vals == {[who |-> row.who, n |-> row.n] : row \in draft.tags}
           a == draft.archive \cup vals
           t == draft.tables \cup {"archive"}
<1>1. /\ job.at = "to_0005" /\ draft.rev = 5
      /\ draft' = [draft EXCEPT !.tables = t, !.archive = a]
      /\ job' = [job EXCEPT !.at = "to_0007"]
      /\ UNCHANGED <<store, raced, lost, written>>
  BY DEF PreserveOldTags, MayPreserve, Archived
<1>2. /\ draft \in Database /\ job \in Jobs /\ JobStands
      /\ draft.tags \subseteq Rows /\ draft.archive \subseteq Value /\ draft.tables \subseteq Tables
  BY <1>1, DatabaseIs DEF MigrationInv
<1>3. ASSUME NEW v \in vals PROVE v \in Value /\ v.n <= written
  <2>1. PICK row \in draft.tags : v = [who |-> row.who, n |-> row.n]
    OBVIOUS
  <2>2. row \in Rows /\ row.n <= written
    BY <1>2 DEF JobStands, DraftRows
  <2> QED BY <2>1, <2>2 DEF Rows, Value
<1>4. \A row \in draft.tags : ValOf(row) \in vals
  BY DEF ValOf
<1> HIDE DEF vals
<1>5. a \in SUBSET Value /\ t \in SUBSET Tables
  BY <1>2, <1>3 DEF Tables
<1>6. /\ job' \in Jobs /\ job'.at = "to_0007" /\ job'.before = job.before /\ job'.held = job.held
  BY <1>1, <1>2 DEF Jobs, Places
<1> HIDE DEF a, t
<1>7. /\ draft' \in Database /\ draft'.rev = draft.rev /\ draft'.tables = t
      /\ draft'.tags = draft.tags /\ draft'.leaves = draft.leaves
      /\ draft'.sources = draft.sources /\ draft'.archive = a
  BY <1>1, <1>2, <1>5, DatabaseIs
<1>8. draft'.tables \cap Versioned = SchemaOf(draft'.rev)
  <2>1. "archive" \notin Versioned
    BY SchemaIsVersioned
  <2> QED BY <1>2, <1>7, <2>1 DEF JobStands, t
<1>14. job.before \in 0..11
  BY <1>2 DEF Jobs, Target
<1>9. Placed' /\ Locked'
  BY <1>1, <1>2, <1>6, <1>7, <1>14 DEF JobStands, Placed, Locked
<1>10. DraftArchive'
  BY <1>1, <1>2, <1>3, <1>6, <1>7 DEF JobStands, DraftArchive, a
<1>11. DraftRows'
  BY <1>1, <1>2, <1>4, <1>6, <1>7 DEF JobStands, DraftRows, Placed, a
<1>12. DraftLeaves'
  BY <1>1, <1>2, <1>6, <1>7 DEF JobStands, DraftLeaves
<1>13. StoreInv'
  BY <1>1 DEF MigrationInv, StoreInv
<1> QED BY <1>6, <1>7, <1>8, <1>9, <1>10, <1>11, <1>12, <1>13 DEF MigrationInv, JobStands

LEMMA StepEmpties ==
  ASSUME MigrationInv, Empties
  PROVE  MigrationInv'
<1> DEFINE g == draft.tags \ TextRows(draft)
           r == {row.who : row \in TextRows(draft)}
<1>1. /\ job.at = "to_0007" /\ draft.rev = 5
      /\ draft' = [draft EXCEPT !.tags = g] /\ job' = [job EXCEPT !.at = "0006", !.rows = r]
      /\ UNCHANGED <<store, raced, lost, written>>
  BY DEF Empties, MayEmpty
<1>2. draft \in Database /\ job \in Jobs /\ JobStands /\ draft.tags \subseteq Rows
  BY <1>1, DatabaseIs DEF MigrationInv
<1>3. g \in SUBSET Rows /\ r \in SUBSET People
  BY <1>2 DEF TextRows, Rows
<1>4. g \subseteq draft.tags /\ \A row \in g : ~row.text
  BY DEF TextRows
<1> HIDE DEF g, r
<1>5. /\ job' \in Jobs /\ job'.at = "0006" /\ job'.before = job.before /\ job'.held = job.held
  BY <1>1, <1>2, <1>3 DEF Jobs, Places
<1>6. /\ draft' \in Database /\ draft'.rev = 5 /\ draft'.tables = draft.tables
      /\ draft'.tags = g /\ draft'.leaves = draft.leaves
      /\ draft'.sources = draft.sources /\ draft'.archive = draft.archive
  BY <1>1, <1>2, <1>3, DatabaseIs
<1>7. store.rev \in 0..11
  BY DatabaseIs DEF MigrationInv, StoreInv, Target
<1>8. job.before < 6
  <2>1. job.before \in 0..11
    BY <1>2 DEF Jobs, Target
  <2> QED BY <1>1, <1>2, <2>1 DEF JobStands, Placed
<1>9. Placed' /\ Locked'
  BY <1>1, <1>2, <1>5, <1>6, <1>8 DEF JobStands, Placed, Locked
<1>10. DraftArchive' /\ DraftLeaves'
  BY <1>1, <1>2, <1>5, <1>6 DEF JobStands, DraftArchive, DraftLeaves
<1>11. DraftRows'
  BY <1>1, <1>2, <1>4, <1>5, <1>6, <1>7, <1>8 DEF JobStands, DraftRows, Placed
<1>12. StoreInv'
  BY <1>1 DEF MigrationInv, StoreInv
<1>13. draft'.tables \cap Versioned = SchemaOf(draft'.rev)
  BY <1>1, <1>2, <1>6 DEF JobStands
<1> QED BY <1>5, <1>6, <1>9, <1>10, <1>11, <1>12, <1>13 DEF MigrationInv, JobStands

LEMMA StepDropNames ==
  ASSUME MigrationInv, DropNames
  PROVE  MigrationInv'
<1> DEFINE u == Upgraded(6, draft)
           g == draft.tags
           h == job.held \cup Locks(6)
<1>1. /\ job.at = "0006" /\ draft' = [u EXCEPT !.tags = g]
      /\ job' = [job EXCEPT !.at = "to_0007", !.held = h]
      /\ UNCHANGED <<store, raced, lost, written>>
  BY DEF DropNames, MayDrop
<1>2. draft \in Database /\ job \in Jobs /\ JobStands /\ g \subseteq Rows
  BY <1>1, DatabaseIs DEF MigrationInv
<1>3. 6 \in Revision /\ draft.rev = 6 - 1 /\ job.before < 6 /\ draft.rev = 5
  BY <1>1, <1>2 DEF JobStands, Placed, Revision, Target
<1>4. h \in SUBSET {"profiles", "catalog"} /\ "profiles" \in h
  BY <1>2 DEF Locks, Jobs
<1>5. /\ u \in Database /\ u.rev = 6
      /\ u.leaves = draft.leaves /\ u.sources = draft.sources /\ u.archive = draft.archive
  BY <1>2, <1>3, UpgradedIs
<1>6. u.tables \cap Versioned = SchemaOf(6)
  BY <1>2, <1>3, StampGrows DEF JobStands
<1> HIDE DEF u, g, h
<1>7. /\ job' \in Jobs /\ job'.at = "to_0007" /\ job'.before = job.before /\ job'.held = h
  BY <1>1, <1>2, <1>4 DEF Jobs, Places
<1>8. /\ draft' \in Database /\ draft'.rev = 6 /\ draft'.tables = u.tables
      /\ draft'.tags = g /\ draft'.leaves = draft.leaves
      /\ draft'.sources = draft.sources /\ draft'.archive = draft.archive
  BY <1>1, <1>2, <1>5, DatabaseIs
<1>9. Placed' /\ Locked'
  <2>1. job.before \in 0..11
    BY <1>2 DEF Jobs, Target
  <2> QED BY <1>1, <1>2, <1>3, <1>4, <1>7, <1>8, <2>1 DEF JobStands, Placed, Locked
<1>10. DraftArchive' /\ DraftLeaves'
  BY <1>1, <1>2, <1>7, <1>8 DEF JobStands, DraftArchive, DraftLeaves
<1>11. DraftRows'
  <2>1. job.before \in 0..11
    BY <1>2 DEF Jobs, Target
  <2> QED BY <1>1, <1>2, <1>3, <1>7, <1>8, <2>1 DEF JobStands, DraftRows, g
<1>12. StoreInv'
  BY <1>1 DEF MigrationInv, StoreInv
<1> QED BY <1>6, <1>7, <1>8, <1>9, <1>10, <1>11, <1>12 DEF MigrationInv, JobStands

LEMMA StepLockCatalog ==
  ASSUME MigrationInv, LockCatalog
  PROVE  MigrationInv'
<1> DEFINE h == job.held \cup {"catalog"}
<1>1. /\ job.at = "to_0007" /\ draft.rev = 7
      /\ job' = [job EXCEPT !.at = "0008", !.held = h]
      /\ UNCHANGED <<store, draft, raced, lost, written>>
  BY DEF LockCatalog, MayLock
<1>2. job \in Jobs /\ JobStands
  BY <1>1 DEF MigrationInv
<1>3. h \in SUBSET {"profiles", "catalog"} /\ "catalog" \in h /\ job.held \subseteq h
  BY <1>2 DEF Jobs
<1> HIDE DEF h
<1>4. /\ job' \in Jobs /\ job'.at = "0008" /\ job'.before = job.before /\ job'.held = h
  BY <1>1, <1>2, <1>3 DEF Jobs, Places
<1>5. Placed' /\ Locked'
  BY <1>1, <1>2, <1>3, <1>4 DEF JobStands, Placed, Locked
<1>6. DraftArchive' /\ DraftLeaves'
  BY <1>1, <1>2, <1>4 DEF JobStands, DraftArchive, DraftLeaves
<1>7. DraftRows'
  BY <1>1, <1>2, <1>4 DEF JobStands, DraftRows
<1>8. StoreInv'
  BY <1>1 DEF MigrationInv, StoreInv
<1> QED BY <1>1, <1>2, <1>4, <1>5, <1>6, <1>7, <1>8 DEF MigrationInv, JobStands

LEMMA StepCopySources ==
  ASSUME MigrationInv, CopySources
  PROVE  MigrationInv'
<1> DEFINE t == draft.tables \cup {"sources"}
           s == draft.sources \cup draft.leaves
<1>1. /\ job.at = "0008" /\ draft' = [draft EXCEPT !.tables = t, !.sources = s]
      /\ job' = [job EXCEPT !.at = "0008_copied"]
      /\ UNCHANGED <<store, raced, lost, written>>
  BY DEF CopySources, MayCopy
<1>2. /\ draft \in Database /\ job \in Jobs /\ JobStands
      /\ draft.tables \subseteq Tables /\ draft.sources \subseteq Leaves /\ draft.leaves \subseteq Leaves
  BY <1>1, DatabaseIs DEF MigrationInv
<1>3. /\ t \in SUBSET Tables /\ s \in SUBSET Leaves /\ "sources" \in t
      /\ t \cap Versioned = draft.tables \cap Versioned
  <2>1. "sources" \notin Versioned
    BY SchemaIsVersioned
  <2> QED BY <1>2, <2>1 DEF Tables
<1>4. store.leaves \subseteq s
  BY <1>2 DEF JobStands, DraftLeaves
<1> HIDE DEF t, s
<1>5. /\ job' \in Jobs /\ job'.at = "0008_copied" /\ job'.before = job.before
      /\ job'.held = job.held
  BY <1>1, <1>2 DEF Jobs, Places
<1>6. /\ draft' \in Database /\ draft'.rev = draft.rev /\ draft'.tables = t
      /\ draft'.tags = draft.tags /\ draft'.leaves = draft.leaves
      /\ draft'.sources = s /\ draft'.archive = draft.archive
  BY <1>1, <1>2, <1>3, DatabaseIs
<1>7. Placed' /\ Locked'
  BY <1>1, <1>2, <1>5, <1>6 DEF JobStands, Placed, Locked
<1>8. DraftArchive' /\ DraftLeaves'
  BY <1>1, <1>2, <1>3, <1>4, <1>5, <1>6 DEF JobStands, DraftArchive, DraftLeaves
<1>9. DraftRows'
  BY <1>1, <1>2, <1>5, <1>6 DEF JobStands, DraftRows
<1>10. StoreInv'
  BY <1>1 DEF MigrationInv, StoreInv
<1> QED BY <1>2, <1>3, <1>5, <1>6, <1>7, <1>8, <1>9, <1>10 DEF MigrationInv, JobStands

LEMMA StepRekey ==
  ASSUME MigrationInv, Rekey
  PROVE  MigrationInv'
<1>1. /\ job.at = "0008_copied" /\ draft' = Upgraded(8, draft)
      /\ job' = [job EXCEPT !.at = "to_0011"]
      /\ UNCHANGED <<store, raced, lost, written>>
  BY DEF Rekey, MayRekey
<1>2. draft \in Database /\ job \in Jobs /\ JobStands
  BY <1>1 DEF MigrationInv
<1>3. PICK n \in Revision : n = 8 /\ draft.rev = n - 1
  BY <1>1, <1>2 DEF JobStands, Placed, Revision, Target
<1>12. draft' = Upgraded(n, draft) /\ job.before \in 0..11
  BY <1>1, <1>2, <1>3 DEF Jobs, Target
<1>13. (IF n = 6 THEN draft.tags \ TextRows(draft) ELSE draft.tags) = draft.tags
  BY <1>3
<1>4. /\ draft' \in Database /\ draft'.rev = n
      /\ draft'.tables = (draft.tables \cup Revisions[n].adds) \ Revisions[n].drops
      /\ draft'.tags = draft.tags /\ draft'.leaves = draft.leaves
      /\ draft'.sources = draft.sources /\ draft'.archive = draft.archive
  BY <1>2, <1>12, <1>13, UpgradedIs
<1>5. draft'.tables \cap Versioned = SchemaOf(n)
  BY <1>2, <1>3, <1>12, StampGrows DEF JobStands
<1>6. "sources" \in draft'.tables <=> "sources" \in draft.tables
  BY <1>3, <1>4, SchemaIsVersioned
<1>7. /\ job' \in Jobs /\ job'.at = "to_0011" /\ job'.before = job.before
      /\ job'.held = job.held
  BY <1>1, <1>2 DEF Jobs, Places
<1>8. Placed' /\ Locked'
  BY <1>1, <1>2, <1>3, <1>4, <1>7, <1>12 DEF JobStands, Placed, Locked
<1>9. DraftArchive' /\ DraftLeaves'
  BY <1>1, <1>2, <1>4, <1>6, <1>7 DEF JobStands, DraftArchive, DraftLeaves
<1>10. DraftRows'
  BY <1>1, <1>2, <1>3, <1>4, <1>7 DEF JobStands, DraftRows
<1>11. StoreInv'
  BY <1>1 DEF MigrationInv, StoreInv
<1> QED BY <1>4, <1>5, <1>7, <1>8, <1>9, <1>10, <1>11 DEF MigrationInv, JobStands

(* What is committed as a string, and what was dropped, is in the archive *)
(* or was written after it. *)
LEMMA StepCommit ==
  ASSUME MigrationInv, Commit
  PROVE  MigrationInv'
<1> DEFINE t == draft.tables \cup {"generations"}
           drop == {[who |-> row.who, n |-> row.n] : row \in TextRows(store)} \ draft.archive
           keys == IF "source_keys" \in store.tables THEN store.leaves \ draft.sources ELSE {}
<1>1. /\ job.at = "to_0011" /\ draft.rev = 11
      /\ store' = [draft EXCEPT !.tables = t, !.identity = TRUE, !.inputs = "guarded"]
      /\ lost' = lost \cup (IF job.before < 8 THEN drop \cup keys ELSE {})
      /\ job' = Resting /\ draft' = Empty /\ UNCHANGED <<raced, written>>
  BY DEF Commit, MayCommit, Installed, Target, Dropped
<1>2. /\ draft \in Database /\ job \in Jobs /\ JobStands /\ draft.tables \subseteq Tables
      /\ store \in Database /\ store.rev \in 0..11 /\ job.before = store.rev
  BY <1>1, DatabaseIs DEF MigrationInv, StoreInv, JobStands, Placed, Target
<1>3. /\ t \in SUBSET Tables /\ t \cap Versioned = draft.tables \cap Versioned
      /\ "sources" \in t <=> "sources" \in draft.tables
  <2>1. "generations" \notin Versioned
    BY SchemaIsVersioned
  <2> QED BY <1>2, <2>1 DEF Tables
<1>4. drop = {ValOf(row) : row \in TextRows(store)} \ draft.archive
  BY Zenon DEF ValOf
<1>5. keys \subseteq store.leaves \ draft.sources
  OBVIOUS
<1> HIDE DEF t, drop, keys
<1>6. /\ store' \in Database /\ store'.rev = 11 /\ store'.tables = t
      /\ store'.tags = draft.tags /\ store'.archive = draft.archive
  BY <1>1, <1>2, <1>3, DatabaseIs DEF Inputs
<1>7. Empty \in Database /\ Resting \in Jobs /\ Resting.at = "rest"
  <2>1. 0 \in 0..Target
    BY DEF Target
  <2> QED BY <2>1, DatabaseIs DEF Empty, Tables, Inputs, Resting, Jobs, Places
<1>8. \A row \in draft.tags : row.text => ValOf(row) \in lost'
  <2>1. CASE job.before >= 6
    <3>1. draft.tags = store.tags /\ store.rev >= 6
      BY <1>2, <2>1 DEF JobStands, DraftRows
    <3> QED BY <1>1, <3>1 DEF MigrationInv, StoreInv
  <2>2. CASE job.before < 6
    <3>1. ASSUME NEW row \in draft.tags, row.text PROVE ValOf(row) \in drop
      <4>1. row \in store.tags /\ ValOf(row) \notin draft.archive
        BY <1>1, <1>2, <2>2, <3>1 DEF JobStands, DraftRows
      <4> QED BY <1>4, <3>1, <4>1 DEF TextRows
    <3>2. job.before < 8
      BY <1>2, <2>2
    <3> QED BY <1>1, <3>1, <3>2
  <2> QED BY <1>2, <2>1, <2>2
<1>9. lost' \subseteq raced
  <2>1. CASE job.before < 8
    <3>1. keys = {}
      BY <1>1, <1>2, <1>5, <2>1 DEF JobStands, DraftLeaves
    <3>2. ASSUME NEW v \in drop PROVE v \in raced
      <4>1. PICK row \in store.tags : row.text /\ v = ValOf(row)
        BY <1>4 DEF TextRows
      <4>2. v \notin draft.archive
        BY <1>4
      <4>3. CASE job.before < 6
        <5>1. ValOf(row) \in draft.archive \cup raced
          BY <1>1, <1>2, <4>3 DEF JobStands, DraftRows
        <5> QED BY <4>1, <4>2, <5>1
      <4>4. CASE job.before >= 6
        BY <1>2, <4>1, <4>4 DEF MigrationInv, StoreInv
      <4> QED BY <1>2, <4>3, <4>4
    <3> QED BY <1>1, <2>1, <3>1, <3>2 DEF MigrationInv, StoreInv
  <2>2. CASE ~(job.before < 8)
    BY <1>1, <2>2 DEF MigrationInv, StoreInv
  <2> QED BY <2>1, <2>2
<1>10. /\ store'.tables \cap Versioned = SchemaOf(store'.rev)
       /\ "sources" \in store'.tables \/ store'.archive = {}
       /\ \A a \in store'.archive : a.n <= written
       /\ \A row \in store'.tags : row.n <= written
  BY <1>1, <1>2, <1>3, <1>6 DEF JobStands, DraftArchive, DraftRows
<1>11. StoreInv'
  BY <1>1, <1>6, <1>8, <1>9, <1>10 DEF MigrationInv, StoreInv
<1> QED BY <1>1, <1>7, <1>11 DEF MigrationInv

-----------------------------------------------------------------------------
(* The writers, where the job's locks let them. *)
LEMMA PutIs ==
  ASSUME NEW d \in Database, NEW row \in Rows
  PROVE  /\ Put(d, row) \in Database
         /\ Put(d, row).tags = {x \in d.tags : x.who # row.who} \cup {row}
         /\ Put(d, row).rev = d.rev /\ Put(d, row).tables = d.tables
         /\ Put(d, row).leaves = d.leaves /\ Put(d, row).sources = d.sources
         /\ Put(d, row).archive = d.archive
<1> DEFINE g == {x \in d.tags : x.who # row.who} \cup {row}
<1>1. Put(d, row) = [d EXCEPT !.tags = g]
  BY DEF Put
<1>2. g \in SUBSET Rows
  BY DatabaseIs
<1> HIDE DEF g
<1>3. /\ Put(d, row) \in Database /\ Put(d, row).tags = g
      /\ Put(d, row).rev = d.rev /\ Put(d, row).tables = d.tables
      /\ Put(d, row).leaves = d.leaves /\ Put(d, row).sources = d.sources
      /\ Put(d, row).archive = d.archive
  BY <1>1, <1>2, DatabaseIs
<1> QED BY <1>3 DEF g

LEMMA StepWriteProfile ==
  ASSUME MigrationAssumption, MigrationInv, NEW p \in People, WriteProfile(p)
  PROVE  MigrationInv'
<1>1. PICK row : /\ row = [who |-> p, n |-> written + 1, text |-> store.rev < 6]
                 /\ store' = Put(store, row) /\ draft' = Seen(draft, Put(draft, row))
  BY DEF WriteProfile
<1>2. /\ written < MaxWrites /\ "profiles" \notin job.held
      /\ written' = written + 1 /\ UNCHANGED <<job, lost>>
      /\ raced' = IF job.at \in {"to_0007", "0006"} /\ draft.rev = 5
                  THEN raced \cup {[who |-> p, n |-> written + 1]} ELSE raced
  BY DEF WriteProfile
<1>3. /\ store \in Database /\ draft \in Database /\ job \in Jobs
      /\ written \in 0..MaxWrites /\ MaxWrites \in Nat
      /\ store.rev \in 0..11 /\ draft.rev \in 0..11 /\ job.before \in 0..11
      /\ store.tags \subseteq Rows /\ draft.tags \subseteq Rows
      /\ store.archive \subseteq Value /\ draft.archive \subseteq Value
  BY DatabaseIs DEF MigrationInv, StoreInv, MigrationAssumption, Jobs, Target
<1>4. (store.rev < 6) \in BOOLEAN /\ written + 1 \in 1..MaxWrites /\ written' \in 0..MaxWrites
  BY <1>2, <1>3
<1>5. /\ row \in Rows /\ row.who = p /\ row.n = written + 1 /\ (row.text <=> store.rev < 6)
      /\ ValOf(row) = [who |-> p, n |-> written + 1]
  BY <1>1, <1>4 DEF Rows, ValOf
<1>6. /\ store' \in Database
      /\ store'.tags = {x \in store.tags : x.who # p} \cup {row}
      /\ store'.rev = store.rev /\ store'.tables = store.tables
      /\ store'.leaves = store.leaves /\ store'.archive = store.archive
  BY <1>1, <1>3, <1>5, PutIs
<1>7. /\ \A x \in store.tags \cup draft.tags : x.n \in Nat
      /\ \A a \in store.archive \cup draft.archive : a.n \in Nat
  BY <1>3 DEF Rows, Value
<1>8. \A a \in store.archive : a.n <= written'
  BY <1>2, <1>3, <1>7 DEF MigrationInv, StoreInv
<1>9. \A x \in store'.tags : x.n <= written'
  BY <1>2, <1>3, <1>5, <1>6, <1>7 DEF MigrationInv, StoreInv
<1>10. store'.rev >= 6 => \A x \in store'.tags : x.text => ValOf(x) \in lost'
  BY <1>2, <1>3, <1>5, <1>6 DEF MigrationInv, StoreInv
<1>11. lost' \subseteq raced'
  BY <1>2 DEF MigrationInv, StoreInv
<1>12. StoreInv'
  BY <1>4, <1>6, <1>8, <1>9, <1>10, <1>11 DEF MigrationInv, StoreInv
<1>13. CASE job.at = "rest"
  <2>1. draft' = draft
    BY <1>1, <1>13 DEF Seen
  <2> QED BY <1>2, <1>3, <1>12, <1>13, <2>1 DEF MigrationInv
<1>14. CASE job.at # "rest"
  <2>0. JobStands /\ draft' = Put(draft, row)
    BY <1>1, <1>14 DEF MigrationInv, Seen
  <2>1. /\ draft' \in Database
        /\ draft'.tags = {x \in draft.tags : x.who # p} \cup {row}
        /\ draft'.rev = draft.rev /\ draft'.tables = draft.tables
        /\ draft'.leaves = draft.leaves /\ draft'.sources = draft.sources
        /\ draft'.archive = draft.archive
    BY <1>3, <1>5, <2>0, PutIs
  <2>2. Placed' /\ Locked' /\ DraftLeaves'
    BY <1>2, <1>6, <2>0, <2>1 DEF JobStands, Placed, Locked, DraftLeaves
  <2>3. DraftArchive'
    BY <1>2, <1>3, <1>7, <2>0, <2>1 DEF JobStands, DraftArchive
  <2>4. \/ job.before >= 6
        \/ job.at = "to_0005"
        \/ job.at = "to_0007" /\ draft.rev = 5
        => draft'.tags = store'.tags
    BY <1>6, <2>0, <2>1 DEF JobStands, DraftRows
  <2>5. job.before < 6 => draft.rev < 6
    BY <1>2, <1>3, <2>0 DEF JobStands, Locked
  <2>6. ASSUME job.before < 6, job.at = "0006", NEW x \in draft'.tags, x.text
        PROVE  x \in store'.tags /\ ValOf(x) \notin draft'.archive
    <3>1. CASE x = row
      <4>1. \A a \in draft.archive : a.n <= written
        BY <2>0 DEF JobStands, DraftArchive
      <4>2. ValOf(row).n = written + 1
        BY <1>5
      <4> QED BY <1>3, <1>6, <1>7, <2>1, <3>1, <4>1, <4>2
    <3>2. CASE x # row
      <4>1. x \in draft.tags /\ x.who # p
        BY <2>1, <2>6, <3>2
      <4> QED BY <1>6, <2>0, <2>1, <2>6, <4>1 DEF JobStands, DraftRows
    <3> QED BY <3>1, <3>2
  <2>7. ASSUME job.before < 6, job.at # "to_0005", NEW x \in store'.tags
        PROVE  ValOf(x) \in draft'.archive \cup raced'
    <3>1. job.at \in {"to_0007", "0006"} /\ draft.rev = 5
      <4>1. job.at \in Places /\ draft.rev < 6
        BY <1>3, <2>5, <2>7 DEF Jobs
      <4> QED BY <1>3, <1>14, <2>0, <2>7, <4>1 DEF Places, JobStands, Placed
    <3>2. raced' = raced \cup {ValOf(row)}
      BY <1>2, <1>5, <3>1
    <3>3. CASE x = row
      BY <3>2, <3>3
    <3>4. CASE x # row
      <4>1. x \in store.tags
        BY <1>6, <2>7, <3>4
      <4> QED BY <2>0, <2>1, <2>7, <3>2, <4>1 DEF JobStands, DraftRows
    <3> QED BY <3>3, <3>4
  <2>8. \A x \in draft'.tags : x.n <= written'
    BY <1>2, <1>3, <1>5, <1>7, <2>0, <2>1 DEF JobStands, DraftRows
  <2>9. DraftRows'
    BY <1>2, <1>3, <2>1, <2>4, <2>5, <2>6, <2>7, <2>8 DEF DraftRows
  <2> QED BY <1>2, <1>3, <1>12, <2>0, <2>1, <2>2, <2>3, <2>9 DEF MigrationInv, JobStands
<1> QED BY <1>13, <1>14

(* A category that comes or goes comes or goes for both, and only while *)
(* the job has not locked the catalog. *)
LEMMA LeavesMove ==
  ASSUME MigrationInv, NEW l \in SUBSET Leaves, NEW k \in SUBSET Leaves,
         store' = [store EXCEPT !.leaves = l, !.linked = k],
         IF job.at = "rest" THEN draft' = draft
         ELSE \E j \in SUBSET Leaves : draft' = [draft EXCEPT !.leaves = l, !.linked = j],
         "catalog" \notin job.held, UNCHANGED <<job, raced, lost, written>>
  PROVE  MigrationInv'
<1>1. store \in Database /\ draft \in Database /\ job \in Jobs
  BY DEF MigrationInv, StoreInv
<1>2. /\ store' \in Database
      /\ store'.tags = store.tags /\ store'.rev = store.rev /\ store'.tables = store.tables
      /\ store'.leaves = l /\ store'.archive = store.archive
  BY <1>1, DatabaseIs
<1>3. StoreInv'
  BY <1>2 DEF MigrationInv, StoreInv
<1>4. CASE job.at = "rest"
  BY <1>1, <1>3, <1>4 DEF MigrationInv
<1>5. CASE job.at # "rest"
  <2>1. /\ draft' \in Database
        /\ draft'.tags = draft.tags /\ draft'.rev = draft.rev /\ draft'.tables = draft.tables
        /\ draft'.leaves = l /\ draft'.sources = draft.sources
        /\ draft'.archive = draft.archive
    BY <1>1, <1>5, DatabaseIs
  <2>2. JobStands
    BY <1>5 DEF MigrationInv
  <2>3. Placed' /\ Locked' /\ DraftArchive' /\ DraftRows'
    BY <1>2, <2>1, <2>2 DEF JobStands, Placed, Locked, DraftArchive, DraftRows
  <2>4. DraftLeaves'
    BY <1>2, <2>1, <2>2 DEF JobStands, Locked, DraftLeaves
  <2> QED BY <1>1, <1>3, <2>1, <2>2, <2>3, <2>4 DEF MigrationInv, JobStands
<1> QED BY <1>4, <1>5

LEMMA StepLoadLeaf ==
  ASSUME MigrationInv, NEW c \in Leaves, NEW known \in BOOLEAN, LoadLeaf(c, known)
  PROVE  MigrationInv'
<1> DEFINE l == store.leaves \cup {c}
           k == IF known THEN store.linked \cup {c} ELSE store.linked
           j == IF known THEN draft.linked \cup {c} ELSE draft.linked
<1>1. /\ store' = [store EXCEPT !.leaves = l, !.linked = k]
      /\ "catalog" \notin job.held /\ UNCHANGED <<job, raced, lost, written>>
      /\ draft' = Seen(draft, [draft EXCEPT !.leaves = draft.leaves \cup {c}, !.linked = j])
  BY DEF LoadLeaf
<1>2. /\ store.leaves \subseteq Leaves /\ store.linked \subseteq Leaves /\ draft.linked \subseteq Leaves
      /\ job.at # "rest" => draft.leaves = store.leaves
  BY DatabaseIs DEF MigrationInv, StoreInv, JobStands, DraftLeaves
<1>3. l \in SUBSET Leaves /\ k \in SUBSET Leaves /\ j \in SUBSET Leaves
  BY <1>2
<1>4. IF job.at = "rest" THEN draft' = draft
      ELSE draft' = [draft EXCEPT !.leaves = l, !.linked = j]
  BY <1>1, <1>2 DEF Seen
<1> HIDE DEF l, k, j
<1>5. IF job.at = "rest" THEN draft' = draft
      ELSE \E i \in SUBSET Leaves : draft' = [draft EXCEPT !.leaves = l, !.linked = i]
  BY <1>3, <1>4
<1> QED BY <1>1, <1>3, <1>5, LeavesMove

LEMMA StepRemoveLeaf ==
  ASSUME MigrationInv, NEW c \in Leaves, RemoveLeaf(c)
  PROVE  MigrationInv'
<1> DEFINE l == store.leaves \ {c}
           k == store.linked \ {c}
           j == draft.linked \ {c}
<1>1. /\ store' = [store EXCEPT !.leaves = l, !.linked = k]
      /\ "catalog" \notin job.held /\ UNCHANGED <<job, raced, lost, written>>
      /\ draft' = Seen(draft, [draft EXCEPT !.leaves = draft.leaves \ {c}, !.linked = j])
  BY DEF RemoveLeaf
<1>2. /\ store.leaves \subseteq Leaves /\ store.linked \subseteq Leaves /\ draft.linked \subseteq Leaves
      /\ job.at # "rest" => draft.leaves = store.leaves
  BY DatabaseIs DEF MigrationInv, StoreInv, JobStands, DraftLeaves
<1>3. l \in SUBSET Leaves /\ k \in SUBSET Leaves /\ j \in SUBSET Leaves
  BY <1>2
<1>4. IF job.at = "rest" THEN draft' = draft
      ELSE draft' = [draft EXCEPT !.leaves = l, !.linked = j]
  BY <1>1, <1>2 DEF Seen
<1> HIDE DEF l, k, j
<1>5. IF job.at = "rest" THEN draft' = draft
      ELSE \E i \in SUBSET Leaves : draft' = [draft EXCEPT !.leaves = l, !.linked = i]
  BY <1>3, <1>4
<1> QED BY <1>1, <1>3, <1>5, LeavesMove

LEMMA MigrationStep ==
  ASSUME MigrationAssumption, MigrationInv, [MigrationNext]_migrationVars
  PROVE  MigrationInv'
<1>1. CASE UNCHANGED migrationVars
  BY <1>1 DEF migrationVars, MigrationInv, StoreInv, JobStands, Placed, Locked, DraftArchive,
              DraftRows, DraftLeaves
<1>2. CASE JobStep
  BY <1>2, StepStartJob, StepStepUp, StepPreserveOldTags, StepEmpties, StepDropNames,
     StepLockCatalog, StepCopySources, StepRekey, StepCommit DEF JobStep
<1> QED BY <1>1, <1>2, StepRollBack, StepPlainUpgrade, StepPlainDowngrade, StepWriteProfile,
           StepLoadLeaf, StepRemoveLeaf DEF MigrationNext

(* Whatever the database went through, a job that began can go on unless *)
(* the data its messages name hold it up. *)
LEMMA JobGoesOn ==
  ASSUME MigrationInv
  PROVE  HeldUpOnlyByData
<1>1. CASE job.at = "rest"
  BY <1>1 DEF HeldUpOnlyByData
<1>2. CASE job.at # "rest"
  <2>0. /\ JobStands /\ job.at \in Places /\ draft \in Database
        /\ draft.rev \in 0..11 /\ job.before \in 0..11
    BY <1>2, DatabaseIs DEF MigrationInv, Jobs, Target
  <2>1. ASSUME NEW n \in Revision, draft.rev = n - 1, n = 8 => Unlinked(draft) = {}
        PROVE  MayUpgrade(n, draft)
    BY <2>0, <2>1, StampGrows DEF MayUpgrade, JobStands
  <2>2. ASSUME job.at \in {"to_0005", "to_0007", "to_0011"}, draft.rev + 1 <= LastRevision,
               draft.rev # 5, draft.rev # 7
        PROVE  MayStepUp
    <3>1. PICK n \in Revision : n = draft.rev + 1
      BY <2>0, <2>2 DEF Revision, LastRevision, Target
    <3>2. draft.rev = n - 1 /\ n # 8 /\ n # 6
      BY <2>0, <2>2, <3>1
    <3>3. MayUpgrade(n, draft)
      BY <2>1, <3>2
    <3> QED BY <2>2, <3>1, <3>2, <3>3 DEF MayStepUp, Due
  <2>3. CASE job.at = "to_0005"
    <3>1. LastRevision = 5 /\ draft.rev <= 5 /\ draft.archive = {}
      BY <2>0, <2>3 DEF LastRevision, JobStands, Placed, DraftArchive
    <3>2. CASE draft.rev = 5
      BY <2>3, <3>1, <3>2 DEF MayPreserve, Archivable, HeldUpOnlyByData
    <3>3. CASE draft.rev # 5
      BY <2>0, <2>2, <2>3, <3>1, <3>3 DEF HeldUpOnlyByData
    <3> QED BY <3>2, <3>3
  <2>4. CASE job.at = "to_0007"
    <3>1. LastRevision = 7 /\ draft.rev \in 5..7
      BY <2>0, <2>4 DEF LastRevision, JobStands, Placed
    <3>2. CASE draft.rev = 5
      BY <2>4, <3>2 DEF MayEmpty, HeldUpOnlyByData
    <3>3. CASE draft.rev = 6
      BY <2>2, <2>4, <3>1, <3>3 DEF HeldUpOnlyByData
    <3>4. CASE draft.rev = 7
      BY <2>4, <3>4 DEF MayLock, HeldUpOnlyByData
    <3> QED BY <3>1, <3>2, <3>3, <3>4
  <2>5. CASE job.at = "0006"
    BY <2>5 DEF MayDrop, HeldUpOnlyByData
  <2>6. CASE job.at = "0008"
    BY <2>6 DEF MayCopy, HeldUpOnlyByData
  <2>7. CASE job.at = "0008_copied"
    <3>1. 8 \in Revision /\ draft.rev = 8 - 1
      BY <2>0, <2>7 DEF JobStands, Placed, Revision, Target
    <3>2. Unlinked(draft) = {} => MayUpgrade(8, draft)
      BY <2>1, <3>1
    <3> QED BY <2>7, <3>2 DEF MayRekey, HeldUpOnlyByData
  <2>8. CASE job.at = "to_0011"
    <3>1. LastRevision = 11 /\ draft.rev \in 8..11
      BY <2>0, <2>8 DEF LastRevision, Target, JobStands, Placed
    <3>2. CASE draft.rev = 11
      BY <2>8, <3>2 DEF MayCommit, InputsKnown, Target, HeldUpOnlyByData
    <3>3. CASE draft.rev # 11
      BY <2>2, <2>8, <3>1, <3>3 DEF HeldUpOnlyByData
    <3> QED BY <3>2, <3>3
  <2> QED BY <1>2, <2>0, <2>3, <2>4, <2>5, <2>6, <2>7, <2>8 DEF Places
<1> QED BY <1>1, <1>2

(* A committed job has kept what it drops, but for tags that were written *)
(* between its copy and 0006; the version that is stamped names the schema *)
(* that is there; nothing but the data holds a job up (migration_upgrade *)
(* .py, catalog_transition.py). *)
THEOREM UpgradesLoseNothing ==
  ASSUME MigrationAssumption
  PROVE  MigrationSpec => [](JobLosesNothing /\ StampIsSchema /\ HeldUpOnlyByData)
<1>1. MigrationInit => MigrationInv
  BY MigrationStarts
<1>2. MigrationInv /\ [MigrationNext]_migrationVars => MigrationInv'
  BY MigrationStep
<1>3. ASSUME MigrationInv PROVE JobLosesNothing /\ StampIsSchema /\ HeldUpOnlyByData
  <2>1. JobLosesNothing
    BY <1>3 DEF MigrationInv, StoreInv, JobLosesNothing
  <2>2. StampIsSchema
    BY <1>3 DEF MigrationInv, StoreInv, JobStands, StampIsSchema, Known
  <2> QED BY <1>3, <2>1, <2>2, JobGoesOn
<1>4. MigrationInv => JobLosesNothing /\ StampIsSchema /\ HeldUpOnlyByData
  BY <1>3
<1> QED BY <1>1, <1>2, <1>4, PTL DEF MigrationSpec

(* A category with a Backend number is a category, for the job too. *)
LinkedIn(d) == d.linked \subseteq d.leaves
LeavesFit == LinkedIn(store) /\ LinkedIn(draft) /\ raced \subseteq Value

LEMMA LinkedStays ==
  ASSUME NEW d \in Database, LinkedIn(d)
  PROVE  /\ \A n : LinkedIn(Upgraded(n, d)) /\ LinkedIn(Downgraded(n, d))
         /\ LinkedIn(Archived(d)) /\ LinkedIn(Installed(d)) /\ LinkedIn(Empty)
         /\ \A t : LinkedIn([d EXCEPT !.tags = t])
         /\ \A n, t : LinkedIn([Upgraded(n, d) EXCEPT !.tags = t])
         /\ \A t, s : LinkedIn([d EXCEPT !.tables = t, !.sources = s])
<1>1. d \in Database
  OBVIOUS
<1> USE <1>1, DatabaseIs DEF LinkedIn
<1>2. ASSUME NEW n PROVE LinkedIn(Upgraded(n, d)) /\ LinkedIn(Downgraded(n, d))
  <2>1. Upgraded(n, d).linked = d.linked /\ Upgraded(n, d).leaves = d.leaves
    BY DEF Upgraded
  <2>2. Downgraded(n, d).linked = IF n = 3 THEN {} ELSE d.linked
    BY DEF Downgraded
  <2>3. Downgraded(n, d).leaves = IF n = 3 THEN {} ELSE d.leaves
    BY DEF Downgraded
  <2> QED BY <2>1, <2>2, <2>3
<1>3. LinkedIn(Archived(d)) /\ LinkedIn(Installed(d))
  BY DEF Archived, Installed
<1>4. LinkedIn(Empty)
  BY DEF Empty
<1>5. ASSUME NEW t PROVE LinkedIn([d EXCEPT !.tags = t])
  OBVIOUS
<1>6. ASSUME NEW n, NEW t PROVE LinkedIn([Upgraded(n, d) EXCEPT !.tags = t])
  <2>1. [Upgraded(n, d) EXCEPT !.tags = t].linked = d.linked
    BY DEF Upgraded
  <2>2. [Upgraded(n, d) EXCEPT !.tags = t].leaves = d.leaves
    BY DEF Upgraded
  <2> QED BY <2>1, <2>2
<1>7. ASSUME NEW t, NEW s PROVE LinkedIn([d EXCEPT !.tables = t, !.sources = s])
  OBVIOUS
<1> QED BY <1>2, <1>3, <1>4, <1>5, <1>6, <1>7

LEMMA LeavesFitStep ==
  ASSUME MigrationAssumption, MigrationInv, LeavesFit, [MigrationNext]_migrationVars
  PROVE  LeavesFit'
<1>1. store \in Database /\ draft \in Database /\ LinkedIn(store) /\ LinkedIn(draft)
  BY DEF MigrationInv, StoreInv, LeavesFit
<1>2. CASE UNCHANGED migrationVars
  BY <1>2 DEF migrationVars, LeavesFit, LinkedIn
<1>3. CASE JobStep
  <2>1. raced' = raced
    BY <1>3 DEF JobStep, StartJob, StepUp, PreserveOldTags, Empties, DropNames, LockCatalog,
                CopySources, Rekey, Commit
  <2>2. LinkedIn(store')
    <3>1. CASE Commit
      BY <1>1, <3>1, LinkedStays DEF Commit
    <3>2. CASE ~Commit
      <4>1. store' = store
        BY <1>3, <3>2 DEF JobStep, StartJob, StepUp, PreserveOldTags, Empties, DropNames,
                LockCatalog, CopySources, Rekey
      <4> QED BY <1>1, <4>1
    <3> QED BY <3>1, <3>2
  <2>3. LinkedIn(draft')
    <3>1. CASE StartJob
      BY <1>1, <3>1 DEF StartJob
    <3>2. CASE StepUp
      BY <1>1, <3>2, LinkedStays DEF StepUp
    <3>3. CASE PreserveOldTags
      BY <1>1, <3>3, LinkedStays DEF PreserveOldTags
    <3>4. CASE Empties
      <4>1. draft' = [draft EXCEPT !.tags = draft.tags \ TextRows(draft)]
        BY <3>4 DEF Empties
      <4> QED BY <1>1, <4>1, LinkedStays
    <3>5. CASE DropNames
      BY <1>1, <3>5, LinkedStays DEF DropNames
    <3>6. CASE LockCatalog
      BY <1>1, <3>6 DEF LockCatalog
    <3>7. CASE CopySources
      <4>1. draft' = [draft EXCEPT !.tables = draft.tables \cup {"sources"},
                                   !.sources = draft.sources \cup draft.leaves]
        BY <3>7 DEF CopySources
      <4> QED BY <1>1, <4>1, LinkedStays
    <3>8. CASE Rekey
      BY <1>1, <3>8, LinkedStays DEF Rekey
    <3>9. CASE Commit
      BY <1>1, <3>9, LinkedStays DEF Commit
    <3> QED BY <1>3, <3>1, <3>2, <3>3, <3>4, <3>5, <3>6, <3>7, <3>8, <3>9 DEF JobStep
  <2> QED BY <2>1, <2>2, <2>3 DEF LeavesFit, LinkedIn
<1>4. CASE RollBack
  BY <1>1, <1>4, LinkedStays DEF RollBack, LeavesFit, LinkedIn
<1>5. CASE PlainUpgrade \/ PlainDowngrade
  BY <1>1, <1>5, LinkedStays DEF PlainUpgrade, PlainDowngrade, LeavesFit, LinkedIn
<1>6. ASSUME NEW p \in People, WriteProfile(p) PROVE LeavesFit'
  <2>1. PICK row : /\ store' = Put(store, row) /\ draft' = Seen(draft, Put(draft, row))
                   /\ raced' \subseteq raced \cup {[who |-> p, n |-> written + 1]}
                   /\ written < MaxWrites
    BY <1>6 DEF WriteProfile
  <2>2. [who |-> p, n |-> written + 1] \in Value
    BY <2>1 DEF MigrationInv, StoreInv, Value, MigrationAssumption
  <2>3. LinkedIn(Put(store, row)) /\ LinkedIn(Put(draft, row))
    BY <1>1, DatabaseIs DEF Put, LinkedIn
  <2> QED BY <1>1, <2>1, <2>2, <2>3 DEF LeavesFit, LinkedIn, Seen
<1>7. ASSUME NEW c \in Leaves, NEW known \in BOOLEAN, LoadLeaf(c, known) PROVE LeavesFit'
  <2> DEFINE ks == IF known THEN store.linked \cup {c} ELSE store.linked
             kd == IF known THEN draft.linked \cup {c} ELSE draft.linked
             s == [store EXCEPT !.leaves = store.leaves \cup {c}, !.linked = ks]
             d == [draft EXCEPT !.leaves = draft.leaves \cup {c}, !.linked = kd]
  <2>1. store' = s /\ draft' \in {draft, d} /\ raced' = raced
    BY <1>7 DEF LoadLeaf, Seen
  <2>2. ks \subseteq store.leaves \cup {c} /\ kd \subseteq draft.leaves \cup {c}
    BY <1>1 DEF LinkedIn
  <2> HIDE DEF ks, kd
  <2>3. /\ s.linked = ks /\ s.leaves = store.leaves \cup {c}
        /\ d.linked = kd /\ d.leaves = draft.leaves \cup {c}
    BY <1>1, DatabaseIs
  <2> HIDE DEF s, d
  <2> QED BY <1>1, <2>1, <2>2, <2>3 DEF LeavesFit, LinkedIn
<1>8. ASSUME NEW c \in Leaves, RemoveLeaf(c) PROVE LeavesFit'
  <2> DEFINE s == [store EXCEPT !.leaves = store.leaves \ {c}, !.linked = store.linked \ {c}]
             d == [draft EXCEPT !.leaves = draft.leaves \ {c}, !.linked = draft.linked \ {c}]
  <2>1. store' = s /\ draft' \in {draft, d} /\ raced' = raced
    BY <1>8 DEF RemoveLeaf, Seen
  <2>2. LinkedIn(s) /\ LinkedIn(d)
    BY <1>1, DatabaseIs DEF LinkedIn
  <2> HIDE DEF s, d
  <2> QED BY <1>1, <2>1, <2>2 DEF LeavesFit, LinkedIn
<1> QED BY <1>2, <1>3, <1>4, <1>5, <1>6, <1>7, <1>8 DEF MigrationNext

(* The database and the job keep their types: what is lost was a value of *)
(* a recipient that raced the job (migration_upgrade.py). *)
THEOREM MigrationTypes ==
  ASSUME MigrationAssumption
  PROVE  MigrationSpec => []MigrationTypeOK
<1>1. MigrationInit => MigrationInv /\ LeavesFit
  <2> SUFFICES ASSUME MigrationInit
               PROVE  LeavesFit
    BY MigrationStarts
  <2>1. LinkedIn(Empty) /\ raced = {} /\ draft = Empty
    BY DEF MigrationInit, Empty, LinkedIn
  <2>2. store.linked = {}
    <3> DEFINE full == (Versioned \ {"disliked_names", "source_keys"}) \cup {"generations"}
               more == (Versioned \ {"disliked_names", "source_keys"}) \cup {"generations", "sources"}
    <3>3. \/ store = Empty \/ store = [Empty EXCEPT !.tables = {"profiles"}]
          \/ store = [Empty EXCEPT !.rev = Target, !.identity = FALSE, !.tables = full]
          \/ \E i \in {"empty", "unguarded"} :
               store = [Empty EXCEPT !.rev = Target, !.identity = TRUE, !.inputs = i, !.tables = more]
      BY DEF MigrationInit
    <3> HIDE DEF full, more
    <3>4. CASE store = Empty \/ store = [Empty EXCEPT !.tables = {"profiles"}]
      BY <3>4 DEF Empty
    <3>5. CASE store = [Empty EXCEPT !.rev = Target, !.identity = FALSE, !.tables = full]
      BY <3>5 DEF Empty
    <3>6. ASSUME NEW i \in {"empty", "unguarded"},
                 store = [Empty EXCEPT !.rev = Target, !.identity = TRUE, !.inputs = i, !.tables = more]
          PROVE  store.linked = {}
      BY <3>6 DEF Empty
    <3> QED BY <3>3, <3>4, <3>5, <3>6
  <2> QED BY <2>1, <2>2 DEF LeavesFit, LinkedIn
<1>2. MigrationInv /\ LeavesFit /\ [MigrationNext]_migrationVars => (MigrationInv /\ LeavesFit)'
  BY MigrationStep, LeavesFitStep
<1>3. MigrationInv /\ LeavesFit => MigrationTypeOK
  BY DEF MigrationInv, StoreInv, LeavesFit, LinkedIn, MigrationTypeOK, Jobs, Places
<1> QED BY <1>1, <1>2, <1>3, PTL DEF MigrationSpec
=============================================================================
