---------------------------- MODULE ChatReports ----------------------------
(***************************************************************************)
(* What people say of an answer, and what the team does with it            *)
(* (chat/app/store.py feedback, conversation_feedback, review_report,      *)
(* report_items, admin, _report_page; main.py, admin.py).  A submission    *)
(* has an id its sender chose, for two tables: a report on a turn, or on a *)
(* conversation.  A review has an id too.  Every call is a transaction of  *)
(* READ COMMITTED that waits for the advisory locks of its ids; now() is   *)
(* the time it began, so stamps may be committed out of their order.       *)
(* The lists are paged by a cursor of (updated, id) while all this goes on. *)
(***************************************************************************)
EXTENDS Naturals, FiniteSets

CONSTANTS
    Calls,
    Reports,         \* submission ids, a set of numbers: the pages sort by them
    Reviews,         \* review ids
    Answers, Conversations,   \* what a report may be about
    Payloads,        \* what a report may say
    Statuses,        \* what a review may decide
    PageSize,
    MaxReportTime,   \* bound: the clock
    NoReport

ChatReportsAssumption ==
    /\ Reports \subseteq Nat /\ PageSize \in Nat \ {0} /\ MaxReportTime \in Nat
    /\ Answers \cap Conversations = {} /\ Payloads # {}
    /\ NoReport \notin Calls \cup Answers \cup Conversations \cup Statuses
    /\ NoReport \notin [about : Answers \cup Conversations, payload : Payloads, updated : 0..MaxReportTime,
                        workflow : Statuses \cup {NoReport}, reviewed : BOOLEAN]
    /\ NoReport \notin [fid : Reports, status : Statuses]

VARIABLES
    reportTime,
    answered,    \* the turns whose answer has ended
    reports,     \* the two tables: Reports -> a row
    reviews,     \* report_reviews: Reviews -> a row
    idLocks,     \* the advisory locks: ids -> the call that holds one
    filing,      \* Calls -> a request of the API
    pages        \* a reader of the list

reportVars == <<reportTime, answered, reports, reviews, idLocks, filing, pages>>

Tables == {"feedback", "conversation_reports"}
TableOf(target) == IF target \in Answers THEN "feedback" ELSE "conversation_reports"
Other(table) == CHOOSE t \in Tables : t # table
Stored(fid) == {t \in Tables : reports[t][fid] # NoReport}

(* A report of an earlier time. *)
Filed(about) == [about |-> about, payload |-> CHOOSE x \in Payloads : TRUE, updated |-> 0,
                 workflow |-> NoReport, reviewed |-> FALSE]

Unfiled == [at |-> "new", stamp |-> 0, ask |-> NoReport]

(* COALESCE(workflow_status, reviewed): what a row says of its review. *)
StatusOf(row) ==
    IF row.workflow # NoReport THEN row.workflow ELSE IF row.reviewed THEN "reviewed" ELSE "pending"

-----------------------------------------------------------------------------
(* A call begins: its now() is fixed. *)

BeginFiling(q, ask) ==
    /\ filing[q].at = "new"
    /\ filing' = [filing EXCEPT ![q] = [at |-> "begun", stamp |-> reportTime, ask |-> ask]]
    /\ UNCHANGED <<reportTime, answered, reports, reviews, idLocks, pages>>

Submissions == [kind : {"report"}, fid : Reports, about : Answers \cup Conversations, payload : Payloads]
Decisions == [kind : {"review"}, fid : Reports, rid : Reviews, status : Statuses]
Marks == [kind : {"mark"}, fid : Reports, table : Tables, reviewed : BOOLEAN]

Replied(q, answer) == [filing EXCEPT ![q].at = answer]
Unlocked(q) == [i \in DOMAIN idLocks |-> IF idLocks[i] = q THEN NoReport ELSE idLocks[i]]

(* pg_advisory_xact_lock. *)
LockId(q, id) == idLocks[id] = NoReport /\ idLocks' = [idLocks EXCEPT ![id] = q]

LockReport(q) ==
    /\ filing[q].at = "begun" /\ filing[q].ask.kind # "mark"
    /\ LockId(q, filing[q].ask.fid)
    /\ filing' = Replied(q, "locked")
    /\ UNCHANGED <<reportTime, answered, reports, reviews, pages>>

-----------------------------------------------------------------------------
(* feedback and conversation_feedback. *)

(* The id is free in the other table, and here or of the same report. *)
Conflicts(q) ==
    LET table == TableOf(filing[q].ask.about)
        old == reports[table][filing[q].ask.fid]
    IN \/ reports[Other(table)][filing[q].ask.fid] # NoReport
       \/ old # NoReport /\ (old.about # filing[q].ask.about \/ old.payload # filing[q].ask.payload)

Repeated(q) == reports[TableOf(filing[q].ask.about)][filing[q].ask.fid] # NoReport

(* A report waits for the end of the answer it is about. *)
TooEarly(q) == IF filing[q].ask.about \in Answers THEN filing[q].ask.about \notin answered ELSE answered # Answers

Check(q) ==
    /\ filing[q].at = "locked" /\ filing[q].ask.kind = "report"
    /\ filing' = Replied(q, IF Conflicts(q) THEN "refused"
                          ELSE IF Repeated(q) THEN "saved"
                          ELSE IF TooEarly(q) THEN "refused" ELSE "checked")
    /\ idLocks' = IF filing'[q].at = "checked" THEN idLocks ELSE Unlocked(q)
    /\ UNCHANGED <<reportTime, answered, reports, reviews, pages>>

Insert(q) ==
    /\ filing[q].at = "checked" /\ filing[q].ask.kind = "report"
    /\ reports' = [reports EXCEPT ![TableOf(filing[q].ask.about)][filing[q].ask.fid] =
                      [about |-> filing[q].ask.about, payload |-> filing[q].ask.payload, updated |-> filing[q].stamp,
                       workflow |-> NoReport, reviewed |-> FALSE]]
    /\ filing' = Replied(q, "saved")
    /\ idLocks' = Unlocked(q)
    /\ pages' = [pages EXCEPT !.changed = @ \cup {filing[q].ask.fid}]
    /\ UNCHANGED <<reportTime, answered, reviews>>

-----------------------------------------------------------------------------
(* review_report: the lock of the report, then the lock of the review. *)

Find(q) ==
    /\ filing[q].at = "locked" /\ filing[q].ask.kind = "review"
    /\ IF Cardinality(Stored(filing[q].ask.fid)) = 1
       THEN /\ LockId(q, filing[q].ask.rid)
            /\ filing' = Replied(q, "checked")
       ELSE /\ filing' = Replied(q, "refused")
            /\ idLocks' = Unlocked(q)
    /\ UNCHANGED <<reportTime, answered, reports, reviews, pages>>

SameReview(q) ==
    LET old == reviews[filing[q].ask.rid]
    IN old.fid = filing[q].ask.fid /\ old.status = filing[q].ask.status

Decide(q) ==
    /\ filing[q].at = "checked" /\ filing[q].ask.kind = "review"
    /\ IF reviews[filing[q].ask.rid] # NoReport
       THEN /\ filing' = Replied(q, IF SameReview(q) THEN "saved" ELSE "refused")
            /\ UNCHANGED <<reports, reviews, pages>>
       ELSE /\ \E table \in Stored(filing[q].ask.fid) :
                  reports' = [reports EXCEPT ![table][filing[q].ask.fid].workflow = filing[q].ask.status,
                                             ![table][filing[q].ask.fid].updated = filing[q].stamp]
            /\ reviews' = [reviews EXCEPT ![filing[q].ask.rid] = [fid |-> filing[q].ask.fid, status |-> filing[q].ask.status]]
            /\ pages' = [pages EXCEPT !.changed = @ \cup {filing[q].ask.fid}]
            /\ filing' = Replied(q, "saved")
    /\ idLocks' = Unlocked(q)
    /\ UNCHANGED <<reportTime, answered>>

(* admin, report_items with `reviewed`: the older mark, without a lock. *)
MarkReport(q) ==
    /\ filing[q].at = "begun" /\ filing[q].ask.kind = "mark"
    /\ LET row == reports[filing[q].ask.table][filing[q].ask.fid]
       IN IF row = NoReport
          THEN filing' = Replied(q, "refused") /\ UNCHANGED <<reports, pages>>
          ELSE /\ reports' = [reports EXCEPT ![filing[q].ask.table][filing[q].ask.fid] =
                                 [row EXCEPT !.reviewed = filing[q].ask.reviewed, !.updated = filing[q].stamp]]
               /\ filing' = Replied(q, "saved")
               /\ pages' = [pages EXCEPT !.changed = @ \cup {filing[q].ask.fid}]
    /\ UNCHANGED <<reportTime, answered, reviews, idLocks>>

-----------------------------------------------------------------------------
(* _report_page: one page after another, the oldest or the newest first. *)

Row(k) == reports[k[1]][k[2]]
Entry(k) == <<Row(k).updated, k[2]>>
Listed == {Entry(k) : k \in {l \in Tables \X Reports : Row(l) # NoReport}}

Before(x, y) == x[1] < y[1] \/ (x[1] = y[1] /\ x[2] < y[2])

(* The order of the list, and the entries behind the cursor. *)
Precedes(x, y) == IF pages.newest THEN Before(y, x) ELSE Before(x, y)
Behind == {x \in Listed : pages.at = "reading" => Precedes(pages.cursor, x)}

(* The first entries behind the cursor, and how often they show a report. *)
Shows(page, f) == Cardinality({x \in page : x[2] = f})

Turned(page) ==
    [pages EXCEPT !.seen = [f \in Reports |-> @[f] + Shows(page, f)],
                  !.there = IF pages.at = "new" THEN {x[2] : x \in Listed} ELSE @,
                  !.changed = IF pages.at = "new" THEN {} ELSE @]

TurnPage ==
    /\ pages.at \in {"new", "reading"}
    /\ \E page \in SUBSET Behind :
          /\ \A x \in page, y \in Behind \ page : Precedes(x, y)
          /\ \/ /\ page = Behind /\ Cardinality(page) <= PageSize
                /\ pages' = [Turned(page) EXCEPT !.at = "read"]
             \/ /\ page # Behind /\ Cardinality(page) = PageSize
                /\ \E last \in page :
                      /\ \A x \in page \ {last} : Precedes(x, last)
                      /\ pages' = [Turned(page) EXCEPT !.at = "reading", !.cursor = last]
    /\ UNCHANGED <<reportTime, answered, reports, reviews, idLocks, filing>>

-----------------------------------------------------------------------------
AnswerDone(t) ==
    /\ t \notin answered
    /\ answered' = answered \cup {t}
    /\ UNCHANGED <<reportTime, reports, reviews, idLocks, filing, pages>>

PassTime ==
    /\ reportTime < MaxReportTime
    /\ reportTime' = reportTime + 1
    /\ UNCHANGED <<answered, reports, reviews, idLocks, filing, pages>>

ReportsInit ==
    /\ reportTime = 0
    /\ answered \in SUBSET Answers
    /\ \E filed \in [Reports -> Answers \cup Conversations \cup {NoReport}] :
          /\ filed # [f \in Reports |-> NoReport] => answered = Answers
          /\ reports = [t \in Tables |-> [f \in Reports |->
                IF filed[f] = NoReport \/ TableOf(filed[f]) # t THEN NoReport ELSE Filed(filed[f])]]
    /\ reviews = [r \in Reviews |-> NoReport]
    /\ idLocks = [i \in Reports \cup Reviews |-> NoReport]
    /\ filing = [q \in Calls |-> Unfiled]
    /\ pages \in {[at |-> "new", newest |-> n, cursor |-> <<0, 0>>, seen |-> [f \in Reports |-> 0],
                  there |-> {}, changed |-> {}] : n \in BOOLEAN}

ReportsNext ==
    \/ \E q \in Calls : \/ \E ask \in Submissions \cup Decisions \cup Marks : BeginFiling(q, ask)
                        \/ LockReport(q) \/ Check(q) \/ Insert(q) \/ Find(q) \/ Decide(q) \/ MarkReport(q)
    \/ \E t \in Answers : AnswerDone(t)
    \/ TurnPage
    \/ PassTime

ReportsSpec == ReportsInit /\ [][ReportsNext]_reportVars

-----------------------------------------------------------------------------
ReportsTypeOK ==
    /\ reportTime \in 0..MaxReportTime
    /\ answered \subseteq Answers
    /\ \A q \in Calls : filing[q].at \in {"new", "begun", "locked", "checked", "saved", "refused"}
    /\ \A i \in DOMAIN idLocks : idLocks[i] \in Calls \cup {NoReport}
    /\ pages.at \in {"new", "reading", "read"}

(* An id is one report: it is in one of the two tables, whoever answered *)
(* "saved" for it said what is stored, and a review that was answered *)
(* "saved" is stored as it was sent, for a report whose state a stored *)
(* review decided (store.py feedback, conversation_feedback, *)
(* review_report). *)
SavedIsStored ==
    /\ \A f \in Reports : Cardinality(Stored(f)) <= 1
    /\ \A q \in Calls : filing[q].at = "saved" =>
          /\ filing[q].ask.kind = "report" =>
                LET row == reports[TableOf(filing[q].ask.about)][filing[q].ask.fid]
                IN row # NoReport /\ row.about = filing[q].ask.about /\ row.payload = filing[q].ask.payload
          /\ filing[q].ask.kind = "review" =>
                reviews[filing[q].ask.rid] = [fid |-> filing[q].ask.fid, status |-> filing[q].ask.status]
    /\ \A t \in Tables, f \in Reports :
          reports[t][f] # NoReport /\ reports[t][f].workflow # NoReport
             => \E r \in Reviews : reviews[r] = [fid |-> f, status |-> reports[t][f].workflow]

(* A reader who turns the pages to the last has every report that was *)
(* there and was left alone, once, whatever else was added, reviewed or *)
(* stamped out of order meanwhile (store.py _report_page). *)
PagesAreComplete ==
    \A f \in Reports \ pages.changed :
       /\ pages.seen[f] <= 1
       /\ pages.at = "read" /\ f \in pages.there => pages.seen[f] = 1
=============================================================================
