-------------------------- MODULE IncrementalTags --------------------------
(***************************************************************************)
(* The profile of one recipient: how the tags of a version are extracted   *)
(* from the texts of its input, re-using the tags of an earlier version    *)
(* when their texts did not change (incremental.py, pipeline.py), and how  *)
(* a profile and its reviews are saved (stores.py).                        *)
(*                                                                         *)
(* The texts are the gift preference and one review for each product; of a *)
(* text only its identity counts (its hash) and whether it is a review of  *)
(* one to three stars.  A tag is a name, whether it is a dislike, and the  *)
(* texts it rests on.  The code keeps the numbers of those products; here  *)
(* each is paired with the text that was read and each tag with the rules  *)
(* of its extraction, which is what the property is about and no step of   *)
(* the code sees.                                                          *)
(***************************************************************************)
EXTENDS Naturals, FiniteSets

CONSTANTS
    TagRuns,        \* profiling runs that may be under way, of one or more processes
    MaxInputVersion, \* bound: the input versions of the recipient
    Reviewed,    \* products that may be reviewed
    Texts,       \* texts, as good as their hashes
    LowRated,    \* the texts that come with one to three stars
    Names,       \* what a tag may say
    Restating,   \* names that begin with the name of the disliked category
    Editions,    \* prompt, model, validator and guard: what must agree to re-use a tag
    V3Editions,  \* the editions of the v3 engine, which always reads every text
    TriedInputs, \* the inputs that are tried
    NoText

TagsAssumption ==
    /\ MaxInputVersion \in Nat
    /\ LowRated \subseteq Texts /\ Restating \subseteq Names /\ V3Editions \subseteq Editions
    /\ NoText \notin Texts

VARIABLES
    input,     \* the input of every version, once one is chosen
    profileRow,       \* recipient_profiles: the row of the recipient
    reviews,   \* recipient_reviews: the text of every product that has a row
    saver,     \* the run that holds the recipient's lock, or none
    run        \* where every run is

tagsVars == <<input, profileRow, reviews, saver, run>>

Pref == 0                                   \* the source "pref"; a product is any other
Sources == {Pref} \cup Reviewed
NoInput == NoText                           \* no input is chosen for a version
NoProfile == [version |-> 0, pref |-> NoText, dislikes |-> FALSE, tags |-> {},
              status |-> "none", edition |-> NoText]
Resting == [at |-> "rest", version |-> 0, prev |-> NoProfile, hashes |-> {},
            profile |-> NoProfile, seen |-> {}]

InputsAssumption ==
    /\ TriedInputs \subseteq [text : [Sources -> Texts \cup {NoText}], dislikes : BOOLEAN]
    /\ NoInput \notin TriedInputs

TagsInit ==
    /\ input = [v \in 1..MaxInputVersion |-> NoInput]
    /\ profileRow = NoProfile
    /\ reviews = [p \in Reviewed |-> NoText]
    /\ saver = {}
    /\ run = [r \in TagRuns |-> Resting]

-----------------------------------------------------------------------------
(* The extraction. *)

Read(text) == {s \in Sources : text[s] # NoText}
Evidence(text, sources) == {<<s, text[s]>> : s \in sources}

(* tagging.prepare: reviews of products outside the catalog are left out. *)
Prepared(text, known) == Read(text) \cap ({Pref} \cup known)

(* worth_llm: a preference or a review of four or five stars. *)
WorthReading(text, sources) == \E s \in sources : s = Pref \/ text[s] \notin LowRated

(* tagging.validate: a like rests on the preference or on one good review, *)
(* a dislike on any text.  The model may answer anything; what it invents *)
(* is dropped here. *)
Validated(text, sources, edition) ==
    {t \in {[name |-> n, dislike |-> d, edition |-> edition, refs |-> Evidence(text, refs)] :
               n \in Names, d \in BOOLEAN, refs \in SUBSET sources} :
        IF t.dislike THEN t.refs # {}
                     ELSE \E e \in t.refs : e[1] = Pref \/ e[2] \notin LowRated}

(* At most one new tag in an answer: two meet in merge all the same. *)
Answers(text, sources, edition) == {{}} \cup {{t} : t \in Validated(text, sources, edition)}

(* Mutant: a text is taken as the same when the product was reviewed. *)
SameProducts(prev, hashes, text, known) ==
    {s \in Prepared(text, known) : IF s = Pref THEN text[s] = prev.pref
                                               ELSE \E c \in Texts : <<s, c>> \in hashes}

(* The tags of an earlier profile and the texts that are still the same. *)
(* prev is the row that was read, hashes its reviews. *)
SameTexts(prev, hashes, text, known) ==
    {s \in Prepared(text, known) : IF s = Pref THEN text[s] = prev.pref
                                               ELSE <<s, text[s]>> \in hashes}
Kept(prev, same) ==
    {[t EXCEPT !.refs = {e \in @ : e[1] \in same}] :
        t \in {u \in prev.tags : \E e \in u.refs : e[1] \in same}}

(* plan: the reasons to read everything again. *)
Reusable(prev, v, edition, dislikes) ==
    /\ prev.version \in 1..(v - 1)              \* no_prev, stale
    /\ prev.status \in {"ok", "skip_no_signal"}
    /\ prev.edition = edition
    /\ ~(prev.dislikes /\ ~dislikes)            \* dislike_removed

(* merge: one tag for each name; of two that disagree the dislike stays. *)
Join(t, u) == IF t.dislike = u.dislike THEN [t EXCEPT !.refs = @ \cup u.refs]
              ELSE IF t.dislike THEN t ELSE u
Merge(kept, new) ==
    {t \in kept : \A u \in new : u.name # t.name}
    \cup {u \in new : \A t \in kept : t.name # u.name}
    \cup {Join(p[1], p[2]) : p \in {q \in kept \X new : q[1].name = q[2].name}}

(* drop_category_restatements, over the tags that are kept and the new. *)
WithoutRestatements(tags, dislikes) ==
    {t \in tags : ~(dislikes /\ t.dislike /\ t.name \in Restating)}

(* The row that from_outcome makes of a run. *)
ProfileOf(v, tags, status, edition) ==
    [version |-> v, pref |-> input[v].text[Pref], dislikes |-> input[v].dislikes,
     tags |-> WithoutRestatements(tags, input[v].dislikes), status |-> status, edition |-> edition]

Extracted(v, tags, edition) ==
    LET p == ProfileOf(v, tags, "ok", edition)
    IN  IF p.tags = {} THEN [p EXCEPT !.status = "empty"] ELSE p

Finish(r, p) == run' = [run EXCEPT ![r].at = "extracted", ![r].profile = p,
                                   ![r].prev = NoProfile, ![r].hashes = {}]

-----------------------------------------------------------------------------
(* A run of profile().  The same version may be run again, by a retry. *)

(* _prev_profile: the row and its reviews in one statement; a read that *)
(* fails is a profile that is not there. *)
ReadPrevious(r, v, in, ok) ==
    /\ run[r].at = "rest"
    /\ input[v] \in {NoInput, in}
    /\ input' = [input EXCEPT ![v] = in]
    /\ run' = [run EXCEPT ![r] = [Resting EXCEPT
                    !.at = "reading", !.version = v,
                    !.prev = IF ok THEN profileRow ELSE NoProfile,
                    !.hashes = IF ok THEN {<<p, reviews[p]>> : p \in {q \in Reviewed : reviews[q] # NoText}}
                                     ELSE {}]]
    /\ UNCHANGED <<profileRow, reviews, saver>>

(* needs_model is false, or nothing is worth reading: no call, no tag. *)
SkipModel(r, known, edition) ==
    LET v == run[r].version
        text == input[v].text
    IN  /\ run[r].at = "reading"
        /\ ~WorthReading(text, Prepared(text, known))
        /\ Finish(r, IF Read(text) = {} THEN ProfileOf(v, {}, "skip", NoText)
                                        ELSE ProfileOf(v, {}, "skip_no_signal", edition))
        /\ UNCHANGED <<input, profileRow, reviews, saver>>

(* What the extraction of a run starts from: the texts of the prompt, the *)
(* ones that did not change, the tags these still carry, and whether the *)
(* earlier profile is built on: it is not when nothing is left to read and *)
(* no tag stays. *)
Plan(r, known, edition) ==
    LET v == run[r].version
        text == input[v].text
        same == SameTexts(run[r].prev, run[r].hashes, text, known)
        kept == Kept(run[r].prev, same)
    IN  [text |-> text, sent |-> Prepared(text, known), same |-> same, kept |-> kept,
         reuse |-> /\ edition \notin V3Editions
                   /\ Reusable(run[r].prev, v, edition, input[v].dislikes)
                   /\ \/ same # Prepared(text, known)
                      \/ WithoutRestatements(kept, input[v].dislikes) # {}]

MayExtract(r, plan) == run[r].at = "reading" /\ WorthReading(plan.text, plan.sent)

(* The model fails, or answers what is no list of tags: no tag is kept, *)
(* the earlier ones neither. *)
ModelFails(r, known, edition) ==
    LET plan == Plan(r, known, edition)
    IN  /\ MayExtract(r, plan)
        /\ ~plan.reuse \/ plan.same # plan.sent
        /\ Finish(r, ProfileOf(run[r].version, {}, "fail", NoText))
        /\ UNCHANGED <<input, profileRow, reviews, saver>>

(* _extract_tags and _extract_v3: every text is read. *)
ExtractAll(r, known, edition) ==
    LET plan == Plan(r, known, edition)
    IN  /\ MayExtract(r, plan)
        /\ ~plan.reuse
        /\ \E new \in Answers(plan.text, plan.sent, edition) :
              Finish(r, Extracted(run[r].version, new, edition))
        /\ UNCHANGED <<input, profileRow, reviews, saver>>

(* _extract_incremental: only what changed is read, which may be nothing. *)
ExtractChanged(r, known, edition) ==
    LET plan == Plan(r, known, edition)
    IN  /\ MayExtract(r, plan)
        /\ plan.reuse
        /\ \E new \in Answers(plan.text, plan.sent \ plan.same, edition) :
              Finish(r, Extracted(run[r].version, Merge(plan.kept, new), edition))
        /\ UNCHANGED <<input, profileRow, reviews, saver>>

-----------------------------------------------------------------------------
(* _save_locked: the recipient's advisory lock, then one statement that *)
(* writes the row unless a newer one is there, deletes the reviews it saw *)
(* when it began and does not have, and writes its own. *)

(* Mutant: the statement is run without the lock. *)
MayBeginAnyTime(r) == run[r].at = "extracted"

MayBegin(r) == run[r].at = "extracted" /\ saver = {}

BeginSave(r) ==
    /\ MayBegin(r)
    /\ saver' = saver \cup {r}
    /\ run' = [run EXCEPT ![r].at = "saving", ![r].seen = {p \in Reviewed : reviews[p] # NoText}]
    /\ UNCHANGED <<input, profileRow, reviews>>

SaveProfile(r) ==
    LET p == run[r].profile
        text == input[p.version].text
    IN  /\ run[r].at = "saving"
        /\ IF profileRow.version <= p.version
           THEN /\ profileRow' = p
                /\ reviews' = [q \in Reviewed |-> IF text[q] # NoText THEN text[q]
                                                  ELSE IF q \in run[r].seen THEN NoText
                                                  ELSE reviews[q]]
           ELSE UNCHANGED <<profileRow, reviews>>
        /\ saver' = saver \ {r}
        /\ run' = [run EXCEPT ![r] = Resting]
        /\ UNCHANGED input

(* The lock is not had in time, the statement is refused, or the process *)
(* dies: the lock goes with its session. *)
EndRun(r) ==
    /\ run[r].at # "rest"
    /\ run' = [run EXCEPT ![r] = Resting]
    /\ saver' = saver \ {r}
    /\ UNCHANGED <<input, profileRow, reviews>>

-----------------------------------------------------------------------------
TagsNext == \E r \in TagRuns :
    \/ \E v \in 1..MaxInputVersion, in \in TriedInputs, ok \in BOOLEAN : ReadPrevious(r, v, in, ok)
    \/ \E known \in SUBSET Reviewed, edition \in Editions :
          \/ SkipModel(r, known, edition)
          \/ ModelFails(r, known, edition)
          \/ ExtractAll(r, known, edition)
          \/ ExtractChanged(r, known, edition)
    \/ BeginSave(r)
    \/ SaveProfile(r)
    \/ EndRun(r)

TagsSpec == TagsInit /\ [][TagsNext]_tagsVars

-----------------------------------------------------------------------------
(* Every run is somewhere in profile(), the row is one of a version that *)
(* has an input, and the recipient's lock has one holder. *)
TagsTypeOK ==
    /\ \A r \in TagRuns : /\ run[r].at \in {"rest", "reading", "extracted", "saving"}
                       /\ (run[r].at = "saving") = (r \in saver)
    /\ Cardinality(saver) <= 1
    /\ profileRow.version \in 0..MaxInputVersion
    /\ profileRow.version > 0 => input[profileRow.version] \in TriedInputs
    /\ reviews \in [Reviewed -> Texts \cup {NoText}]

(* However often tags are handed on from version to version, whatever *)
(* fails and in whatever order versions are saved, each tag of the stored *)
(* profile rests only on texts of the very input the row is of, was found *)
(* by the edition the row names, and does not say again that the *)
(* recipient dislikes a category they now dislike anyway. *)
TagsFitTheRow ==
    \A t \in profileRow.tags :
        /\ t.refs # {}
        /\ \A e \in t.refs : input[profileRow.version].text[e[1]] = e[2]
        /\ t.edition = profileRow.edition
        /\ ~(profileRow.dislikes /\ t.dislike /\ t.name \in Restating)

(* The reviews beside the profile are those of its version, none left over *)
(* from a version whose save was under way. *)
ReviewsOfVersion ==
    profileRow.version > 0 => \A p \in Reviewed : reviews[p] = input[profileRow.version].text[p]
=============================================================================
