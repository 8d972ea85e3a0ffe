----------------------------- MODULE ExamTerms -----------------------------
(***************************************************************************)
(* One exam term and one subject in it: the term's lifecycle, the subject's *)
(* marks configuration and components, and the marks that teachers save.   *)
(*                                                                         *)
(* A save checks that the term is open, then the maxima, then writes; only *)
(* the write is a transaction, so the principal may close the term or      *)
(* reconfigure the subject in between, and two saves may overlap.          *)
(***************************************************************************)
EXTENDS Integers, FiniteSets, Totals, ExamResults

CONSTANTS
    Students,
    Components,     \* names of the subject's components
    Weight,         \* weightage of each component
    Maxima,         \* bound: values of max_marks
    Marks,          \* bound: values of marks_obtained
    Saves,          \* requests to save marks; each is sent once
    MaxSetups       \* bound: changes of the configuration

ASSUME WeightAssumption == Weight \in [Components -> Nat \ {0}]
ASSUME MarksAssumption ==
    /\ Maxima \subseteq Nat \ {0} /\ IsFiniteSet(Maxima)
    /\ Marks \subseteq Nat
    /\ IsFiniteSet(Components)
    /\ MaxSetups \in Nat

VARIABLES
    status,     \* exam_terms.status
    published,  \* exam_terms.is_published
    config,     \* exam_marks_config.max_marks of (term, subject), 0 without a row
    component,  \* exam_components: max_marks and a number for the row's id
    score,      \* exam_component_marks
    entry,      \* mark_entries
    save,       \* requests in progress
    announced,  \* EXAM_PUBLISHED was emitted since the term was last unpublished
    setups,     \* changes of the configuration so far
    drift,      \* history: why a student's entry may differ from the scores
    lowered,    \* history: a maximum was lowered below an earlier one
    inFlight    \* history: saves past their open check when the term left marks_open

rows == <<config, component, score, entry>>
term == <<status, published, announced>>
history == <<drift, lowered, inFlight>>
termVars == <<term, rows, save, setups, history>>

-----------------------------------------------------------------------------
TermStatuses == {"draft", "marks_open", "locked", "published"}
Causes == {"typed", "reconfigured", "overlapped"}

NoComponent == [max |-> 0, id |-> 0]
NoTotal == -1
\* marked: marks_obtained is not NULL.  An absence and a NULL count as 0 marks.
NoScore == [marks |-> 0, absent |-> FALSE, marked |-> FALSE, row |-> FALSE]
Score(m) == [marks |-> m, absent |-> FALSE, marked |-> TRUE, row |-> TRUE]
AbsentScore == [marks |-> 0, absent |-> TRUE, marked |-> FALSE, row |-> TRUE]
BlankScore == [marks |-> 0, absent |-> FALSE, marked |-> FALSE, row |-> TRUE]

\* What a teacher types for one component or for the whole subject: marks,
\* an absence, or nothing (both requests have marks_obtained optional).
Typed == {Score(m) : m \in Marks} \cup {AbsentScore, BlankScore}

Defined == {c \in Components : component[c] # NoComponent}

Idle == [pc |-> "idle", student |-> CHOOSE s \in Students : TRUE, typed |-> <<>>, ids |-> <<>>,
         total |-> NoScore, missed |-> {}]

\* Answered, refused or dead: each request is sent once.
Finished == [Idle EXCEPT !.pc = "finished"]

TermInit ==
    /\ status = "draft" /\ published = FALSE
    /\ config = 0
    /\ component = [c \in Components |-> NoComponent]
    /\ score = [s \in Students |-> [c \in Components |-> NoScore]]
    /\ entry = [s \in Students |-> NoScore]
    /\ save = [k \in Saves |-> Idle]
    /\ announced = FALSE
    /\ setups = 0
    /\ drift = [s \in Students |-> {}]
    /\ lowered = FALSE
    /\ inFlight = {}

-----------------------------------------------------------------------------
(* The term's lifecycle: one transaction each, the term's row locked.      *)

AllowedTransitionsMisspelt ==
    [draft |-> {"open"}, marks_open |-> {"locked"},
     locked |-> {"published", "marks_open"}, published |-> {"locked"}]

AllowedTransitions ==
    [draft |-> {"marks_open"}, marks_open |-> {"locked"},
     locked |-> {"published", "marks_open"}, published |-> {"locked"}]

EventForTransition(from, to) ==
    CASE from = "draft" -> "EXAM_MARKS_OPENED"
      [] from = "marks_open" -> "EXAM_MARKS_LOCKED"
      [] from = "locked" /\ to = "published" -> "EXAM_PUBLISHED"
      [] OTHER -> "EXAM_REOPENED"

\* Saves that have read an open term and not yet written.
Checked == {k \in Saves : save[k].pc \in {"opened", "fitted", "written", "rolled"}}

TransitionTermStatus(to) ==
    /\ to \in AllowedTransitions[status]
    /\ status' = to
    /\ published' = (to = "published")
    /\ announced' = (EventForTransition(status, to) = "EXAM_PUBLISHED")
    /\ inFlight' = IF status = "marks_open" THEN Checked ELSE inFlight
    /\ UNCHANGED <<rows, save, setups, drift, lowered>>

\* The flag alone, whatever the status; only a first release is announced.
PublishTerm(publish) ==
    /\ published' = publish
    /\ announced' = (publish /\ (announced \/ ~published))
    /\ UNCHANGED <<status, rows, save, setups, history>>

-----------------------------------------------------------------------------
(* Setup by the principal, in any status of the term.                      *)

SetMarksConfig(max) ==
    /\ setups < MaxSetups
    /\ setups' = setups + 1
    /\ config' = max
    /\ lowered' = (lowered \/ max < config)
    /\ UNCHANGED <<term, component, score, entry, save, drift, inFlight>>

UpsertMarksConfig(max) == SetMarksConfig(max)

\* One row of the sheet of terms: each statement commits by itself, the term's
\* status stays and every subject of the file gets the row's maximum.
ImportTermRow(max) == SetMarksConfig(max)

\* The components asked for replace the others, whose scores go with them
\* (ON DELETE CASCADE); a component that stays keeps its id and its scores.
Reconfigured(wanted) ==
    [c \in Components |->
        IF c \notin DOMAIN wanted THEN NoComponent
        ELSE [max |-> wanted[c],
              id |-> IF component[c] = NoComponent THEN setups + 1 ELSE component[c].id]]

\* A save that has written a score of the component holds a key lock on its row.
Referenced(c) ==
    \E k \in Saves : save[k].pc \in {"written", "rolled"} /\ c \in DOMAIN save[k].typed

ConfigureComponents(wanted) ==
    /\ setups < MaxSetups
    /\ \A c \in Defined \ DOMAIN wanted : ~Referenced(c)
    /\ setups' = setups + 1
    /\ component' = Reconfigured(wanted)
    /\ score' = [s \in Students |-> [c \in Components |->
                    IF c \in DOMAIN wanted THEN score[s][c] ELSE NoScore]]
    /\ config' = 100
    /\ lowered' = (lowered \/ \E c \in Defined \cap DOMAIN wanted : wanted[c] < component[c].max)
    /\ drift' = [s \in Students |-> drift[s] \cup {"reconfigured"}]
    /\ save' = [k \in Saves |-> IF save[k].pc = "rolled"
                                THEN [save[k] EXCEPT !.missed = @ \cup {"reconfigured"}] ELSE save[k]]
    /\ UNCHANGED <<term, entry, inFlight>>

-----------------------------------------------------------------------------
(* The first two statements of a save: is the term open, do the marks fit. *)

AssertMarksNotReleased == status \in {"marks_open", "locked"}

AssertMarksOpen == status = "marks_open"

\* A request of save_component_marks names components by id; one of save_marks
\* (typed on the empty component list) carries the subject's marks in total.
Begin(k, student, typed, total) ==
    /\ save[k] = Idle
    /\ AssertMarksOpen
    /\ save' = [save EXCEPT ![k] =
                  [Idle EXCEPT !.pc = "opened", !.student = student, !.typed = typed,
                               !.ids = [c \in DOMAIN typed |-> component[c].id],
                               !.total = total]]
    /\ UNCHANGED <<term, rows, setups, history>>

ComponentFitsSubject(k, c) == save[k].typed[c].absent \/ save[k].typed[c].marks <= config

\* A component or a configuration that is not found sets no cap.
ComponentFits(k, c) ==
    LET typed == save[k].typed[c]
        found == component[c].id = save[k].ids[c]
    IN typed.absent \/ ~found \/ typed.marks <= component[c].max

TotalFits(k) == save[k].total.absent \/ config = 0 \/ save[k].total.marks <= config

Direct(k) == DOMAIN save[k].typed = {}

Fits(k) == IF Direct(k) THEN TotalFits(k) ELSE \A c \in DOMAIN save[k].typed : ComponentFits(k, c)

CheckFit(k) ==
    /\ save[k].pc = "opened"
    /\ save' = [save EXCEPT ![k] = IF Fits(k) THEN [@ EXCEPT !.pc = "fitted"]
                                   ELSE Finished]
    /\ UNCHANGED <<term, rows, setups, history>>

-----------------------------------------------------------------------------
(* save_marks: one statement upserts the entry, whose marks are counted in  *)
(* hundredths (NUMERIC(.., 2)).  (MARKS_ENTERED, which both kinds of save   *)
(* emit afterwards, has no reader.)                                        *)

SaveMarks(k) ==
    /\ save[k].pc = "fitted" /\ Direct(k)
    /\ entry' = [entry EXCEPT ![save[k].student] = [save[k].total EXCEPT !.marks = 100 * @]]
    /\ save' = [save EXCEPT ![k] = Finished]
    /\ drift' = [drift EXCEPT ![save[k].student] = @ \cup {"typed"}]
    /\ UNCHANGED <<term, config, component, score, setups, lowered, inFlight>>

(* save_component_marks: a transaction writes the scores, then rolls up what *)
(* it can see - the committed scores and its own - into the entry.           *)

\* Rows of exam_component_marks as the transaction of k sees them.
Visible(k, c) == IF c \in DOMAIN save[k].typed THEN save[k].typed[c] ELSE score[save[k].student][c]

Seen(k) == [c \in Components |-> Visible(k, c)]

\* The share of a hundred, counted in hundredths, is the fraction of these two:
\* the marks scored, by weightage, over the weightage of all the components
\* that count; both by the product of the maxima, which stands for dividing by
\* each.  The division is exact here; that numeric and Decimal cut it off after
\* 16 digits and more can only move a tie to the other side, and the properties
\* allow either.
Earned(max, scores, counting) ==
    LET scale == ProductOver(max, counting)
        part == [c \in DOMAIN scores |->
                    IF scores[c].absent THEN 0
                    ELSE scores[c].marks * Weight[c] * (scale \div max[c])]
    IN 10000 * SumOver(part, DOMAIN scores)

Attainable(max, counting) == ProductOver(max, counting) * SumOver(Weight, counting)

MaxMarks == [c \in Components |-> component[c].max]

RollUpOfOwnScores(k) ==
    LET rated == DOMAIN save[k].typed
        own == [c \in rated |-> Visible(k, c)]
    IN [marks |-> RoundAway(Earned(MaxMarks, own, rated), Attainable(MaxMarks, rated)),
        absent |-> \A c \in rated : own[c].absent,
        marked |-> TRUE, row |-> TRUE]

\* Only components with a row count, an absence or a NULL counts nothing.
RollUpOf(seen) ==
    LET rated == {c \in Defined : seen[c].row}
        given == [c \in rated |-> seen[c]]
    IN [marks |-> RoundAway(Earned(MaxMarks, given, rated), Attainable(MaxMarks, rated)),
        absent |-> \A c \in rated : seen[c].absent,
        marked |-> TRUE, row |-> TRUE]

RollUp(k) == RollUpOf(Seen(k))

\* The row locks of a running transaction: a second writer of a score waits.
WaitsForScore(k) ==
    \E j \in Saves \ {k} :
        /\ save[j].pc \in {"written", "rolled"} /\ save[j].student = save[k].student
        /\ DOMAIN save[j].typed \cap DOMAIN save[k].typed # {}

\* A component whose row is gone fails the INSERT, and with it the transaction.
WriteScores(k) ==
    /\ save[k].pc = "fitted" /\ ~Direct(k)
    /\ ~WaitsForScore(k)
    /\ save' = [save EXCEPT ![k] =
                  IF \A c \in DOMAIN save[k].typed : component[c].id = save[k].ids[c]
                  THEN [@ EXCEPT !.pc = "written"] ELSE Finished]
    /\ UNCHANGED <<term, rows, setups, history>>

RollUpScores(k) ==
    /\ save[k].pc = "written"
    /\ save' = [save EXCEPT ![k] = [@ EXCEPT !.pc = "rolled", !.total = RollUp(k)]]
    /\ UNCHANGED <<term, rows, setups, history>>

CommitScores(k) ==
    LET s == save[k].student
    IN /\ save[k].pc = "rolled"
       /\ score' = [score EXCEPT ![s] = Seen(k)]
       /\ entry' = [entry EXCEPT ![s] = save[k].total]
       /\ drift' = [drift EXCEPT ![s] = save[k].missed]
       /\ save' = [j \in Saves |->
                     IF j = k THEN Finished
                     ELSE IF save[j].pc = "rolled" /\ save[j].student = s
                     THEN [save[j] EXCEPT !.missed = @ \cup {"overlapped"}]
                     ELSE save[j]]
       /\ UNCHANGED <<term, config, component, setups, lowered, inFlight>>

\* The request's process stops: an open transaction rolls back.
SaveDies(k) ==
    /\ save[k].pc \in {"opened", "fitted", "written", "rolled"}
    /\ save' = [save EXCEPT ![k] = Finished]
    /\ UNCHANGED <<term, rows, setups, history>>

-----------------------------------------------------------------------------
BeginComponents(k, s) ==
    \E over \in (SUBSET Defined) \ {{}} : \E typed \in [over -> Typed] : Begin(k, s, typed, NoScore)

BeginDirect(k, s) == \E total \in Typed : Begin(k, s, <<>>, total)

Setup ==
    \/ \E max \in Maxima : UpsertMarksConfig(max) \/ ImportTermRow(max)
    \/ \E over \in (SUBSET Components) \ {{}} : \E wanted \in [over -> Maxima] : ConfigureComponents(wanted)

Lifecycle ==
    \/ \E to \in AllowedTransitions[status] : TransitionTermStatus(to)
    \/ \E publish \in BOOLEAN : PublishTerm(publish)

Save(k) ==
    \/ \E s \in Students : BeginComponents(k, s) \/ BeginDirect(k, s)
    \/ CheckFit(k)
    \/ SaveMarks(k)
    \/ WriteScores(k)
    \/ RollUpScores(k)
    \/ CommitScores(k)
    \/ SaveDies(k)

TermNext == Lifecycle \/ Setup \/ \E k \in Saves : Save(k)

TermSpec == TermInit /\ [][TermNext]_termVars

-----------------------------------------------------------------------------
(* Properties.                                                             *)

\* Marks that are NULL count as 0.
ScoreRecord == {r \in [marks : Nat, absent : BOOLEAN, marked : BOOLEAN, row : BOOLEAN] :
                   r.marked \/ r.marks = 0}

\* What a request carries, until it is answered.
SaveTypeOK(k) ==
    /\ save[k].pc \in {"idle", "opened", "fitted", "written", "rolled", "finished"}
    /\ k \in Checked => save[k].student \in Students
    /\ DOMAIN save[k].typed \subseteq Components
    /\ DOMAIN save[k].ids = DOMAIN save[k].typed
    /\ \A c \in DOMAIN save[k].typed : save[k].typed[c] \in Typed /\ save[k].ids[c] \in Nat
    /\ save[k].total \in ScoreRecord
    /\ save[k].missed \subseteq Causes

TermTypeOK ==
    /\ status \in TermStatuses /\ published \in BOOLEAN /\ announced \in BOOLEAN
    /\ config \in Nat
    /\ component \in [Components -> [max : Nat, id : Nat]]
    /\ score \in [Students -> [Components -> ScoreRecord]]
    /\ entry \in [Students -> ScoreRecord]
    /\ \A k \in Saves : SaveTypeOK(k)
    /\ setups \in 0 .. MaxSetups
    /\ drift \in [Students -> SUBSET Causes]
    /\ lowered \in BOOLEAN
    /\ inFlight \subseteq Saves

\* Marks that are not open change only by a save that had passed its open check
\* when the term was last closed: no request that starts after the principal
\* locks the term is written, whatever it interleaves with (_assert_marks_open
\* reads the status without a lock, the write comes statements later).
LateWritesWereInFlight ==
    [][(entry' # entry /\ status # "marks_open")
          => \E k \in inFlight : save[k] # Finished /\ save'[k] = Finished]_termVars

\* The teacher's grid: all components count, those with present marks are
\* given; without any the total is left blank.
Present(s) == {c \in Defined : score[s][c].marked /\ ~score[s][c].absent}

GridTotal(s) ==
    LET given == [c \in {d \in Defined : score[s][d].row} |-> score[s][c]]
    IN IF Present(s) = {} THEN NoTotal
       ELSE RoundEven(Earned(MaxMarks, given, Defined), Attainable(MaxMarks, Defined))

GridAbsent(s) == Defined # {} /\ \A c \in Defined : score[s][c].row /\ score[s][c].absent

\* The entry that results are computed from and the total the teacher's grid
\* shows come from two pieces of code that round a tie differently (12.345
\* becomes 12.35 and 12.34).  They agree to a hundredth for a student with a
\* row for every component, and the grid shows no more than that above the
\* entry otherwise; a total left blank is an entry of 0, which the results
\* count.  That holds unless the total was typed over, the components were
\* configured again, or two saves of the student overlapped (the roll-up of
\* save_component_marks cannot see the scores of a transaction that has not
\* committed).
GridMatchesEntry ==
    \A s \in Students :
        (entry[s].row /\ drift[s] = {}) =>
            /\ GridTotal(s) = NoTotal => entry[s].marks = 0
            /\ GridTotal(s) <= entry[s].marks + 1
            /\ (\A c \in Defined : score[s][c].row) =>
                   /\ entry[s].absent = GridAbsent(s)
                   /\ GridTotal(s) # NoTotal => entry[s].marks <= GridTotal(s) + 1

\* No percentage above a hundred is ever rolled up, as long as nobody lowers a
\* maximum below an earlier one; the caps are read before the write and the
\* rows they belong to may be replaced.  (A total that a teacher types over the
\* roll-up has the cap of the configuration, and none without one.)
RollUpsStayWithinHundred ==
    ~lowered => \A s \in Students : "typed" \notin drift[s] => entry[s].marks <= 10000

\* The two computations of results, of compute_term_results and of
\* compute_consolidated_results, agree.  That is about all inputs and no state:
\* it is stated for the one state in which nothing has happened yet.
ResultsAgree == (status = "draft" /\ ~published /\ setups = 0) => TermAndYearAgree
=============================================================================
