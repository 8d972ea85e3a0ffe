---------------------------- MODULE ExamResults ----------------------------
(***************************************************************************)
(* Grades and results of one student: the sheet of a term, which the       *)
(* report card prints, and the consolidated result of a year.  Both are    *)
(* computed from the same marks by code that was written twice.            *)
(*                                                                         *)
(* A percentage is counted in tenths (914 is 91.4 %); an absent student or *)
(* a missing mark is Absent.  One function divides floats, the other       *)
(* Decimals it then turns into floats: which neighbour a tie is rounded to *)
(* is up to the binary value (49 of 80 is 61.3 and 61.2), so a percentage  *)
(* is any of the nearest tenths, and a result any of several.              *)
(***************************************************************************)
EXTENDS Integers, FiniteSets, Sequences, Totals

CONSTANTS
    YearTerms,      \* terms whose results are published
    YearSubjects,   \* subjects of the student's class and section
    SheetConfigs,   \* bound: rows of exam_marks_config to combine
    SheetMarks      \* bound: marks to combine

Absent == -1
NoConfig == [max |-> 0, passing |-> 0, weight |-> 0]

ASSUME SheetAssumption ==
    /\ IsFiniteSet(YearTerms) /\ IsFiniteSet(YearSubjects)
    /\ SheetConfigs \subseteq [max : Nat \ {0}, passing : Nat, weight : Nat \ {0}]
    /\ SheetMarks \subseteq Nat

-----------------------------------------------------------------------------
Grades == <<"E", "D", "C2", "C1", "B2", "B1", "A2", "A1">>
GradeFloors == <<330, 410, 510, 610, 710, 810, 910>>

\* The CBSE grade: one step up for each floor the percentage reaches.
GradeFromPct(pct) ==
    IF pct = Absent THEN "AB"
    ELSE Grades[1 + Cardinality({i \in 1 .. 7 : pct >= GradeFloors[i]})]

Percentages(part, whole) ==
    IF whole = 0 THEN {Absent} ELSE Nearest(1000 * part, whole)

SubjectPercentages(config, mark) ==
    IF mark = Absent THEN {Absent} ELSE Percentages(mark, config.max)

SubjectPassed(config, mark) == mark # Absent /\ mark >= config.passing

OutOf(config) == [s \in DOMAIN config |-> config[s].max]

TermResultsOverAll(config, marks) ==
    LET marked == {s \in DOMAIN config : marks[s] # Absent}
    IN {[percentage |-> total,
         grade |-> GradeFromPct(total),
         passed |-> \A s \in DOMAIN config : SubjectPassed(config[s], marks[s])] :
        total \in Percentages(SumOver(marks, marked), SumOver(OutOf(config), DOMAIN config))}

\* One student's line of a term's sheet; config and marks are functions on the
\* subjects that have a configuration.
TermResults(config, marks) ==
    LET marked == {s \in DOMAIN config : marks[s] # Absent}
    IN {[percentage |-> total,
         grade |-> GradeFromPct(total),
         passed |-> \A s \in DOMAIN config : SubjectPassed(config[s], marks[s])] :
        total \in Percentages(SumOver(marks, marked), SumOver(OutOf(config), marked))}

-----------------------------------------------------------------------------
(* The year: a subject's percentage is the mean of its marked terms by     *)
(* their weightage, the student's percentage the mean over the subjects.   *)

YearSubjectPercentages(configs, marks, s) ==
    LET marked == {t \in DOMAIN configs : s \in DOMAIN configs[t] /\ marks[t][s] # Absent}
        max == [t \in marked |-> configs[t][s].max]
        weight == [t \in marked |-> configs[t][s].weight]
        scale == ProductOver(max, marked)
        part == [t \in marked |-> weight[t] * marks[t][s] * (scale \div max[t])]
    IN Percentages(SumOver(part, marked), scale * SumOver(weight, marked))

\* A missing mark fails the subject; a mark below the passing marks does not.
YearSubjectPassed(configs, marks, s) ==
    \A t \in DOMAIN configs : s \in DOMAIN configs[t] => marks[t][s] # Absent

\* The subjects' percentages as they were rounded, one way or another.
Roundings(configs, marks, subjects) ==
    {pct \in [subjects -> UNION {YearSubjectPercentages(configs, marks, s) : s \in subjects}] :
        \A s \in subjects : pct[s] \in YearSubjectPercentages(configs, marks, s)}

OverallPercentages(pct) ==
    LET graded == {s \in DOMAIN pct : pct[s] # Absent}
    IN IF graded = {} THEN {Absent} ELSE Nearest(SumOver(pct, graded), Cardinality(graded))

ConsolidatedResults(configs, marks, subjects) ==
    {[percentage |-> overall,
      grade |-> GradeFromPct(overall),
      passed |-> \A s \in subjects : YearSubjectPassed(configs, marks, s)] :
     overall \in UNION {OverallPercentages(pct) : pct \in Roundings(configs, marks, subjects)}}

-----------------------------------------------------------------------------
(* What the two computations owe each other, over every combination of the *)
(* given configurations and marks.                                         *)

\* A term's rows of exam_marks_config, NoConfig where a subject has none.
Sheets == [YearSubjects -> SheetConfigs \cup {NoConfig}]

Configured(sheet) == [s \in {x \in YearSubjects : sheet[x] # NoConfig} |-> sheet[s]]

\* Equal but for the rounding of a tie: both missing, or a tenth apart at most.
SameBut(p, q) ==
    \/ p = Absent /\ q = Absent
    \/ p # Absent /\ q # Absent /\ p <= q + 1 /\ q <= p + 1

\* The report card and the year's result, which two functions compute from
\* the same rows, agree: a student who passes each term passes the year; a
\* subject of a single term has that term's percentage in the year, and so has
\* a year of a single subject in a single term, to a tenth; and nobody passes a
\* term in which a configured subject has no mark (compute_term_results and
\* compute_consolidated_results).
TermAndYearAgree ==
    \A sheets \in [YearTerms -> Sheets] :
        \A marks \in [YearTerms -> [YearSubjects -> SheetMarks \cup {Absent}]] :
            LET configs == [t \in YearTerms |-> Configured(sheets[t])]
                Terms(t) == TermResults(configs[t], marks[t])
                Years == ConsolidatedResults(configs, marks, YearSubjects)
                Only(t, s) == s \in DOMAIN configs[t] /\ \A u \in YearTerms \ {t} : s \notin DOMAIN configs[u]
            IN /\ (\A t \in YearTerms : \A term \in Terms(t) : term.passed) => \A year \in Years : year.passed
               /\ \A t \in YearTerms, s \in YearSubjects : Only(t, s) =>
                      \A p \in SubjectPercentages(configs[t][s], marks[t][s]) :
                          \A q \in YearSubjectPercentages(configs, marks, s) : SameBut(p, q)
               /\ \A t \in YearTerms, s \in YearSubjects :
                      (Only(t, s) /\ \A u \in YearTerms : DOMAIN configs[u] \subseteq {s}) =>
                          \A term \in Terms(t), year \in Years : SameBut(term.percentage, year.percentage)
               /\ \A t \in YearTerms : \A term \in Terms(t) : term.passed =>
                      \A s \in DOMAIN configs[t] : Absent \notin SubjectPercentages(configs[t][s], marks[t][s])
=============================================================================
