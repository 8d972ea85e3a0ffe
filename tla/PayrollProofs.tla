--------------------------- MODULE PayrollProofs ---------------------------
(***************************************************************************)
(* That every run is the snapshot of a month, and which edits may reach a  *)
(* finalized payslip, for any staff, months, runs and requests.            *)
(***************************************************************************)
EXTENDS Payroll, TLAPS

LineSums == [allowances : Nat, deductions : Nat]
Structures == [gross : Nat, lines : LineSums, row : BOOLEAN]
Slips == [gross : Nat, lines : LineSums, net : Int, row : BOOLEAN]
Snapshots == UNION {[S -> Structures] : S \in SUBSET Staff}
Places == {"idle", "finished", "salary", "create", "inserted", "snapshot", "edit", "locked"}
RequestRows == [pc : Places, run : RunIds \cup {"none"}, staff : Staff \cup {"none"},
                saw : Periods \cup {"none", "draft", "finalized"}, snapshot : Snapshots]

TypesInv ==
    /\ TypeOK
    /\ request \in [Requests -> RequestRows]
    /\ payableOnce \in [RunIds -> SUBSET Staff] /\ payableAlways \in [RunIds -> SUBSET Staff]

Creates(k) == request[k].pc \in {"inserted", "snapshot"}

\* A run is created by one request, as a draft; until it is read, whoever was
\* to be paid all the while is to be paid now, and whoever is now was once;
\* and then the same holds of what was read.
CreationsInv ==
    \A k \in Requests : Creates(k) =>
        /\ request[k].run \in RunIds /\ run[request[k].run].status = "draft"
        /\ \A j \in Requests : Creates(j) /\ request[j].run = request[k].run => j = k
        /\ request[k].pc = "inserted" => \A s \in Staff :
              /\ s \in payableAlways[request[k].run] => Payable(s)
              /\ Payable(s) => s \in payableOnce[request[k].run]
        /\ request[k].pc = "snapshot" =>
              /\ \E s \in Staff : s \in DOMAIN request[k].snapshot
              /\ \A s \in Staff :
                    /\ s \in payableAlways[request[k].run] => s \in DOMAIN request[k].snapshot
                    /\ s \in DOMAIN request[k].snapshot => s \in payableOnce[request[k].run]

\* An edit that has seen a draft, and comes too late, was there when its run was
\* finalized.
EditsInv ==
    \A k \in Requests :
        /\ request[k].pc = "salary" => request[k].staff \in Staff
        /\ request[k].pc = "create" => request[k].saw \in Periods
        /\ request[k].pc \in {"edit", "locked"} =>
              /\ request[k].run \in RunIds /\ request[k].staff \in Staff
              /\ (request[k].saw = "draft" \/ request[k].pc = "locked")
                    => (run[request[k].run].status = "finalized" => k \in inFlight)

RunsInv ==
    \A r \in RunIds :
        /\ run[r].status = "none" => run[r] = NoRun
        /\ run[r].status # "none" => run[r].period \in Periods
        /\ \A q \in RunIds :
              run[q].status # "none" /\ run[r].status # "none" /\ run[q].period = run[r].period => q = r
        /\ (run[r].status # "none" /\ \A k \in Requests : Creates(k) => request[k].run # r) =>
              /\ \E s \in Staff : payslip[r][s].row
              /\ \A s \in Staff :
                    /\ s \in payableAlways[r] => payslip[r][s].row
                    /\ payslip[r][s].row => s \in payableOnce[r]

IInv == TypesInv /\ CreationsInv /\ EditsInv /\ RunsInv

-----------------------------------------------------------------------------
LEMMA NothingRead == <<>> \in Snapshots
<1>1. <<>> \in [{} -> Structures]
  OBVIOUS
<1> QED BY <1>1 DEF Snapshots

LEMMA IdleIsRequest ==
    /\ Idle \in RequestRows /\ Idle.pc = "idle"
    /\ Finished \in RequestRows /\ Finished.pc = "finished"
  BY NothingRead DEF Idle, Finished, RequestRows, Places

LEMMA CommittedRuns ==
    ASSUME IInv, NEW r \in RunIds
    PROVE  Committed(r) <=> (run[r].status # "none" /\ \A k \in Requests : Creates(k) => request[k].run # r)
<1>1. run[r] # NoRun <=> run[r].status # "none"
  BY DEF IInv, RunsInv, NoRun
<1>2. Creating(r) = {} <=> \A k \in Requests : Creates(k) => request[k].run # r
  BY DEF Creating, Creates
<1> QED BY <1>1, <1>2 DEF Committed

LEMMA InitIInv == Init => IInv
<1> SUFFICES ASSUME Init PROVE IInv
  OBVIOUS
<1>1. \A k \in Requests : request[k] = Idle
  BY DEF Init
<1>2. \A r \in RunIds : run[r] = NoRun /\ run[r].status = "none"
  BY DEF Init, NoRun
<1>3. TypesInv
  <2>1. TypeOK
    <3>1. active \in [Staff -> BOOLEAN] /\ structure \in [Staff -> Structures]
      BY DEF Init, NoStructure, NoLines, Structures, LineSums
    <3>2. run \in [RunIds -> [period : Periods \cup {"none"}, status : {"none", "draft", "finalized"}]]
      BY DEF Init, NoRun
    <3>3. \A k \in Requests : request[k].run \in RunIds \cup {"none"}
      BY <1>1, IdleIsRequest DEF RequestRows
    <3>4. NoSlip \in Slips
      BY DEF NoSlip, NoLines, Slips, LineSums
    <3>5. payslip \in [RunIds -> [Staff -> Slips]]
      BY <3>4 DEF Init
    <3>6. changes \in 0 .. MaxChanges /\ inFlight \subseteq Requests
      BY SalaryAssumption DEF Init
    <3> QED BY <3>1, <3>2, <3>3, <3>5, <3>6 DEF TypeOK, Structures, Slips, LineSums
  <2>2. request \in [Requests -> RequestRows]
    BY IdleIsRequest DEF Init
  <2> QED BY <2>1, <2>2 DEF TypesInv, Init
<1>4. CreationsInv /\ EditsInv
  BY <1>1, IdleIsRequest DEF CreationsInv, EditsInv, Creates
<1>5. RunsInv
  BY <1>2 DEF RunsInv
<1> QED BY <1>3, <1>4, <1>5 DEF IInv

-----------------------------------------------------------------------------
(* Requests that create no run.                                            *)

\* Request k becomes j; neither creates a run.
LEMMA RequestStep ==
    ASSUME IInv, NEW k \in Requests, NEW j \in RequestRows, request' = [request EXCEPT ![k] = j],
           ~Creates(k), j.pc \notin {"inserted", "snapshot"},
           j.pc = "salary" => j.staff \in Staff, j.pc = "create" => j.saw \in Periods,
           j.pc \in {"edit", "locked"} =>
              /\ j.run \in RunIds /\ j.staff \in Staff
              /\ (j.saw = "draft" \/ j.pc = "locked") => (run[j.run].status = "finalized" => k \in inFlight),
           UNCHANGED <<active, structure, run, payslip, changes, payableOnce, payableAlways, inFlight>>
    PROVE  IInv'
<1>1. /\ request' \in [Requests -> RequestRows]
      /\ \A i \in Requests : request'[i] = IF i = k THEN j ELSE request[i]
  BY DEF IInv, TypesInv
<1>2. TypesInv'
  BY <1>1 DEF IInv, TypesInv, TypeOK, RequestRows
<1>3. \A i \in Requests : Creates(i)' <=> Creates(i)
  BY <1>1 DEF Creates
<1>4. \A i \in Requests : Creates(i) => request'[i] = request[i]
  BY <1>1
<1>5. CreationsInv'
  BY <1>3, <1>4 DEF IInv, CreationsInv, Payable
<1>6. EditsInv'
  BY <1>1 DEF IInv, EditsInv
<1>7. RunsInv'
  BY <1>3, <1>4 DEF IInv, RunsInv
<1> QED BY <1>2, <1>5, <1>6, <1>7 DEF IInv

LEMMA FindStaffKeeps == ASSUME IInv, NEW k \in Requests, NEW s \in Staff, FindStaff(k, s) PROVE IInv'
<1> DEFINE j == [Idle EXCEPT !.pc = "salary", !.staff = s]
<1>1. j \in RequestRows /\ j.pc = "salary" /\ j.staff = s
  BY IdleIsRequest DEF RequestRows, Places
<1>2. request' = [request EXCEPT ![k] = j] /\ ~Creates(k)
      /\ UNCHANGED <<active, structure, run, payslip, changes, payableOnce, payableAlways, inFlight>>
  BY IdleIsRequest DEF FindStaff, tables, creation, Creates
<1> HIDE DEF j
<1> QED BY <1>1, <1>2, RequestStep

LEMMA CheckNoRunKeeps ==
    ASSUME IInv, NEW k \in Requests, NEW period \in Periods, CheckNoRun(k, period) PROVE IInv'
<1> DEFINE j == [Idle EXCEPT !.pc = "create", !.saw = period]
<1>1. j \in RequestRows /\ j.pc = "create" /\ j.saw = period
  BY IdleIsRequest DEF RequestRows, Places
<1>2. request' = [request EXCEPT ![k] = j] /\ ~Creates(k)
      /\ UNCHANGED <<active, structure, run, payslip, changes, payableOnce, payableAlways, inFlight>>
  BY IdleIsRequest DEF CheckNoRun, tables, creation, Creates
<1> HIDE DEF j
<1> QED BY <1>1, <1>2, RequestStep

LEMMA ReadPayslipKeeps ==
    ASSUME IInv, NEW k \in Requests, NEW r \in RunIds, NEW s \in Staff, ReadPayslip(k, r, s) PROVE IInv'
<1> DEFINE j == [Idle EXCEPT !.pc = "edit", !.run = r, !.staff = s, !.saw = run[r].status]
<1>1. run[r].status \in {"none", "draft", "finalized"}
  BY DEF IInv, TypesInv, TypeOK
<1>2. j \in RequestRows /\ j.pc = "edit" /\ j.run = r /\ j.staff = s /\ j.saw = run[r].status
  BY <1>1, IdleIsRequest DEF RequestRows, Places
<1>3. request' = [request EXCEPT ![k] = j] /\ ~Creates(k)
      /\ UNCHANGED <<active, structure, run, payslip, changes, payableOnce, payableAlways, inFlight>>
  BY IdleIsRequest DEF ReadPayslip, tables, creation, Creates
<1> HIDE DEF j
<1> QED BY <1>2, <1>3, RequestStep

LEMMA LockPayslipKeeps == ASSUME IInv, NEW k \in Requests, LockPayslip(k) PROVE IInv'
<1>1. request[k] \in RequestRows /\ request[k].pc = "edit"
  BY DEF LockPayslip, IInv, TypesInv
<1>2. ~Creates(k) /\ UNCHANGED <<active, structure, run, payslip, changes, payableOnce, payableAlways, inFlight>>
  BY <1>1 DEF LockPayslip, tables, creation, Creates
<1>3. CASE request[k].saw # "draft"
  <2>1. request' = [request EXCEPT ![k] = Finished]
    BY <1>3 DEF LockPayslip, IInv, TypesInv
  <2> QED BY <1>2, <2>1, IdleIsRequest, RequestStep
<1>4. CASE request[k].saw = "draft"
  <2> DEFINE j == [request[k] EXCEPT !.pc = "locked"]
  <2>1. j \in RequestRows /\ j.pc = "locked" /\ j.run = request[k].run /\ j.staff = request[k].staff
    BY <1>1 DEF RequestRows, Places
  <2>2. request' = [request EXCEPT ![k] = j]
    BY <1>4 DEF LockPayslip, IInv, TypesInv
  <2>3. /\ request[k].run \in RunIds /\ request[k].staff \in Staff
        /\ run[request[k].run].status = "finalized" => k \in inFlight
    BY <1>1, <1>4 DEF IInv, EditsInv
  <2> HIDE DEF j
  <2> QED BY <1>2, <2>1, <2>2, <2>3, RequestStep
<1> QED BY <1>3, <1>4

-----------------------------------------------------------------------------
(* Staff and salaries change, while runs may be being created.             *)

LEMMA PeopleStep ==
    ASSUME IInv, Watch, active' \in [Staff -> BOOLEAN], structure' \in [Staff -> Structures],
           changes' \in 0 .. MaxChanges, request' \in [Requests -> RequestRows],
           \A i \in Requests : request'[i] = request[i] \/ (~Creates(i) /\ request'[i] = Finished),
           UNCHANGED <<run, payslip, inFlight>>
    PROVE  IInv'
<1>1. \A i \in Requests : Creates(i)' <=> Creates(i)
  BY IdleIsRequest DEF Creates
<1>2. \A i \in Requests : Creates(i) => request'[i] = request[i]
  OBVIOUS
<1> DEFINE now == {s \in Staff : active'[s] /\ structure'[s].row}
<1>3. /\ payableOnce' = [r \in RunIds |-> IF Creating(r) = {} THEN payableOnce[r] ELSE payableOnce[r] \cup now]
      /\ payableAlways' = [r \in RunIds |-> IF Creating(r) = {} THEN payableAlways[r] ELSE payableAlways[r] \cap now]
      /\ now \subseteq Staff /\ \A s \in Staff : s \in now <=> Payable(s)'
  BY DEF Watch, Payable
<1> HIDE DEF now
<1>4. payableOnce' \in [RunIds -> SUBSET Staff] /\ payableAlways' \in [RunIds -> SUBSET Staff]
  BY <1>3 DEF IInv, TypesInv
<1>5. TypesInv'
  <2>1. \A i \in Requests : request'[i].run \in RunIds \cup {"none"}
    BY DEF RequestRows
  <2> QED BY <1>4, <2>1 DEF IInv, TypesInv, TypeOK, Structures, LineSums
<1>6. \A r \in RunIds : (\A i \in Requests : Creates(i) => request[i].run # r) =>
         payableOnce'[r] = payableOnce[r] /\ payableAlways'[r] = payableAlways[r]
  <2>1. \A r \in RunIds : (\A i \in Requests : Creates(i) => request[i].run # r) => Creating(r) = {}
    BY DEF Creates, Creating
  <2> QED BY <1>3, <2>1
<1>7. \A i \in Requests : Creates(i) /\ request[i].run \in RunIds =>
         /\ payableOnce'[request[i].run] = payableOnce[request[i].run] \cup now
         /\ payableAlways'[request[i].run] = payableAlways[request[i].run] \cap now
  <2>1. \A i \in Requests : Creates(i) => i \in Creating(request[i].run)
    BY DEF Creates, Creating
  <2> QED BY <1>3, <2>1
<1>8. CreationsInv'
  <2> SUFFICES ASSUME NEW i \in Requests, Creates(i)
               PROVE  /\ request[i].run \in RunIds /\ run[request[i].run].status = "draft"
                      /\ \A j \in Requests : Creates(j) /\ request[j].run = request[i].run => j = i
                      /\ request[i].pc = "inserted" => \A s \in Staff :
                            /\ s \in payableAlways'[request[i].run] => Payable(s)'
                            /\ Payable(s)' => s \in payableOnce'[request[i].run]
                      /\ request[i].pc = "snapshot" =>
                            /\ \E s \in Staff : s \in DOMAIN request[i].snapshot
                            /\ \A s \in Staff :
                                  /\ s \in payableAlways'[request[i].run] => s \in DOMAIN request[i].snapshot
                                  /\ s \in DOMAIN request[i].snapshot => s \in payableOnce'[request[i].run]
    BY <1>1, <1>2 DEF CreationsInv
  <2>1. /\ request[i].run \in RunIds /\ run[request[i].run].status = "draft"
        /\ \A j \in Requests : Creates(j) /\ request[j].run = request[i].run => j = i
    BY DEF IInv, CreationsInv
  <2>2. /\ payableOnce'[request[i].run] = payableOnce[request[i].run] \cup now
        /\ payableAlways'[request[i].run] = payableAlways[request[i].run] \cap now
    BY <1>7, <2>1
  <2>3. request[i].pc = "inserted" => \A s \in Staff :
            /\ s \in payableAlways'[request[i].run] => Payable(s)'
            /\ Payable(s)' => s \in payableOnce'[request[i].run]
    BY <1>3, <2>2
  <2>4. request[i].pc = "snapshot" =>
            /\ \E s \in Staff : s \in DOMAIN request[i].snapshot
            /\ \A s \in Staff :
                  /\ s \in payableAlways'[request[i].run] => s \in DOMAIN request[i].snapshot
                  /\ s \in DOMAIN request[i].snapshot => s \in payableOnce'[request[i].run]
    BY <2>2 DEF IInv, CreationsInv
  <2> QED BY <2>1, <2>3, <2>4
<1>9. EditsInv'
  BY IdleIsRequest DEF IInv, EditsInv
<1>10. RunsInv'
  BY <1>1, <1>2, <1>6 DEF IInv, RunsInv
<1> QED BY <1>5, <1>8, <1>9, <1>10 DEF IInv

LEMMA SetActiveKeeps == ASSUME IInv, NEW s \in Staff, SetActive(s) PROVE IInv'
<1>1. active' \in [Staff -> BOOLEAN] /\ structure' \in [Staff -> Structures]
      /\ request' \in [Requests -> RequestRows]
  BY DEF SetActive, IInv, TypesInv, TypeOK, Structures, LineSums
<1>2. changes' \in 0 .. MaxChanges
  BY SalaryAssumption DEF SetActive, IInv, TypesInv, TypeOK
<1> QED BY <1>1, <1>2, PeopleStep DEF SetActive

LEMMA UpsertSalaryStructureKeeps ==
    ASSUME IInv, NEW k \in Requests, NEW gross \in Gross, NEW lines \in Lines, UpsertSalaryStructure(k, gross, lines)
    PROVE  IInv'
<1> DEFINE now == [gross |-> gross, lines |-> lines, row |-> TRUE]
<1>1. request[k].pc = "salary" /\ request[k].staff \in Staff /\ ~Creates(k)
  BY DEF UpsertSalaryStructure, IInv, EditsInv, Creates
<1>2. now \in Structures
  BY SalaryAssumption DEF Structures, LineSums
<1>3. structure' = [structure EXCEPT ![request[k].staff] = now]
  BY DEF UpsertSalaryStructure
<1> HIDE DEF now
<1>4. structure' \in [Staff -> Structures] /\ active' \in [Staff -> BOOLEAN]
  BY <1>1, <1>2, <1>3 DEF UpsertSalaryStructure, IInv, TypesInv, TypeOK, Structures, LineSums
<1>5. /\ request' \in [Requests -> RequestRows]
      /\ \A i \in Requests : request'[i] = IF i = k THEN Finished ELSE request[i]
  BY IdleIsRequest DEF UpsertSalaryStructure, IInv, TypesInv
<1>6. changes' \in 0 .. MaxChanges
  BY SalaryAssumption DEF UpsertSalaryStructure, IInv, TypesInv, TypeOK
<1> QED BY <1>1, <1>4, <1>5, <1>6, PeopleStep DEF UpsertSalaryStructure

-----------------------------------------------------------------------------
(* The creation of a run.                                                  *)

LEMMA InsertRunKeeps == ASSUME IInv, NEW k \in Requests, InsertRun(k) PROVE IInv'
<1> DEFINE period == request[k].saw
<1>1. request[k] \in RequestRows /\ request[k].pc = "create" /\ ~Creates(k) /\ period \in Periods
  BY DEF InsertRun, IInv, TypesInv, EditsInv, Creates
<1>2. UNCHANGED <<active, structure, payslip, changes, inFlight>>
  BY DEF InsertRun
<1>3. CASE PeriodTaken(period)
  <2>1. request' = [request EXCEPT ![k] = Finished] /\ UNCHANGED <<run, payableOnce, payableAlways>>
    BY <1>3 DEF InsertRun, creation
  <2> QED BY <1>1, <1>2, <2>1, IdleIsRequest, RequestStep
<1>4. CASE ~PeriodTaken(period)
  <2> DEFINE new == [period |-> period, status |-> "draft"]
             now == {s \in Staff : Payable(s)}
  <2>1. PICK r \in RunIds :
            /\ run[r] = NoRun /\ run' = [run EXCEPT ![r] = new]
            /\ request' = [request EXCEPT ![k] = [request[k] EXCEPT !.pc = "inserted", !.run = r]]
            /\ payableOnce' = [payableOnce EXCEPT ![r] = now]
            /\ payableAlways' = [payableAlways EXCEPT ![r] = now]
    BY <1>4 DEF InsertRun, IInv, TypesInv
  <2>2. \A q \in RunIds : run[q].period # period
    BY <1>4 DEF PeriodTaken
  <2>3. /\ new \in [period : Periods \cup {"none"}, status : {"none", "draft", "finalized"}]
        /\ new.period = period /\ new.status = "draft"
    BY <1>1
  <2>4. now \subseteq Staff /\ \A s \in Staff : s \in now <=> Payable(s)
    OBVIOUS
  <2> DEFINE j == [request[k] EXCEPT !.pc = "inserted", !.run = r]
  <2>5. j \in RequestRows /\ j.pc = "inserted" /\ j.run = r
    BY <1>1 DEF RequestRows, Places
  <2>6. request' = [request EXCEPT ![k] = j]
    BY <2>1
  <2> HIDE DEF j, new, now, period
  <2>7. /\ request' \in [Requests -> RequestRows]
        /\ \A i \in Requests : request'[i] = IF i = k THEN j ELSE request[i]
    BY <2>5, <2>6 DEF IInv, TypesInv
  <2>8. /\ run' \in [RunIds -> [period : Periods \cup {"none"}, status : {"none", "draft", "finalized"}]]
        /\ \A q \in RunIds : run'[q] = IF q = r THEN new ELSE run[q]
    BY <2>1, <2>3 DEF IInv, TypesInv, TypeOK
  <2>9. /\ payableOnce' \in [RunIds -> SUBSET Staff] /\ payableAlways' \in [RunIds -> SUBSET Staff]
        /\ \A q \in RunIds : /\ payableOnce'[q] = IF q = r THEN now ELSE payableOnce[q]
                             /\ payableAlways'[q] = IF q = r THEN now ELSE payableAlways[q]
    BY <2>1, <2>4 DEF IInv, TypesInv
  <2>10. run[r].status = "none"
    BY <2>1 DEF NoRun
  <2>11. \A i \in Requests : Creates(i) => request[i].run \in RunIds /\ request[i].run # r
    BY <2>10 DEF IInv, CreationsInv
  <2>12. \A i \in Requests : Creates(i)' <=> (i = k \/ Creates(i))
    BY <2>5, <2>7 DEF Creates
  <2>13. TypesInv'
    <3>1. \A i \in Requests : request'[i].run \in RunIds \cup {"none"}
      BY <2>7 DEF RequestRows
    <3> QED BY <1>2, <2>7, <2>8, <2>9, <3>1 DEF IInv, TypesInv, TypeOK
  <2>14. \A s \in Staff : Payable(s)' <=> Payable(s)
    BY <1>2 DEF Payable
  <2>15. CreationsInv'
    <3> SUFFICES ASSUME NEW i \in Requests, Creates(i)'
                 PROVE  /\ request'[i].run \in RunIds /\ run'[request'[i].run].status = "draft"
                        /\ \A h \in Requests : Creates(h)' /\ request'[h].run = request'[i].run => h = i
                        /\ request'[i].pc = "inserted" => \A s \in Staff :
                              /\ s \in payableAlways'[request'[i].run] => Payable(s)'
                              /\ Payable(s)' => s \in payableOnce'[request'[i].run]
                        /\ request'[i].pc = "snapshot" =>
                              /\ \E s \in Staff : s \in DOMAIN request'[i].snapshot
                              /\ \A s \in Staff :
                                    /\ s \in payableAlways'[request'[i].run] => s \in DOMAIN request'[i].snapshot
                                    /\ s \in DOMAIN request'[i].snapshot => s \in payableOnce'[request'[i].run]
      BY DEF CreationsInv
    <3>1. CASE i = k
      BY <2>3, <2>4, <2>5, <2>7, <2>8, <2>9, <2>11, <2>12, <2>14, <3>1
    <3>2. CASE i # k
      <4>1. Creates(i) /\ request'[i] = request[i] /\ request[i].run \in RunIds /\ request[i].run # r
        BY <2>7, <2>11, <2>12, <3>2
      <4>2. \A h \in Requests : Creates(h)' /\ request'[h].run = request[i].run => h = i
        BY <1>1, <2>5, <2>7, <2>12, <4>1 DEF IInv, CreationsInv
      <4>3. /\ run'[request[i].run] = run[request[i].run]
            /\ payableOnce'[request[i].run] = payableOnce[request[i].run]
            /\ payableAlways'[request[i].run] = payableAlways[request[i].run]
        BY <2>8, <2>9, <4>1
      <4> QED BY <2>14, <4>1, <4>2, <4>3 DEF IInv, CreationsInv
    <3> QED BY <3>1, <3>2
  <2>16. EditsInv'
    BY <1>2, <2>3, <2>5, <2>7, <2>8 DEF IInv, EditsInv
  <2>17. RunsInv'
    <3> SUFFICES ASSUME NEW q \in RunIds
                 PROVE  /\ run'[q].status = "none" => run'[q] = NoRun
                        /\ run'[q].status # "none" => run'[q].period \in Periods
                        /\ \A x \in RunIds :
                              run'[x].status # "none" /\ run'[q].status # "none" /\ run'[x].period = run'[q].period => x = q
                        /\ (run'[q].status # "none" /\ \A i \in Requests : Creates(i)' => request'[i].run # q) =>
                              /\ \E s \in Staff : payslip[q][s].row
                              /\ \A s \in Staff :
                                    /\ s \in payableAlways'[q] => payslip[q][s].row
                                    /\ payslip[q][s].row => s \in payableOnce'[q]
      BY <1>2 DEF RunsInv
    <3>1. CASE q = r
      BY <1>1, <2>2, <2>3, <2>5, <2>7, <2>8, <2>12, <3>1 DEF period
    <3>2. CASE q # r
      <4>1. run'[q] = run[q] /\ payableOnce'[q] = payableOnce[q] /\ payableAlways'[q] = payableAlways[q]
        BY <2>8, <2>9, <3>2
      <4>2. \A x \in RunIds :
               run'[x].status # "none" /\ run[q].status # "none" /\ run'[x].period = run[q].period => x = q
        BY <2>2, <2>3, <2>8, <3>2 DEF IInv, RunsInv
      <4>3. (\A i \in Requests : Creates(i)' => request'[i].run # q)
               => \A i \in Requests : Creates(i) => request[i].run # q
        BY <1>1, <2>7, <2>12
      <4> QED BY <4>1, <4>2, <4>3 DEF IInv, RunsInv
    <3> QED BY <3>1, <3>2
  <2> QED BY <2>13, <2>15, <2>16, <2>17 DEF IInv
<1> QED BY <1>3, <1>4

\* The request that creates run r gives up, and takes the run with it.
LEMMA RollsBack ==
    ASSUME IInv, NEW k \in Requests, Creates(k), request' = [request EXCEPT ![k] = Finished],
           run' \in [RunIds -> [period : Periods \cup {"none"}, status : {"none", "draft", "finalized"}]],
           \A q \in RunIds : run'[q] = IF q = request[k].run THEN NoRun ELSE run[q],
           UNCHANGED <<active, structure, payslip, changes, payableOnce, payableAlways, inFlight>>
    PROVE  IInv'
<1>1. /\ request' \in [Requests -> RequestRows]
      /\ \A i \in Requests : request'[i] = IF i = k THEN Finished ELSE request[i]
  BY IdleIsRequest DEF IInv, TypesInv
<1>2. \A i \in Requests : Creates(i)' <=> (i # k /\ Creates(i))
  BY <1>1, IdleIsRequest DEF Creates
<1>3. \A i \in Requests : i # k /\ Creates(i) =>
         request[i].run \in RunIds /\ request[i].run # request[k].run /\ run'[request[i].run] = run[request[i].run]
  BY DEF IInv, CreationsInv
<1>4. \A q \in RunIds : run'[q].status # "none" => q # request[k].run /\ run'[q] = run[q]
  BY DEF NoRun
<1>5. TypesInv'
  <2>1. \A i \in Requests : request'[i].run \in RunIds \cup {"none"}
    BY <1>1 DEF RequestRows
  <2> QED BY <1>1, <2>1 DEF IInv, TypesInv, TypeOK
<1>6. CreationsInv'
  <2>1. \A s \in Staff : Payable(s)' <=> Payable(s)
    BY DEF Payable
  <2>2. \A i \in Requests : Creates(i)' => request'[i] = request[i]
    BY <1>1, <1>2
  <2> QED BY <1>2, <1>3, <2>1, <2>2 DEF IInv, CreationsInv
<1>7. EditsInv'
  BY <1>1, <1>4, IdleIsRequest DEF IInv, EditsInv
<1>8. RunsInv'
  <2> SUFFICES ASSUME NEW q \in RunIds
               PROVE  /\ run'[q].status = "none" => run'[q] = NoRun
                      /\ run'[q].status # "none" => run'[q].period \in Periods
                      /\ \A x \in RunIds :
                            run'[x].status # "none" /\ run'[q].status # "none" /\ run'[x].period = run'[q].period => x = q
                      /\ (run'[q].status # "none" /\ \A i \in Requests : Creates(i)' => request'[i].run # q) =>
                            /\ \E s \in Staff : payslip[q][s].row
                            /\ \A s \in Staff :
                                  /\ s \in payableAlways[q] => payslip[q][s].row
                                  /\ payslip[q][s].row => s \in payableOnce[q]
    BY DEF RunsInv
  <2>1. CASE run'[q].status = "none"
    BY <2>1 DEF IInv, RunsInv
  <2>2. CASE run'[q].status # "none"
    <3>1. q # request[k].run /\ run'[q] = run[q]
      BY <1>4, <2>2
    <3>2. \A x \in RunIds :
             run'[x].status # "none" /\ run'[q].status # "none" /\ run'[x].period = run'[q].period => x = q
      BY <1>4, <3>1 DEF IInv, RunsInv
    <3>3. (\A i \in Requests : Creates(i)' => request'[i].run # q)
             => \A i \in Requests : Creates(i) => request[i].run # q
      BY <1>1, <1>2, <3>1
    <3> QED BY <2>2, <3>1, <3>2, <3>3 DEF IInv, RunsInv
  <2> QED BY <2>1, <2>2
<1> QED BY <1>5, <1>6, <1>7, <1>8 DEF IInv

LEMMA SnapshotKeeps == ASSUME IInv, NEW k \in Requests, Snapshot(k) PROVE IInv'
<1>1. request[k] \in RequestRows /\ request[k].pc = "inserted" /\ Creates(k) /\ request[k].run \in RunIds
  BY DEF Snapshot, IInv, TypesInv, CreationsInv, Creates
<1>2. UNCHANGED <<active, structure, payslip, changes, payableOnce, payableAlways, inFlight>>
  BY DEF Snapshot, creation
<1>3. CASE Eligible = {}
  <2>1. request' = [request EXCEPT ![k] = Finished] /\ run' = [run EXCEPT ![request[k].run] = NoRun]
    BY <1>3 DEF Snapshot
  <2>2. NoRun \in [period : Periods \cup {"none"}, status : {"none", "draft", "finalized"}]
    BY DEF NoRun
  <2>3. /\ run' \in [RunIds -> [period : Periods \cup {"none"}, status : {"none", "draft", "finalized"}]]
        /\ \A q \in RunIds : run'[q] = IF q = request[k].run THEN NoRun ELSE run[q]
    BY <1>1, <2>1, <2>2 DEF IInv, TypesInv, TypeOK
  <2> QED BY <1>1, <1>2, <2>1, <2>3, RollsBack
<1>4. CASE Eligible # {}
  <2> DEFINE read == [s \in Eligible |-> structure[s]]
             j == [request[k] EXCEPT !.pc = "snapshot", !.snapshot = read]
  <2>1. Eligible \subseteq Staff /\ \A s \in Staff : s \in Eligible <=> Payable(s)
    BY DEF Eligible
  <2>2. read \in Snapshots /\ DOMAIN read = Eligible
    <3>1. \A s \in Staff : structure[s] \in Structures
      BY DEF IInv, TypesInv, TypeOK, Structures, LineSums
    <3>2. read \in [Eligible -> Structures]
      BY <2>1, <3>1
    <3> QED BY <2>1, <3>2 DEF Snapshots
  <2>3. request' = [request EXCEPT ![k] = j] /\ UNCHANGED run
    BY <1>4 DEF Snapshot, IInv, TypesInv
  <2> HIDE DEF read
  <2>4. j \in RequestRows /\ j.pc = "snapshot" /\ j.run = request[k].run /\ j.snapshot = read
    BY <1>1, <2>2 DEF RequestRows, Places
  <2> HIDE DEF j
  <2>5. /\ request' \in [Requests -> RequestRows]
        /\ \A i \in Requests : request'[i] = IF i = k THEN j ELSE request[i]
    BY <2>3, <2>4 DEF IInv, TypesInv
  <2>6. \A i \in Requests : Creates(i)' <=> Creates(i)
    BY <1>1, <2>4, <2>5 DEF Creates
  <2>7. \A i \in Requests : request'[i].run = request[i].run
    BY <2>4, <2>5
  <2>8. TypesInv'
    <3>1. \A i \in Requests : request'[i].run \in RunIds \cup {"none"}
      BY <2>5 DEF RequestRows
    <3> QED BY <1>2, <2>3, <2>5, <3>1 DEF IInv, TypesInv, TypeOK
  <2>9. CreationsInv'
    <3> SUFFICES ASSUME NEW i \in Requests, Creates(i)
                 PROVE  /\ request[i].run \in RunIds /\ run[request[i].run].status = "draft"
                        /\ \A h \in Requests : Creates(h) /\ request[h].run = request[i].run => h = i
                        /\ request'[i].pc = "inserted" => \A s \in Staff :
                              /\ s \in payableAlways[request[i].run] => Payable(s)
                              /\ Payable(s) => s \in payableOnce[request[i].run]
                        /\ request'[i].pc = "snapshot" =>
                              /\ \E s \in Staff : s \in DOMAIN request'[i].snapshot
                              /\ \A s \in Staff :
                                    /\ s \in payableAlways[request[i].run] => s \in DOMAIN request'[i].snapshot
                                    /\ s \in DOMAIN request'[i].snapshot => s \in payableOnce[request[i].run]
      BY <1>2, <2>3, <2>6, <2>7 DEF CreationsInv, Payable
    <3>1. /\ request[i].run \in RunIds /\ run[request[i].run].status = "draft"
          /\ \A h \in Requests : Creates(h) /\ request[h].run = request[i].run => h = i
      BY DEF IInv, CreationsInv
    <3>2. CASE i = k
      <4>1. \A s \in Staff : /\ s \in payableAlways[request[k].run] => Payable(s)
                             /\ Payable(s) => s \in payableOnce[request[k].run]
        BY <1>1 DEF IInv, CreationsInv
      <4>2. request'[i].pc = "snapshot" /\ DOMAIN request'[i].snapshot = Eligible
        BY <2>2, <2>4, <2>5, <3>2
      <4> QED BY <1>4, <2>1, <3>1, <3>2, <4>1, <4>2
    <3>3. CASE i # k
      BY <2>5, <3>1, <3>3 DEF IInv, CreationsInv
    <3> QED BY <3>2, <3>3
  <2>10. EditsInv'
    BY <1>2, <2>3, <2>4, <2>5 DEF IInv, EditsInv
  <2>11. RunsInv'
    BY <1>2, <2>3, <2>6, <2>7 DEF IInv, RunsInv
  <2> QED BY <2>8, <2>9, <2>10, <2>11 DEF IInv
<1> QED BY <1>3, <1>4

LEMMA CommitRunKeeps == ASSUME IInv, NEW k \in Requests, CommitRun(k) PROVE IInv'
<1> DEFINE r == request[k].run
           paid == DOMAIN request[k].snapshot
           slips == [s \in Staff |-> SlipFor(k, s)]
<1>1. request[k] \in RequestRows /\ request[k].pc = "snapshot" /\ Creates(k) /\ r \in RunIds /\ run[r].status = "draft"
  BY DEF CommitRun, IInv, TypesInv, CreationsInv, Creates
<1>2. UNCHANGED <<active, structure, run, changes, payableOnce, payableAlways, inFlight>>
  BY DEF CommitRun, creation
<1>3. slips \in [Staff -> Slips] /\ \A s \in Staff : slips[s].row <=> s \in paid
  <2>1. PICK S \in SUBSET Staff : request[k].snapshot \in [S -> Structures]
    BY <1>1 DEF RequestRows, Snapshots
  <2>2. ASSUME NEW s \in Staff PROVE SlipFor(k, s) \in Slips /\ (SlipFor(k, s).row <=> s \in paid)
    <3>1. CASE s \notin paid
      BY <3>1 DEF SlipFor, NoSlip, NoLines, Slips, LineSums
    <3>2. CASE s \in paid
      <4>1. request[k].snapshot[s] \in Structures
        BY <2>1, <3>2
      <4> DEFINE salary == request[k].snapshot[s]
      <4>2. SlipFor(k, s) = [gross |-> salary.gross, lines |-> salary.lines,
                             net |-> Net(salary.gross, salary.lines), row |-> TRUE]
        BY <3>2 DEF SlipFor
      <4>3. salary.gross \in Nat /\ salary.lines \in LineSums
        BY <4>1 DEF Structures
      <4> HIDE DEF salary
      <4>4. Net(salary.gross, salary.lines) \in Int
        BY <4>3 DEF Net, LineSums
      <4> QED BY <3>2, <4>2, <4>3, <4>4 DEF Slips
    <3> QED BY <3>1, <3>2
  <2> QED BY <2>2
<1>4. payslip' = [payslip EXCEPT ![r] = slips] /\ request' = [request EXCEPT ![k] = Finished]
  BY DEF CommitRun
<1>5. /\ \E s \in Staff : s \in paid
      /\ \A s \in Staff : (s \in payableAlways[r] => s \in paid) /\ (s \in paid => s \in payableOnce[r])
  BY <1>1 DEF IInv, CreationsInv
<1>6. request[k].run = r
  OBVIOUS
<1> HIDE DEF r, paid, slips
<1>7. /\ request' \in [Requests -> RequestRows]
      /\ \A i \in Requests : request'[i] = IF i = k THEN Finished ELSE request[i]
  BY <1>4, IdleIsRequest DEF IInv, TypesInv
<1>8. payslip' \in [RunIds -> [Staff -> Slips]] /\ \A q \in RunIds : payslip'[q] = IF q = r THEN slips ELSE payslip[q]
  BY <1>1, <1>3, <1>4 DEF IInv, TypesInv, TypeOK, Slips, LineSums
<1>9. \A i \in Requests : Creates(i)' <=> (i # k /\ Creates(i))
  BY <1>7, IdleIsRequest DEF Creates
<1>10. TypesInv'
  <2>1. \A i \in Requests : request'[i].run \in RunIds \cup {"none"}
    BY <1>7 DEF RequestRows
  <2> QED BY <1>2, <1>7, <1>8, <2>1 DEF IInv, TypesInv, TypeOK, Slips, LineSums
<1>11. CreationsInv'
  <2>1. \A s \in Staff : Payable(s)' <=> Payable(s)
    BY <1>2 DEF Payable
  <2>2. \A i \in Requests : Creates(i)' => request'[i] = request[i]
    BY <1>7, <1>9
  <2> QED BY <1>2, <1>9, <2>1, <2>2 DEF IInv, CreationsInv
<1>12. EditsInv'
  BY <1>2, <1>7, IdleIsRequest DEF IInv, EditsInv
<1>13. RunsInv'
  <2> SUFFICES ASSUME NEW q \in RunIds, run[q].status # "none", \A i \in Requests : Creates(i)' => request'[i].run # q
               PROVE  /\ \E s \in Staff : payslip'[q][s].row
                      /\ \A s \in Staff :
                            /\ s \in payableAlways[q] => payslip'[q][s].row
                            /\ payslip'[q][s].row => s \in payableOnce[q]
    BY <1>2 DEF IInv, RunsInv
  <2>1. CASE q = r
    BY <1>3, <1>5, <1>8, <2>1
  <2>2. CASE q # r
    <3>1. \A i \in Requests : Creates(i) => request[i].run # q
      BY <1>6, <1>7, <1>9, <2>2
    <3> QED BY <1>8, <2>2, <3>1 DEF IInv, RunsInv
  <2> QED BY <2>1, <2>2
<1> QED BY <1>10, <1>11, <1>12, <1>13 DEF IInv

LEMMA DiesKeeps == ASSUME IInv, NEW k \in Requests, Dies(k) PROVE IInv'
<1>1. /\ request' = [request EXCEPT ![k] = Finished]
      /\ run' = [q \in RunIds |-> IF k \in Creating(q) THEN NoRun ELSE run[q]]
      /\ UNCHANGED <<active, structure, payslip, changes, payableOnce, payableAlways, inFlight>>
  BY DEF Dies, creation
<1>2. \A q \in RunIds : k \in Creating(q) <=> Creates(k) /\ request[k].run = q
  BY DEF Creating, Creates
<1>3. CASE Creates(k)
  <2>1. NoRun \in [period : Periods \cup {"none"}, status : {"none", "draft", "finalized"}]
    BY DEF NoRun
  <2>2. /\ run' \in [RunIds -> [period : Periods \cup {"none"}, status : {"none", "draft", "finalized"}]]
        /\ \A q \in RunIds : run'[q] = IF q = request[k].run THEN NoRun ELSE run[q]
    BY <1>1, <1>2, <1>3, <2>1 DEF IInv, TypesInv, TypeOK
  <2> QED BY <1>1, <1>3, <2>2, RollsBack
<1>4. CASE ~Creates(k)
  <2>1. UNCHANGED run
    BY <1>1, <1>2, <1>4 DEF IInv, TypesInv, TypeOK
  <2> QED BY <1>1, <1>4, <2>1, IdleIsRequest, RequestStep
<1> QED BY <1>3, <1>4

-----------------------------------------------------------------------------
(* Edits and finalization.                                                 *)

LEMMA UpdatePayslipKeeps == ASSUME IInv, NEW k \in Requests, NEW lines \in Lines, UpdatePayslip(k, lines) PROVE IInv'
<1> DEFINE r == request[k].run
           s == request[k].staff
           now == [payslip[r][s] EXCEPT !.lines = lines, !.net = Net(payslip[r][s].gross, lines)]
<1>1. request[k].pc = "locked" /\ ~Creates(k) /\ r \in RunIds /\ s \in Staff
  BY DEF UpdatePayslip, IInv, EditsInv, Creates
<1>2. UNCHANGED <<active, structure, run, changes, payableOnce, payableAlways, inFlight>>
  BY DEF UpdatePayslip, creation
<1>3. payslip \in [RunIds -> [Staff -> Slips]] /\ payslip[r][s] \in Slips /\ lines \in LineSums
  BY <1>1, SalaryAssumption DEF IInv, TypesInv, TypeOK, Slips, LineSums
<1>4. Net(payslip[r][s].gross, lines) \in Int
  BY <1>3 DEF Net, Slips, LineSums
<1>5. now \in Slips /\ now.row = payslip[r][s].row
  BY <1>3, <1>4 DEF Slips
<1>6. /\ \A q \in RunIds : payslip'[q] = IF q = r THEN [payslip[q] EXCEPT ![s] = now] ELSE payslip[q]
      /\ DOMAIN payslip' = RunIds
  BY <1>1, <1>3 DEF UpdatePayslip, Slips
<1> HIDE DEF now
<1>7. /\ payslip' \in [RunIds -> [Staff -> Slips]]
      /\ \A q \in RunIds, x \in Staff : payslip'[q][x].row = payslip[q][x].row
  <2>1. \A q \in RunIds : payslip'[q] \in [Staff -> Slips]
    BY <1>1, <1>3, <1>5, <1>6
  <2>2. payslip' = [q \in RunIds |-> IF q = r THEN [payslip[q] EXCEPT ![s] = now] ELSE payslip[q]]
    BY <1>1, <1>3 DEF UpdatePayslip, now, Slips
  <2>3. payslip' \in [RunIds -> [Staff -> Slips]]
    BY <2>1, <2>2
  <2>4. ASSUME NEW q \in RunIds, NEW x \in Staff PROVE payslip'[q][x].row = payslip[q][x].row
    <3>1. CASE q = r /\ x = s
      BY <1>1, <1>3, <1>5, <1>6, <3>1
    <3>2. CASE ~(q = r /\ x = s)
      BY <1>1, <1>3, <1>6, <3>2
    <3> QED BY <3>1, <3>2
  <2> QED BY <2>3, <2>4
<1>8. /\ request' \in [Requests -> RequestRows]
      /\ \A i \in Requests : request'[i] = IF i = k THEN Finished ELSE request[i]
  BY IdleIsRequest DEF UpdatePayslip, IInv, TypesInv
<1> HIDE DEF r, s
<1>9. \A i \in Requests : Creates(i)' <=> Creates(i)
  BY <1>1, <1>8, IdleIsRequest DEF Creates
<1>10. \A i \in Requests : Creates(i) => request'[i] = request[i]
  BY <1>1, <1>8
<1>11. TypesInv'
  <2>1. \A i \in Requests : request'[i].run \in RunIds \cup {"none"}
    BY <1>8 DEF RequestRows
  <2> QED BY <1>2, <1>7, <1>8, <2>1 DEF IInv, TypesInv, TypeOK, Slips, LineSums
<1>12. CreationsInv'
  BY <1>2, <1>9, <1>10 DEF IInv, CreationsInv, Payable
<1>13. EditsInv'
  BY <1>2, <1>8, IdleIsRequest DEF IInv, EditsInv
<1>14. RunsInv'
  <2>1. \A q \in RunIds : (\A i \in Requests : Creates(i)' => request'[i].run # q)
           => \A i \in Requests : Creates(i) => request[i].run # q
    BY <1>9, <1>10
  <2>2. \A q \in RunIds :
           (run[q].status # "none" /\ \A i \in Requests : Creates(i) => request[i].run # q) =>
              /\ \E x \in Staff : payslip'[q][x].row
              /\ \A x \in Staff :
                    /\ x \in payableAlways[q] => payslip'[q][x].row
                    /\ payslip'[q][x].row => x \in payableOnce[q]
    BY <1>7 DEF IInv, RunsInv
  <2> QED BY <1>2, <2>1, <2>2 DEF IInv, RunsInv
<1> QED BY <1>11, <1>12, <1>13, <1>14 DEF IInv

LEMMA FinalizeRunKeeps == ASSUME IInv, NEW r \in RunIds, FinalizeRun(r) PROVE IInv'
<1> DEFINE now == [run[r] EXCEPT !.status = "finalized"]
<1>1. UNCHANGED <<active, structure, payslip, request, changes, payableOnce, payableAlways>>
  BY DEF FinalizeRun, creation
<1>2. run[r].status # "none" /\ \A i \in Requests : Creates(i) => request[i].run # r
  BY CommittedRuns DEF FinalizeRun
<1>3. run[r] \in [period : Periods \cup {"none"}, status : {"none", "draft", "finalized"}]
  BY DEF IInv, TypesInv, TypeOK
<1>4. /\ now \in [period : Periods \cup {"none"}, status : {"none", "draft", "finalized"}]
      /\ now.period = run[r].period /\ now.status = "finalized"
  BY <1>3
<1>5. run' = [run EXCEPT ![r] = now]
  BY DEF FinalizeRun, IInv, TypesInv, TypeOK
<1> HIDE DEF now
<1>6. /\ run' \in [RunIds -> [period : Periods \cup {"none"}, status : {"none", "draft", "finalized"}]]
      /\ \A q \in RunIds : run'[q] = IF q = r THEN now ELSE run[q]
  BY <1>4, <1>5 DEF IInv, TypesInv, TypeOK
<1>7. /\ inFlight' \subseteq Requests /\ inFlight \subseteq inFlight'
      /\ \A i \in Requests : request[i].run = r /\ request[i].pc \in {"edit", "locked"} => i \in inFlight'
  BY DEF FinalizeRun, IInv, TypesInv, TypeOK
<1>8. TypesInv'
  BY <1>1, <1>6, <1>7 DEF IInv, TypesInv, TypeOK
<1>9. CreationsInv'
  BY <1>1, <1>2, <1>6 DEF IInv, CreationsInv, Creates, Payable
<1>10. EditsInv'
  BY <1>1, <1>6, <1>7 DEF IInv, EditsInv
<1>11. RunsInv'
  <2>1. \A q \in RunIds : /\ run'[q].status = "none" <=> run[q].status = "none"
                          /\ run'[q].period = run[q].period
                          /\ run'[q].status = "none" => run'[q] = run[q]
    BY <1>2, <1>4, <1>6
  <2> QED BY <1>1, <2>1 DEF IInv, RunsInv, Creates
<1> QED BY <1>8, <1>9, <1>10, <1>11 DEF IInv

-----------------------------------------------------------------------------
LEMMA StepKeepsIInv == ASSUME IInv, [Next]_vars PROVE IInv'
<1>1. CASE Next
  <2>1. ASSUME NEW k \in Requests,
               \/ \E s \in Staff : FindStaff(k, s)
               \/ \E gross \in Gross, lines \in Lines : UpsertSalaryStructure(k, gross, lines)
               \/ \E period \in Periods : CheckNoRun(k, period)
               \/ InsertRun(k)
               \/ Snapshot(k)
               \/ CommitRun(k)
               \/ \E r \in RunIds, s \in Staff : ReadPayslip(k, r, s)
               \/ LockPayslip(k)
               \/ \E lines \in Lines : UpdatePayslip(k, lines)
               \/ Dies(k)
        PROVE  IInv'
    BY <2>1, FindStaffKeeps, UpsertSalaryStructureKeeps, CheckNoRunKeeps, InsertRunKeeps, SnapshotKeeps,
       CommitRunKeeps, ReadPayslipKeeps, LockPayslipKeeps, UpdatePayslipKeeps, DiesKeeps
  <2> QED BY <1>1, <2>1, SetActiveKeeps, FinalizeRunKeeps DEF Next
<1>2. CASE UNCHANGED vars
  <2>1. UNCHANGED <<active, structure, run, payslip, request, changes, payableOnce, payableAlways, inFlight>>
    BY <1>2 DEF vars, tables, creation
  <2>2. TypesInv' /\ EditsInv'
    BY <2>1 DEF IInv, TypesInv, TypeOK, EditsInv
  <2>3. CreationsInv' /\ RunsInv'
    BY <2>1 DEF IInv, CreationsInv, RunsInv, Creates, Payable
  <2> QED BY <2>2, <2>3 DEF IInv
<1> QED BY <1>1, <1>2

LEMMA IInvHolds == Spec => []IInv
  BY InitIInv, StepKeepsIInv, PTL DEF Spec

\* Staff, salaries, runs and payslips keep their types.
THEOREM TypeCorrect == Spec => []TypeOK
<1>1. IInv => TypeOK
  BY DEF IInv, TypesInv
<1> QED BY <1>1, IInvHolds, PTL

\* A month has one run, which pays somebody: everybody who was to be paid all
\* the while it was created, and nobody who never was (create_run).
THEOREM Snapshotted == Spec => []RunsAreSnapshots
<1>1. ASSUME IInv, NEW r \in RunIds, Committed(r)
      PROVE  LET paid == {s \in Staff : payslip[r][s].row}
             IN /\ \A q \in RunIds : (Committed(q) /\ run[q].period = run[r].period) => q = r
                /\ paid # {}
                /\ payableAlways[r] \subseteq paid
                /\ paid \subseteq payableOnce[r]
  <2>1. run[r].status # "none" /\ \A k \in Requests : Creates(k) => request[k].run # r
    BY <1>1, CommittedRuns
  <2>2. \A q \in RunIds : (Committed(q) /\ run[q].period = run[r].period) => q = r
    BY <1>1, <2>1, CommittedRuns DEF IInv, RunsInv
  <2>3. payableAlways[r] \subseteq Staff
    BY <1>1 DEF IInv, TypesInv
  <2> QED BY <1>1, <2>1, <2>2, <2>3 DEF IInv, RunsInv
<1>2. IInv => RunsAreSnapshots
  BY <1>1 DEF RunsAreSnapshots
<1> QED BY <1>2, IInvHolds, PTL

\* A payslip of a finalized run changes only by an edit that was under way when
\* the run was finalized (update_payslip, finalize_run).
THEOREM LateEdits == Spec => LateEditsWereInFlight
<1> DEFINE Late ==
        \A r \in RunIds, s \in Staff :
            (run[r].status = "finalized" /\ payslip'[r][s] # payslip[r][s])
                => \E k \in inFlight : /\ request[k].run = r /\ request[k].staff = s
                                       /\ request[k] # Finished /\ request'[k] = Finished
<1>1. IInv /\ [Next]_vars => [Late]_vars
  <2> SUFFICES ASSUME IInv, Next, NEW r \in RunIds, NEW s \in Staff,
                      run[r].status = "finalized", payslip'[r][s] # payslip[r][s]
               PROVE  \E k \in inFlight : /\ request[k].run = r /\ request[k].staff = s
                                          /\ request[k] # Finished /\ request'[k] = Finished
    OBVIOUS
  <2>1. PICK k \in Requests : CommitRun(k) \/ \E lines \in Lines : UpdatePayslip(k, lines)
    BY DEF Next, SetActive, FinalizeRun, FindStaff, UpsertSalaryStructure, CheckNoRun, InsertRun, Snapshot,
           ReadPayslip, LockPayslip, Dies, tables
  <2>2. ~CommitRun(k)
    <3> SUFFICES ASSUME CommitRun(k) PROVE FALSE
      OBVIOUS
    <3>1. request[k].run \in RunIds /\ run[request[k].run].status = "draft"
      BY DEF CommitRun, IInv, CreationsInv, Creates
    <3>2. payslip'[r] = payslip[r]
      BY <3>1 DEF CommitRun, IInv, TypesInv, TypeOK
    <3> QED BY <3>2
  <2>3. PICK lines \in Lines : UpdatePayslip(k, lines)
    BY <2>1, <2>2
  <2>4. /\ request[k].pc = "locked" /\ request[k].run \in RunIds /\ request[k].staff \in Staff
        /\ run[request[k].run].status = "finalized" => k \in inFlight
    BY <2>3 DEF UpdatePayslip, IInv, EditsInv
  <2>5. request[k].run = r /\ request[k].staff = s
    BY <2>3, <2>4 DEF UpdatePayslip, IInv, TypesInv, TypeOK
  <2>6. request[k] # Finished /\ request'[k] = Finished
    BY <2>3, <2>4, IdleIsRequest DEF UpdatePayslip, IInv, TypesInv
  <2> QED BY <2>4, <2>5, <2>6
<1> QED BY <1>1, IInvHolds, PTL DEF Spec, LateEditsWereInFlight
=============================================================================
