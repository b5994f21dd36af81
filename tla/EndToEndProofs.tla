--------------------------- MODULE EndToEndProofs ---------------------------
(***************************************************************************)
(* For any tasks, budgets and plans, and any number of faults: the         *)
(* inductive invariant IInv of EndToEnd, and from it that a trajectory,    *)
(* once written, is kept.                                                  *)
(*                                                                         *)
(* The argument: a run writes over its slot only where no trajectory was   *)
(* (WritesMissing), so whatever was read from one, a record, a report or a *)
(* rule, stays true of it.                                                 *)
(***************************************************************************)
EXTENDS EndToEnd, TLAPS

(* Files of the three forms are told apart.                                *)
LEMMA Forms ==
  /\ ~ Whole(Missing) /\ ~ Whole(Torn)
  /\ \A t \in Finished : Whole(t) /\ t # Missing /\ t.stop # "error"
BY DEF Whole, Missing, Torn, Finished, Trajectory

(* Each step leaves the whole files alone: only writing changes the disk,  *)
(* and it writes to a slot without one.                                    *)
LEMMA KeepsWhole ==
  ASSUME IInv, [Next]_vars
  PROVE  \A s \in Slots : Whole(disk[s]) => disk'[s] = disk[s]
<1> USE DEF IInv, TypeOK, WritesMissing
<1>1. CASE WriteBegins
  BY <1>1, Forms DEF WriteBegins
<1>2. CASE WriteEnds
  BY <1>2, Forms DEF WriteEnds
<1>3. CASE UNCHANGED disk
  BY <1>3
<1> QED
  BY <1>1, <1>2, <1>3 DEF Next, Evaluate, Start, Reuse, Run, RunErrors,
     Aborts, Report, Refine, vars

(* The records are those of tasks and tokens.                              *)
LEMMA RecordType ==
  \A t \in Trajectory : Record(t) \in [success : BOOLEAN, tokens : Tokens]
BY DEF Record, Trajectory

LEMMA PlanType ==
  ASSUME NEW p \in Plans \union {<<>>}
  PROVE  p \in Seq(Slots)
<1>1. CASE p \in Plans
  BY <1>1, EndToEndAssumption
<1>2. CASE p = <<>>
  BY <1>2
<1> QED
  BY <1>1, <1>2

(* The initial states.                                                     *)
LEMMA InitIInv == Init => IInv
<1> SUFFICES ASSUME Init PROVE IInv
  OBVIOUS
<1>1. TypeOK
  BY EndToEndAssumption DEF Init, TypeOK, Missing, Finished, Trajectory
<1>2. WritesMissing /\ RecordsFromFiles
  BY DEF Init, WritesMissing, RecordsFromFiles
<1>3. ReportFromFiles /\ LearnsFromFinishedRuns
  BY DEF Init, ReportFromFiles, LearnsFromFinishedRuns
<1> QED
  BY <1>1, <1>2, <1>3 DEF IInv

(* Types: one more record is one more slot done.                           *)
LEMMA TypeStep ==
  ASSUME IInv, Next
  PROVE  TypeOK'
<1> USE DEF IInv, TypeOK
<1>0. /\ MaxFaults \in Nat
      /\ plan \in Seq(Slots)
      /\ Missing \in {Missing, Torn} \union Finished
      /\ Finished \subseteq Trajectory /\ Errored \subseteq Trajectory
  BY EndToEndAssumption, PlanType DEF Finished, Errored
<1>1. ASSUME NEW p \in Plans, Start(p)
      PROVE  TypeOK'
  BY <1>0, <1>1, PlanType DEF Start
<1>2. CASE Reuse
  <2>1. Slot \in Slots /\ Len(recs) < Len(plan)
    BY <1>0, <1>2 DEF Reuse, Slot, SlotsLeft
  <2>2. Record(disk[Slot]) \in [success : BOOLEAN, tokens : Tokens]
    BY <1>0, <1>2, <2>1, RecordType, Forms DEF Reuse
  <2> QED
    BY <1>0, <1>2, <2>1, <2>2 DEF Reuse
<1>3. CASE Run
  BY <1>0, <1>3, Forms DEF Run
<1>4. CASE RunErrors
  <2>1. PICK t \in Errored : recs' = Append(recs, Record(t))
    BY <1>4 DEF RunErrors
  <2>2. Record(t) \in [success : BOOLEAN, tokens : Tokens]
    BY <1>0, <2>1, RecordType
  <2>3. /\ recs' \in Seq([success : BOOLEAN, tokens : Tokens])
        /\ Len(recs') = Len(recs) + 1 /\ Len(recs) < Len(plan)
        /\ Len(recs) \in Nat
    BY <1>4, <2>1, <2>2 DEF RunErrors, SlotsLeft
  <2>4. failed' \subseteq 1 .. Len(recs')
    <3>1. failed \subseteq 1 .. Len(recs) /\ failed' = failed \union {Len(recs) + 1}
      BY <1>4 DEF RunErrors
    <3>2. ASSUME NEW n \in Nat, NEW S \in SUBSET (1 .. n)
          PROVE  S \union {n + 1} \subseteq 1 .. n + 1
      OBVIOUS
    <3> QED
      BY <2>3, <3>1, <3>2
  <2> QED
    BY <1>0, <1>4, <2>3, <2>4 DEF RunErrors
<1>5. CASE WriteBegins
  BY <1>0, <1>5 DEF WriteBegins
<1>6. CASE WriteEnds
  <2>1. Record(current) \in [success : BOOLEAN, tokens : Tokens]
    BY <1>0, <1>6, RecordType DEF WriteEnds
  <2>2. Len(recs) < Len(plan)
    BY <1>6 DEF WriteEnds, WritesMissing, SlotsLeft
  <2>3. /\ recs' \in Seq([success : BOOLEAN, tokens : Tokens])
        /\ Len(recs') = Len(recs) + 1 /\ Len(recs') <= Len(plan)
    BY <1>0, <1>6, <2>1, <2>2 DEF WriteEnds
  <2>4. failed' \subseteq 1 .. Len(recs')
    BY <1>6, <2>3 DEF WriteEnds
  <2> QED
    BY <1>0, <1>6, <2>3, <2>4 DEF WriteEnds
<1>7. CASE Report
  BY <1>0, <1>7 DEF Report
<1>8. CASE Aborts
  BY <1>0, <1>8 DEF Aborts
<1>9. CASE Refine
  BY <1>0, <1>9 DEF Refine, Pairs
<1> QED
  BY <1>1, <1>2, <1>3, <1>4, <1>5, <1>6, <1>7, <1>8, <1>9 DEF Next, Evaluate

(* A run is started only for a slot without a trajectory, and the slot and *)
(* the disk stay until it is written.                                      *)
LEMMA WritesMissingStep ==
  ASSUME IInv, Next
  PROVE  WritesMissing'
<1> USE DEF IInv, WritesMissing, Slot, SlotsLeft
<1>1. CASE Run
  BY <1>1 DEF Run
<1>2. CASE WriteBegins
  <2>1. Slot \in Slots
    BY <1>2, PlanType DEF WriteBegins, TypeOK
  <2> QED
    BY <1>2, <2>1, Forms DEF WriteBegins, TypeOK
<1>3. CASE Refine
  BY <1>3 DEF Refine
<1>4. CASE pc' \in {"run", "idle"}
  BY <1>4
<1> QED
  BY <1>1, <1>2, <1>3, <1>4 DEF Next, Evaluate, Start, Reuse, RunErrors,
     WriteEnds, Report, Aborts, TypeOK

(* A new record without error is that of the slot's file, as it was found  *)
(* or as it was just written.                                              *)
LEMMA RecordsStep ==
  ASSUME IInv, Next
  PROVE  RecordsFromFiles'
<1> USE DEF IInv, RecordsFromFiles
<1>0. /\ plan \in Seq(Slots) /\ recs \in Seq([success : BOOLEAN, tokens : Tokens])
      /\ Len(recs) <= Len(plan)
      /\ \A s \in Slots : Whole(disk[s]) => disk'[s] = disk[s]
  BY PlanType, KeepsWhole DEF TypeOK
<1>1. ASSUME plan' = plan, recs' = recs, failed' = failed
      PROVE  RecordsFromFiles'
  BY <1>0, <1>1
<1>2. CASE recs' = <<>>
  BY <1>2
<1>3. CASE Reuse
  BY <1>0, <1>3 DEF Reuse, Slot, SlotsLeft
<1>4. CASE RunErrors
  BY <1>0, <1>4 DEF RunErrors, SlotsLeft
<1>5. CASE WriteEnds
  <2>1. Slot \in Slots /\ Slot = plan[Len(recs) + 1] /\ Len(recs) < Len(plan)
    BY <1>0, <1>5 DEF WriteEnds, WritesMissing, Slot, SlotsLeft
  <2>2. disk'[Slot] = current /\ Whole(current)
    BY <1>5, <2>1, Forms DEF WriteEnds, TypeOK
  <2> QED
    BY <1>0, <1>5, <2>1, <2>2 DEF WriteEnds
<1> QED
  BY <1>1, <1>2, <1>3, <1>4, <1>5 DEF Next, Evaluate, Start, Run, WriteBegins,
     Report, Aborts, Refine

(* A report without errors is made of records of the files.                *)
LEMMA ReportStep ==
  ASSUME IInv, Next
  PROVE  ReportFromFiles'
<1> USE DEF IInv, ReportFromFiles
<1>1. \A s \in Slots : Whole(disk[s]) => disk'[s] = disk[s]
  BY KeepsWhole
<1>2. CASE Report
  <2>1. /\ plan \in Seq(Slots) /\ recs \in Seq([success : BOOLEAN, tokens : Tokens])
        /\ DOMAIN recs = DOMAIN plan /\ disk' = disk
        /\ report' = [plan |-> plan, errors |-> failed,
                      result |-> ReportOf(plan, recs)]
    BY <1>2, PlanType DEF Report, TypeOK, SlotsLeft
  <2>2. SUFFICES ASSUME failed = {}
                 PROVE  ReportFromFiles'
    BY <2>1
  <2>3. \A i \in DOMAIN plan : Whole(disk[plan[i]]) /\ recs[i] = Record(disk[plan[i]])
    BY <2>1, <2>2 DEF RecordsFromFiles
  <2>4. recs = [i \in DOMAIN plan |-> Record(disk[plan[i]])]
    BY <2>1, <2>3
  <2> QED
    BY <2>1, <2>3, <2>4
<1>3. CASE UNCHANGED report
  <2> SUFFICES ASSUME report # <<>>, report.errors = {}
               PROVE  ReportFromFiles'
    BY <1>3
  <2>1. \A i \in DOMAIN report.plan : report.plan[i] \in Slots
    BY <1>3, PlanType DEF TypeOK
  <2>2. \A i \in DOMAIN report.plan :
          Whole(disk'[report.plan[i]]) /\ disk'[report.plan[i]] = disk[report.plan[i]]
    BY <1>1, <1>3, <2>1
  <2>3. [i \in DOMAIN report.plan |-> Record(disk'[report.plan[i]])]
          = [i \in DOMAIN report.plan |-> Record(disk[report.plan[i]])]
    BY <2>2
  <2> QED
    BY <1>3, <2>2, <2>3
<1> QED
  BY <1>2, <1>3 DEF Next, Evaluate, Start, Reuse, Run, RunErrors, WriteBegins,
     WriteEnds, Aborts, Refine

(* A new rule is of two files that are whole and so finished.              *)
LEMMA RulesStep ==
  ASSUME IInv, Next
  PROVE  LearnsFromFinishedRuns'
<1> USE DEF IInv, LearnsFromFinishedRuns
<1>1. \A s \in Slots : Whole(disk[s]) => disk'[s] = disk[s]
  BY KeepsWhole
<1>2. CASE Refine
  <2>1. \A s \in Slots : Whole(disk[s]) => disk[s].stop # "error"
    BY Forms DEF TypeOK
  <2> QED
    BY <1>2, <2>1 DEF Refine, Pairs, Contrast
<1>3. CASE UNCHANGED rules
  BY <1>1, <1>3 DEF TypeOK
<1> QED
  BY <1>2, <1>3 DEF Next, Evaluate, Start, Reuse, Run, RunErrors, WriteBegins,
     WriteEnds, Aborts, Report

(* IInv is inductive.                                                      *)
LEMMA StepIInv == IInv /\ [Next]_vars => IInv'
<1> SUFFICES ASSUME IInv, [Next]_vars PROVE IInv'
  OBVIOUS
<1>1. CASE Next
  BY <1>1, TypeStep, WritesMissingStep, RecordsStep, ReportStep, RulesStep DEF IInv
<1>2. CASE UNCHANGED vars
  BY <1>2 DEF IInv, TypeOK, WritesMissing, RecordsFromFiles, ReportFromFiles,
     LearnsFromFinishedRuns, Slot, SlotsLeft, vars
<1> QED
  BY <1>1, <1>2

(* In every reachable state the files, the records, the last report and    *)
(* the learned rules agree.                                                *)
THEOREM EvaluationInvariant == Spec => []IInv
BY InitIInv, StepIInv, PTL DEF Spec

(* Every variable keeps its type, for any plans and any number of faults.  *)
THEOREM TypeCorrect == Spec => []TypeOK
<1>1. IInv => TypeOK
  BY DEF IInv
<1> QED
  BY <1>1, EvaluationInvariant, PTL

(* The last report without errors is and stays what the files say          *)
(* (runOrLoad, RenderMarkdownStage3).                                      *)
THEOREM ReportTheorem == Spec => []ReportFromFiles
<1>1. IInv => ReportFromFiles
  BY DEF IInv
<1> QED
  BY <1>1, EvaluationInvariant, PTL

(* Rules are learned from finished runs alone (refine_guideline.go).       *)
THEOREM RulesTheorem == Spec => []LearnsFromFinishedRuns
<1>1. IInv => LearnsFromFinishedRuns
  BY DEF IInv
<1> QED
  BY <1>1, EvaluationInvariant, PTL

(* No trajectory is run again, torn or replaced (runOrLoad).               *)
THEOREM KeptTheorem == Spec => CompletedRunsKept
<1>1. IInv /\ [Next]_vars
        => [\A s \in Slots : Whole(disk[s]) => disk'[s] = disk[s]]_vars
  BY KeepsWhole
<1> QED
  BY <1>1, EvaluationInvariant, PTL DEF Spec, CompletedRunsKept
=============================================================================
