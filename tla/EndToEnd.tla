------------------------------ MODULE EndToEnd ------------------------------
(***************************************************************************)
(* The end-to-end evaluation and the script that learns from it.  An       *)
(* evaluation goes over its slots (an arm, a task and a repeat), reuses    *)
(* the trajectory that is on disk or runs the agent and writes one, and    *)
(* reports the arms; it may stop anywhere and is run again.  The script    *)
(* pairs trajectories of a task and appends rules to the guideline.        *)
(*                                                                         *)
(* An arm is its history budget, 0 for the baseline.  All tasks are        *)
(* localization tasks.                                                     *)
(***************************************************************************)
EXTENDS Integers, Sequences, FiniteSets, FiniteSetsExt

CONSTANTS
  Budgets, Tasks,   \* history budgets swept, the task set
  Plans,            \* the slots of an evaluation, for each setting of its knobs
  Tokens,           \* what a run may cost
  Tolerance,        \* success may fall by so many percent of the runs
  MaxRepeats,       \* bounds: COGNI_EVAL_N,
  MaxFaults         \* and how often a run, a write or the process fails

Slots == [arm : Budgets \union {0}, task : Tasks, repeat : 0 .. MaxRepeats - 1]

ASSUME EndToEndAssumption ==
  /\ Budgets \subseteq Nat \ {0}
  /\ Tokens \subseteq Nat
  /\ Tolerance \in Nat /\ MaxRepeats \in Nat /\ MaxFaults \in Nat
  /\ Plans \subseteq Seq(Slots)
  /\ \A p \in Plans : \A i, j \in DOMAIN p : p[i] = p[j] => i = j

VARIABLES
  disk,    \* the file of each slot
  rules,   \* the rules learned into the guideline
  pc,      \* "idle", "run", "write" or "writing"
  plan,    \* the slots of this evaluation
  recs,    \* the records of the slots done so far
  failed,  \* which of them are of runs that ended in an error
  current, \* the trajectory to write
  report,  \* the last report, <<>> before the first
  faults   \* how many faults there were

vars == <<disk, rules, pc, plan, recs, failed, current, report, faults>>

-----------------------------------------------------------------------------
(* A file is missing, cut short, or a whole trajectory.                    *)

Missing == [form |-> "missing"]
Torn == [form |-> "torn"]

Trajectory ==
  [form : {"whole"}, success : BOOLEAN, tokens : Tokens,
   stop : {"ended", "error"}]

Whole(f) == f.form = "whole"

(* A run that ends in an error is never a success, and costs nothing if    *)
(* its first call already failed.                                          *)
Finished == {t \in Trajectory : t.stop # "error" /\ t.tokens > 0}
Errored == {t \in Trajectory : t.stop = "error" /\ ~ t.success}

Record(t) == [success |-> t.success, tokens |-> t.tokens]

Slot == plan[Len(recs) + 1]
SlotsLeft == Len(recs) < Len(plan)

-----------------------------------------------------------------------------
(* The report                                                              *)

Of(p, arm) == {i \in DOMAIN p : p[i].arm = arm}

AggregateArm(p, rs, arm) ==
  [runs |-> Cardinality(Of(p, arm)),
   wins |-> Cardinality({i \in Of(p, arm) : rs[i].success}),
   total |-> MapThenSumSet(LAMBDA i : rs[i].tokens, Of(p, arm))]

(* Success within tolerance of the baseline, and no arm that holds it is   *)
(* cheaper; of several the loosest budget, which comes first.  A baseline  *)
(* that cost nothing leaves nothing to compare.                            *)
BestValidTreatment(arms) ==
  LET fall(b) == arms[0].wins * arms[b].runs - arms[b].wins * arms[0].runs
      valid == {b \in DOMAIN arms \ {0} :
                  fall(b) * 100 <= Tolerance * arms[0].runs * arms[b].runs}
      mean(b, c) == arms[b].total * arms[c].runs
      cheapest ==
        {b \in valid : arms[0].total = 0 \/ \A c \in valid : mean(b, c) <= mean(c, b)}
  IN  {b \in cheapest : \A c \in cheapest : c <= b}

ReportOf(p, rs) ==
  LET arms == [arm \in {p[i].arm : i \in DOMAIN p} |-> AggregateArm(p, rs, arm)]
  IN  [arms |-> arms, best |-> BestValidTreatment(arms)]

-----------------------------------------------------------------------------
Init ==
  /\ disk = [s \in Slots |-> Missing]
  /\ rules = {}
  /\ pc = "idle" /\ plan = <<>> /\ recs = <<>> /\ failed = {}
  /\ current = Missing
  /\ report = <<>>
  /\ faults = 0

Start(p) ==
  /\ pc = "idle"
  /\ pc' = "run" /\ plan' = p /\ recs' = <<>> /\ failed' = {}
  /\ UNCHANGED <<disk, rules, current, report, faults>>

(* Fault: a file that is there may be taken for a run that failed, though  *)
(* it was cut short.                                                       *)
ReuseTorn ==
  /\ pc = "run" /\ SlotsLeft
  /\ disk[Slot] # Missing
  /\ recs' = Append(recs, IF Whole(disk[Slot]) THEN Record(disk[Slot])
                          ELSE [success |-> FALSE, tokens |-> 0])
  /\ UNCHANGED <<disk, rules, pc, plan, failed, current, report, faults>>

Reuse ==
  /\ pc = "run" /\ SlotsLeft
  /\ Whole(disk[Slot])
  /\ recs' = Append(recs, Record(disk[Slot]))
  /\ UNCHANGED <<disk, rules, pc, plan, failed, current, report, faults>>

(* Fault: a run that failed its task is tried again.                       *)
RunUnlessWon ==
  /\ pc = "run" /\ SlotsLeft
  /\ ~ (Whole(disk[Slot]) /\ disk[Slot].success)
  /\ current' \in Finished
  /\ pc' = "write"
  /\ UNCHANGED <<disk, rules, plan, recs, failed, report, faults>>

(* A file that is not there or cannot be read: run the agent.              *)
Run ==
  /\ pc = "run" /\ SlotsLeft
  /\ ~ Whole(disk[Slot])
  /\ current' \in Finished
  /\ pc' = "write"
  /\ UNCHANGED <<disk, rules, plan, recs, failed, report, faults>>

(* Fault: the failure is written, so that it is not run again.             *)
RunErrorsKept ==
  /\ pc = "run" /\ SlotsLeft /\ faults < MaxFaults
  /\ ~ Whole(disk[Slot])
  /\ \E t \in Errored : /\ recs' = Append(recs, Record(t))
                        /\ disk' = [disk EXCEPT ![Slot] = t]
  /\ failed' = failed \union {Len(recs) + 1}
  /\ faults' = faults + 1
  /\ UNCHANGED <<rules, pc, plan, current, report>>

(* Recorded as a failure of its task, and not written.                     *)
RunErrors ==
  /\ pc = "run" /\ SlotsLeft /\ faults < MaxFaults
  /\ ~ Whole(disk[Slot])
  /\ \E t \in Errored : recs' = Append(recs, Record(t))
  /\ failed' = failed \union {Len(recs) + 1}
  /\ faults' = faults + 1
  /\ UNCHANGED <<disk, rules, pc, plan, current, report>>

(* Fault: a write that fails half way is not noticed.                      *)
WriteEndsTorn ==
  /\ pc = "writing" /\ pc' = "run"
  /\ recs' = Append(recs, Record(current))
  /\ current' = Missing
  /\ UNCHANGED <<disk, rules, plan, failed, report, faults>>

(* writeJSON truncates the file and then fills it.                         *)
WriteBegins ==
  /\ pc = "write" /\ pc' = "writing"
  /\ disk' = [disk EXCEPT ![Slot] = Torn]
  /\ UNCHANGED <<rules, plan, recs, failed, current, report, faults>>

WriteEnds ==
  /\ pc = "writing" /\ pc' = "run"
  /\ disk' = [disk EXCEPT ![Slot] = current]
  /\ recs' = Append(recs, Record(current))
  /\ current' = Missing
  /\ UNCHANGED <<rules, plan, failed, report, faults>>

(* A bad key, a write that fails, the test's timeout or a crash: the       *)
(* evaluation stops where it is.                                           *)
Aborts ==
  /\ pc # "idle" /\ faults < MaxFaults
  /\ pc' = "idle" /\ plan' = <<>> /\ recs' = <<>> /\ failed' = {}
  /\ current' = Missing
  /\ faults' = faults + 1
  /\ UNCHANGED <<disk, rules, report>>

Report ==
  /\ pc = "run" /\ ~ SlotsLeft
  /\ report' = [plan |-> plan, errors |-> failed, result |-> ReportOf(plan, recs)]
  /\ pc' = "idle" /\ plan' = <<>> /\ recs' = <<>> /\ failed' = {}
  /\ UNCHANGED <<disk, rules, current, faults>>

(* The pairs of a task: a baseline run that succeeded, a run under some    *)
(* budget that did not.                                                    *)
Pairs ==
  {[base |-> s, fail |-> t] : s, t \in {u \in Slots : Whole(disk[u])}}

(* Fault: the baseline run need not have succeeded.                        *)
ContrastFailures(p) ==
  /\ p.base.task = p.fail.task
  /\ p.base.arm = 0
  /\ p.fail.arm # 0 /\ ~ disk[p.fail].success

Contrast(p) ==
  /\ p.base.task = p.fail.task
  /\ p.base.arm = 0 /\ disk[p.base].success
  /\ p.fail.arm # 0 /\ ~ disk[p.fail].success

(* One pair a task at most; the model may find no cause, or fail.          *)
Refine ==
  /\ \E learned \in SUBSET {p \in Pairs : Contrast(p)} :
       /\ learned # {}
       /\ \A p, q \in learned : p.base.task = q.base.task => p = q
       /\ rules' = rules \union learned
  /\ UNCHANGED <<disk, pc, plan, recs, failed, current, report, faults>>

Evaluate == Reuse \/ Run \/ WriteBegins \/ WriteEnds \/ Report
Next ==
  \/ \E p \in Plans : Start(p)
  \/ Evaluate \/ RunErrors \/ Aborts \/ Refine

Spec == Init /\ [][Next]_vars

(* An evaluation goes on, and is run again until it is done.               *)
FairSpec == Spec /\ WF_vars(Evaluate) /\ \A p \in Plans : SF_vars(Start(p))

-----------------------------------------------------------------------------
TypeOK ==
  /\ disk \in [Slots -> {Missing, Torn} \union Finished]
  /\ rules \subseteq [base : Slots, fail : Slots]
  /\ pc \in {"idle", "run", "write", "writing"}
  /\ plan \in Plans \union {<<>>} /\ (pc # "idle" => plan \in Plans)
  /\ recs \in Seq([success : BOOLEAN, tokens : Tokens])
  /\ Len(recs) <= Len(plan)
  /\ failed \subseteq 1 .. Len(recs)
  /\ current \in {Missing} \union Finished
  /\ pc \in {"write", "writing"} <=> current # Missing
  /\ report # <<>> => report.plan \in Plans
  /\ faults \in 0 .. MaxFaults

(* What a run is about to write over is not a trajectory, and the records  *)
(* of runs without error are those of the files.                           *)
WritesMissing ==
  pc \in {"write", "writing"} => SlotsLeft /\ ~ Whole(disk[Slot])

RecordsFromFiles ==
  \A i \in DOMAIN recs \ failed :
    Whole(disk[plan[i]]) /\ recs[i] = Record(disk[plan[i]])

(* A trajectory once written is never run again, torn or replaced, however *)
(* often the evaluation stops and is resumed.                              *)
CompletedRunsKept ==
  [][\A s \in Slots : Whole(disk[s]) => disk'[s] = disk[s]]_vars

(* "re-grading/reporting costs nothing": the last report, when none of its *)
(* runs ended in an error, is and stays what the files on disk say.        *)
ReportFromFiles ==
  report # <<>> /\ report.errors = {} =>
    /\ \A i \in DOMAIN report.plan : Whole(disk[report.plan[i]])
    /\ report.result = ReportOf(report.plan,
         [i \in DOMAIN report.plan |-> Record(disk[report.plan[i]])])

(* A rule comes from a baseline run that succeeded and a compressed run    *)
(* that finished and failed: never from a run that ended in an error.      *)
LearnsFromFinishedRuns ==
  \A r \in rules :
    /\ r.base.task = r.fail.task /\ r.base.arm = 0 /\ r.fail.arm # 0
    /\ Whole(disk[r.base]) /\ disk[r.base].success
    /\ Whole(disk[r.fail]) /\ ~ disk[r.fail].success
    /\ disk[r.fail].stop # "error"

IInv ==
  /\ TypeOK /\ WritesMissing /\ RecordsFromFiles
  /\ ReportFromFiles /\ LearnsFromFinishedRuns

(* However often it stops, the evaluation ends up with every trajectory.   *)
EvaluationCompletes ==
  <>[](\A p \in Plans : \A i \in DOMAIN p : Whole(disk[p[i]]))
=============================================================================
