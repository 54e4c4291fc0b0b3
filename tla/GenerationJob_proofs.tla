------------------------ MODULE GenerationJob_proofs ------------------------
(***************************************************************************)
(* Proofs about GenerationJob, for any sets of jobs, workers, runs of API  *)
(* processes and requests, with failing statements and stopping processes  *)
(* or without.                                                             *)
(***************************************************************************)
EXTENDS GenerationJob, TLAPS

\* A row that says COMPLETED has the files, or had nothing to generate.
Earned(row) == row.status = "COMPLETED" => row.code \/ row.blank

\* What a run must bring to its finalizer: an outcome; a reason to have
\* skipped the clarification, that is a row; and for COMPLETED, the files.
Ends(r) == r.at \in {"finalize", "announce"}
RunFit(rows, r) ==
  /\ Ends(r) => r.outcome \in {"COMPLETED", "FAILED", "HUMAN_REVIEW"}
  /\ r.skip => rows[r.job] # None
  /\ Ends(r) /\ r.outcome = "COMPLETED" =>
       r.code \/ (rows[r.job] # None /\ rows[r.job].blank)

RunsFit == \A p \in Runners : run[p] # None => RunFit(job, run[p])

\* CompletedHasCode is not inductive: a run may carry COMPLETED from its
\* graph to its finalizer, while the row is written by others.
JInv == TypeOK /\ RunsFit /\ CompletedHasCode

\* The one step that writes "running".
Retried(j) == \E w \in Workers : RetryTransient(w) /\ run[w].job = j

\* What an UPDATE may write into the column status, of a row that had old.
NewStatus(j, old, new) ==
  \/ new = old
  \/ new \in Statuses \ {"pending", "running"}
  \/ new = "running" /\ Retried(j)

\* What one step may do to a row.
RowStep(j) ==
  \/ job'[j] = job[j]
  \/ /\ job[j] = None
     /\ \E blank \in BOOLEAN : job'[j] = NewRow(blank)
  \/ /\ job[j] # None
     /\ job'[j] \in Row
     /\ job'[j].blank = job[j].blank
     /\ job[j].code => job'[j].code
     /\ NewStatus(j, job[j].status, job'[j].status)
     /\ Earned(job'[j])

LEMMA NewRowType == \A blank \in BOOLEAN : NewRow(blank) \in Row /\ Earned(NewRow(blank))
BY DEF NewRow, Row, Meta, NoMeta, Statuses, Earned

\* An UPDATE, done or failed, is a RowStep of every job if the new row is a
\* fit successor of the old one.
LEMMA WriteStep ==
  ASSUME TypeOK, NEW i \in Jobs, NEW new, Write(i, new),
         job[i] # None => /\ new \in Row
                          /\ new.blank = job[i].blank
                          /\ job[i].code => new.code
                          /\ NewStatus(i, job[i].status, new.status)
                          /\ Earned(new)
  PROVE  job' \in [Jobs -> Row \union {None}] /\ \A j \in Jobs : RowStep(j)
<1>1. CASE UNCHANGED job
  BY <1>1 DEF TypeOK, RowStep
<1>2. CASE job[i] # None /\ job' = [job EXCEPT ![i] = new]
  <2>1. job' \in [Jobs -> Row \union {None}]
    BY <1>2 DEF TypeOK
  <2>2. ASSUME NEW j \in Jobs PROVE RowStep(j)
    <3>1. CASE j = i
      <4>1. job'[j] = new
        BY <1>2, <3>1 DEF TypeOK
      <4> QED BY <4>1, <3>1, <1>2 DEF RowStep
    <3>2. CASE j # i
      <4>1. job'[j] = job[j]
        BY <1>2, <3>2 DEF TypeOK
      <4> QED BY <4>1 DEF RowStep
    <3> QED BY <3>1, <3>2
  <2> QED BY <2>1, <2>2
<1> QED BY <1>1, <1>2 DEF Write

\* The INSERT is one too.
LEMMA InsertStep ==
  ASSUME TypeOK, NEW i \in Jobs, NEW blank \in BOOLEAN, job[i] = None,
         job' = [job EXCEPT ![i] = NewRow(blank)]
  PROVE  job' \in [Jobs -> Row \union {None}] /\ \A j \in Jobs : RowStep(j)
<1>1. job' \in [Jobs -> Row \union {None}]
  BY NewRowType DEF TypeOK
<1>2. ASSUME NEW j \in Jobs PROVE RowStep(j)
  <2>1. CASE j = i
    BY <2>1 DEF TypeOK, RowStep
  <2>2. CASE j # i
    BY <2>2 DEF TypeOK, RowStep
  <2> QED BY <2>1, <2>2
<1> QED BY <1>1, <1>2

RowsTyped == job \in [Jobs -> Row \union {None}]
RowsStep == RowsTyped' /\ \A j \in Jobs : RowStep(j)

\* The statuses that UPDATEs set by name, but for "running".
Settings == Statuses \ {"pending", "running", "COMPLETED"}

\* An UPDATE of other columns than the files, to another status than
\* COMPLETED if to any, disturbs nothing the row has earned.
LEMMA MetaWrite ==
  ASSUME JInv, NEW i \in Jobs, NEW m \in Meta, Write(i, [job[i] EXCEPT !.meta = m])
  PROVE  RowsStep
<1> DEFINE new == [job[i] EXCEPT !.meta = m]
<1>1. ASSUME job[i] # None
      PROVE  new \in Row /\ new.blank = job[i].blank /\ (job[i].code => new.code)
             /\ NewStatus(i, job[i].status, new.status) /\ Earned(new)
  BY <1>1 DEF JInv, TypeOK, CompletedHasCode, Row, NewStatus, Settings, Earned
<1> QED BY <1>1, WriteStep DEF JInv, RowsStep, RowsTyped

LEMMA StatusWrite ==
  ASSUME JInv, NEW i \in Jobs, NEW status \in Settings,
         Write(i, [job[i] EXCEPT !.status = status])
  PROVE  RowsStep
<1> DEFINE new == [job[i] EXCEPT !.status = status]
<1>1. ASSUME job[i] # None
      PROVE  new \in Row /\ new.blank = job[i].blank /\ (job[i].code => new.code)
             /\ NewStatus(i, job[i].status, new.status) /\ Earned(new)
  BY <1>1 DEF JInv, TypeOK, Row, NewStatus, Settings, Earned
<1> QED BY <1>1, WriteStep DEF JInv, RowsStep, RowsTyped

LEMMA StatusMetaWrite ==
  ASSUME JInv, NEW i \in Jobs, NEW status \in Settings, NEW m \in Meta,
         Write(i, [job[i] EXCEPT !.status = status, !.meta = m])
  PROVE  RowsStep
<1> DEFINE new == [job[i] EXCEPT !.status = status, !.meta = m]
<1>1. ASSUME job[i] # None
      PROVE  new \in Row /\ new.blank = job[i].blank /\ (job[i].code => new.code)
             /\ NewStatus(i, job[i].status, new.status) /\ Earned(new)
  <2>1. job[i] \in Row
    BY <1>1 DEF JInv, TypeOK
  <2>2. status \in Statuses /\ status \notin {"pending", "running", "COMPLETED"}
    BY DEF Settings
  <2> QED BY <2>1, <2>2 DEF Row, NewStatus, Earned
<1> QED BY <1>1, WriteStep DEF JInv, RowsStep, RowsTyped

LEMMA RetryWrite ==
  ASSUME JInv, NEW i \in Jobs, Retried(i),
         Write(i, [job[i] EXCEPT !.status = "running", !.meta = NoMeta])
  PROVE  RowsStep
<1> DEFINE new == [job[i] EXCEPT !.status = "running", !.meta = NoMeta]
<1>1. ASSUME job[i] # None
      PROVE  new \in Row /\ new.blank = job[i].blank /\ (job[i].code => new.code)
             /\ NewStatus(i, job[i].status, new.status) /\ Earned(new)
  BY <1>1 DEF JInv, TypeOK, Row, Statuses, NoMeta, Meta, NewStatus, Earned
<1> QED BY <1>1, WriteStep DEF JInv, RowsStep, RowsTyped

LEMMA PlanWrite ==
  ASSUME JInv, NEW i \in Jobs, NEW status \in Settings,
         NEW spec \in BOOLEAN, NEW m \in Meta,
         Write(i, [job[i] EXCEPT !.status = status, !.spec = spec, !.meta = m])
  PROVE  RowsStep
<1> DEFINE new == [job[i] EXCEPT !.status = status, !.spec = spec, !.meta = m]
<1>1. ASSUME job[i] # None
      PROVE  new \in Row /\ new.blank = job[i].blank /\ (job[i].code => new.code)
             /\ NewStatus(i, job[i].status, new.status) /\ Earned(new)
  BY <1>1 DEF JInv, TypeOK, Row, NewStatus, Settings, Earned
<1> QED BY <1>1, WriteStep DEF JInv, RowsStep, RowsTyped

\* Every action takes every row through a RowStep: rows are inserted as
\* pending, never removed, keep their prompt and their files, and become
\* COMPLETED only when they have earned it.
LEMMA NextRowsStep ==
  ASSUME JInv, Next
  PROVE  RowsStep
<1> "failed" \in Settings /\ NoMeta \in Meta
  BY DEF Statuses, Settings, NoMeta, Meta
<1>1. CASE UNCHANGED job
  BY <1>1 DEF JInv, TypeOK, RowStep, RowsStep, RowsTyped
<1>2. ASSUME NEW j \in Jobs, StartGeneration(j) PROVE RowsStep
  BY <1>2, InsertStep DEF StartGeneration, JInv, RowsStep, RowsTyped
<1>3. ASSUME NEW j \in Jobs, DispatchGeneration(j) PROVE RowsStep
  BY <1>1, <1>3, StatusWrite DEF DispatchGeneration
<1>4. ASSUME NEW p \in Locals, NEW j \in Jobs, StartSession(p, j) PROVE RowsStep
  <2>1. CASE job[j] = None /\ \E blank \in BOOLEAN : job' = [job EXCEPT ![j] = NewRow(blank)]
    BY <2>1, InsertStep DEF JInv, RowsStep, RowsTyped
  <2> QED BY <1>1, <1>4, <2>1 DEF StartSession
<1>5. ASSUME NEW p \in Locals, NEW j \in Jobs, ResumeWorkflow(p, j) PROVE RowsStep
  BY <1>5, MetaWrite DEF ResumeWorkflow
<1>6. ASSUME NEW r \in Requests, SaveHistory(r) PROVE RowsStep
  <2> DEFINE j == answer[r].job
  <2>1. Write(j, [job[j] EXCEPT !.status = "clarifying", !.meta = answer[r].meta])
    BY <1>6 DEF SaveHistory
  <2>2. j \in Jobs /\ answer[r].meta \in Meta
    BY <1>6 DEF SaveHistory, JInv, TypeOK, Answer
  <2>3. "clarifying" \in Settings
    BY DEF Statuses, Settings
  <2> HIDE DEF j
  <2> QED BY <2>1, <2>2, <2>3, StatusMetaWrite
<1>7. ASSUME NEW r \in Requests, FinishAnswer(r) PROVE RowsStep
  <2> DEFINE j == answer[r].job
             m == answer[r].meta
  <2>1. j \in Jobs /\ m \in Meta /\ [m EXCEPT !.said = {}] \in Meta
    BY <1>7 DEF FinishAnswer, JInv, TypeOK, Answer, Meta
  <2>2. "pending_human" \in Settings
    BY DEF Statuses, Settings
  <2>3. \/ Write(j, [job[j] EXCEPT !.status = "failed"])
        \/ Write(j, [job[j] EXCEPT !.status = "pending_human", !.meta = m])
        \/ \E spec \in BOOLEAN :
             Write(j, [job[j] EXCEPT !.status = "pending_human", !.spec = spec,
                                     !.meta = [m EXCEPT !.said = {}]])
        \/ UNCHANGED job
    BY <1>7 DEF FinishAnswer
  <2> HIDE DEF j, m
  <2> QED BY <1>1, <2>1, <2>2, <2>3, StatusWrite, StatusMetaWrite, PlanWrite
<1>8. ASSUME NEW w \in Workers, Heartbeat(w) \/ RetryTransient(w) \/ MarkFailed(w)
      PROVE  RowsStep
  <2> DEFINE j == run[w].job
  <2>1. j \in Jobs
    BY <1>8 DEF Heartbeat, RetryTransient, MarkFailed, At, JInv, TypeOK, Runners, Run
  <2>2. RetryTransient(w) => Retried(j)
    BY DEF Retried
  <2>3. \/ Write(j, [job[j] EXCEPT !.meta = NoMeta])
        \/ /\ RetryTransient(w)
           /\ Write(j, [job[j] EXCEPT !.status = "running", !.meta = NoMeta])
        \/ Write(j, [job[j] EXCEPT !.status = "failed"])
    BY <1>8 DEF Heartbeat, RetryTransient, MarkFailed
  <2> HIDE DEF j
  <2> QED BY <2>1, <2>2, <2>3, MetaWrite, RetryWrite, StatusWrite
<1>9. ASSUME NEW p \in Runners, Finalize(p) PROVE RowsStep
  <2> DEFINE i == run[p].job
             New(m) == [job[i] EXCEPT !.status = run[p].outcome, !.meta = m,
                                      !.code = @ \/ run[p].code]
  <2>1. run[p] \in Run /\ Ends(run[p]) /\ RunFit(job, run[p])
    BY <1>9 DEF Finalize, At, JInv, TypeOK, RunsFit, Ends
  <2>2. i \in Jobs /\ run[p].outcome \in Statuses /\ run[p].code \in BOOLEAN
    BY <2>1 DEF Run, RunFit, Statuses
  <2>3. CASE job[i] = None
    <3>1. UNCHANGED job
      BY <1>9, <2>3 DEF Finalize, Write
    <3> QED BY <3>1, <1>1
  <2>4. CASE job[i] # None
    <3>1. job[i] \in Row /\ Earned(job[i])
      BY <2>2, <2>4 DEF JInv, TypeOK, CompletedHasCode, Earned
    <3>2. PICK m \in Meta : Write(i, New(m))
      <4>1. [said |-> {}, spec |-> run[p].spec] \in Meta /\ job[i].meta \in Meta
        BY <2>1, <3>1 DEF Run, Meta, Row
      <4> QED BY <1>9, <4>1 DEF Finalize
    <3>3. /\ New(m) \in Row
          /\ New(m).blank = job[i].blank
          /\ job[i].code => New(m).code
      BY <2>2, <3>1 DEF Row
    <3>4. Earned(New(m))
      BY <2>1, <2>2, <3>1 DEF Row, RunFit, Earned
    <3>5. NewStatus(i, job[i].status, New(m).status)
      BY <2>1, <2>2, <3>1 DEF Row, RunFit, Statuses, NewStatus
    <3> HIDE DEF New, i
    <3> QED BY <2>2, <3>2, <3>3, <3>4, <3>5, WriteStep DEF JInv, RowsStep, RowsTyped
  <2> QED BY <2>3, <2>4
<1> QED
  BY <1>1, <1>2, <1>3, <1>4, <1>5, <1>6, <1>7, <1>8, <1>9
  DEF Next, ApproveOrClarify, RetryDeadLetterJob, vars, ReadHistory, TakeTask, ConnectFails, ReadJob,
      ReadFails, InitFails, TellFailure, PushToDlq, StopWorker, RunGraph, GraphRaises, Announce, StopApi
-----------------------------------------------------------------------------
(* Runs.                                                                   *)

RunsTyped == run \in [Runners -> Run \union {None}]
RunsStep == RunsTyped' /\ RunsFit'

\* What a run relies on, that its job has a row and that the row's prompt is
\* blank, stays as it is.
LEMMA FitStays ==
  ASSUME JInv, RowsStep, NEW r \in Run, RunFit(job, r)
  PROVE  RunFit(job', r)
<1>1. r.job \in Jobs /\ RowStep(r.job)
  BY DEF Run, RowsStep
<1>2. job[r.job] # None => job'[r.job] # None /\ job'[r.job].blank = job[r.job].blank
  BY <1>1, NoneIsNoRow DEF RowStep
<1> QED BY <1>2 DEF RunFit

\* One run moves to a stage it is fit for, or ends.
LEMMA OneRunStep ==
  ASSUME JInv, RowsStep, NEW p \in Runners, NEW r,
         run' = [run EXCEPT ![p] = r],
         r # None => r \in Run /\ RunFit(job', r)
  PROVE  RunsStep
<1>1. RunsTyped'
  BY DEF JInv, TypeOK, RunsTyped
<1>2. ASSUME NEW q \in Runners, run'[q] # None PROVE RunFit(job', run'[q])
  <2>1. CASE q = p
    BY <2>1, <1>2 DEF JInv, TypeOK
  <2>2. CASE q # p
    <3>1. run'[q] = run[q] /\ run[q] \in Run
      BY <2>2, <1>2 DEF JInv, TypeOK
    <3> QED BY <3>1, <1>2, FitStays DEF JInv, RunsFit
  <2> QED BY <2>1, <2>2
<1> QED BY <1>1, <1>2 DEF RunsStep, RunsFit

LEMMA NextRunsStep ==
  ASSUME JInv, Next, RowsStep
  PROVE  RunsStep
<1>1. CASE UNCHANGED run
  <2>1. ASSUME NEW q \in Runners, run[q] # None PROVE RunFit(job', run[q])
    BY <2>1, FitStays DEF JInv, TypeOK, RunsFit
  <2> QED BY <1>1, <2>1 DEF JInv, TypeOK, RunsStep, RunsTyped, RunsFit
<1>2. ASSUME NEW p \in Runners, run' = [run EXCEPT ![p] = None] PROVE RunsStep
  BY <1>2, OneRunStep
<1>3. ASSUME NEW p \in Runners, run[p] # None,
             NEW stage \in {"retry", "fail", "tell", "bury"}, MoveTo(p, stage)
      PROVE  RunsStep
  <2> DEFINE r == [run[p] EXCEPT !.at = stage]
  <2>1. run[p] \in Run /\ RunFit(job', run[p])
    BY <1>3, FitStays DEF JInv, TypeOK, RunsFit
  <2>2. r \in Run /\ RunFit(job', r)
    BY <2>1 DEF Run, RunFit, Ends
  <2>3. run' = [run EXCEPT ![p] = r]
    BY <1>3 DEF MoveTo
  <2> HIDE DEF r
  <2> QED BY <2>2, <2>3, OneRunStep
<1>4. ASSUME NEW p \in Runners, NEW j \in Jobs, NEW stage \in {"read", "graph"},
             NEW spec \in BOOLEAN, run' = [run EXCEPT ![p] = NewRun(j, stage, spec)]
      PROVE  RunsStep
  <2>1. NewRun(j, stage, spec) \in Run /\ RunFit(job', NewRun(j, stage, spec))
    BY DEF NewRun, Run, RunFit, Ends
  <2> QED BY <1>4, <2>1, OneRunStep
<1>5. ASSUME NEW w \in Workers, ReadJob(w) PROVE RunsStep
  <2> DEFINE j == run[w].job
             found == job[j] # None /\ job[j].spec
             r == [run[w] EXCEPT !.at = "graph", !.skip = found, !.spec = found]
  <2>1. w \in Runners /\ run[w] \in Run /\ j \in Jobs
    BY <1>5 DEF ReadJob, At, JInv, TypeOK, Runners, Run
  <2>2. found \in BOOLEAN
    BY <2>1 DEF JInv, TypeOK, Row
  <2>3. run' = [run EXCEPT ![w] = r]
    BY <1>5 DEF ReadJob
  <2>4. r \in Run /\ RunFit(job, r)
    BY <2>1, <2>2 DEF Run, RunFit, Ends
  <2> HIDE DEF r
  <2> QED BY <2>1, <2>3, <2>4, FitStays, OneRunStep
<1>6. ASSUME NEW p \in Runners, RunGraph(p) PROVE RunsStep
  <2>1. run[p] \in Run /\ RunFit(job, run[p])
    BY <1>6 DEF RunGraph, At, JInv, TypeOK, RunsFit
  <2>2. PICK outcome \in {"COMPLETED", "FAILED", "HUMAN_REVIEW"},
             plan \in BOOLEAN, code \in BOOLEAN :
          /\ outcome = "COMPLETED" => run[p].skip /\ (code \/ job[run[p].job].blank)
          /\ run' = [run EXCEPT ![p].at = "finalize", ![p].outcome = outcome,
                                ![p].spec = run[p].spec \/ plan, ![p].code = code]
    BY <1>6 DEF RunGraph, ClarifyEnds, CodingEnds
  <2> DEFINE spec == run[p].spec \/ plan
             r == [run[p] EXCEPT !.at = "finalize", !.outcome = outcome,
                                 !.spec = spec, !.code = code]
  <2>3. run' = [run EXCEPT ![p] = r]
    BY <2>2
  <2>4. spec \in BOOLEAN
    BY <2>1 DEF Run
  <2>5. r \in Run
    BY <2>1, <2>4 DEF Run
  <2>6. RunFit(job, r)
    BY <2>1, <2>2 DEF Run, RunFit
  <2> HIDE DEF r
  <2> QED BY <2>3, <2>5, <2>6, FitStays, OneRunStep
<1>7. ASSUME NEW p \in Runners, Finalize(p) PROVE RunsStep
  <2> DEFINE r == [run[p] EXCEPT !.at = "announce"]
  <2>1. run[p] \in Run /\ RunFit(job', run[p]) /\ run[p].at = "finalize"
    BY <1>7, FitStays DEF Finalize, At, JInv, TypeOK, RunsFit
  <2>2. r \in Run /\ RunFit(job', r)
    BY <2>1 DEF Run, RunFit, Ends
  <2>3. run' = [run EXCEPT ![p] = r]
    BY <1>7 DEF Finalize, MoveTo
  <2> HIDE DEF r
  <2> QED BY <2>2, <2>3, OneRunStep
<1>8. CASE StopApi
  <2>1. \A p \in Runners : run'[p] \in {run[p], None}
    BY <1>8 DEF StopApi
  <2>2. RunsTyped'
    BY <1>8 DEF StopApi, JInv, TypeOK, RunsTyped
  <2>3. ASSUME NEW q \in Runners, run'[q] # None PROVE RunFit(job', run'[q])
    BY <2>1, <2>3, FitStays DEF JInv, TypeOK, RunsFit
  <2> QED BY <2>2, <2>3 DEF RunsStep, RunsFit
<1>9. ASSUME NEW p \in Locals, NEW j \in Jobs, StartSession(p, j) \/ ResumeWorkflow(p, j)
      PROVE  RunsStep
  <2>1. p \in Runners /\ (kept[j] # None => kept[j] \in BOOLEAN)
    BY DEF Runners, JInv, TypeOK
  <2> QED BY <1>1, <1>4, <1>9, <2>1 DEF StartSession, ResumeWorkflow
<1>10. ASSUME NEW w \in Workers
       PROVE  /\ \A j \in Jobs : TakeTask(w, j) => RunsStep
              /\ ReadFails(w) \/ InitFails(w) => RunsStep
              /\ RetryTransient(w) \/ MarkFailed(w) \/ TellFailure(w) => RunsStep
              /\ PushToDlq(w) \/ StopWorker(w) => RunsStep
  <2>1. w \in Runners
    BY DEF Runners
  <2> QED BY <2>1, <1>2, <1>3, <1>4
          DEF TakeTask, ReadFails, InitFails, RetryTransient, MarkFailed, TellFailure,
              PushToDlq, StopWorker, At
<1>11. ASSUME NEW p \in Runners, GraphRaises(p) \/ Announce(p) PROVE RunsStep
  BY <1>11, <1>2, <1>3 DEF GraphRaises, Announce, At
<1> QED
  BY <1>1, <1>5, <1>6, <1>7, <1>8, <1>9, <1>10, <1>11
  DEF Next, StartGeneration, DispatchGeneration, ApproveOrClarify, RetryDeadLetterJob,
      vars, ReadHistory, SaveHistory, FinishAnswer, ConnectFails, Heartbeat
-----------------------------------------------------------------------------
(* The theorems.                                                           *)

LEMMA InitJInv == Init => JInv
BY JobConstants DEF JobConstants, Init, JInv, TypeOK, RunsFit, CompletedHasCode

\* A statement that failed is on record, and only failing ones are.
LEMMA UnsavedStep ==
  ASSUME JInv, Next
  PROVE  /\ unsaved \subseteq unsaved' /\ unsaved' \in SUBSET Jobs
         /\ ~DbMayFail => unsaved' = unsaved
<1>1. CASE UNCHANGED unsaved
  BY <1>1 DEF JInv, TypeOK
<1>2. ASSUME NEW i \in Jobs, DbMayFail, unsaved' = unsaved \union {i}
      PROVE  unsaved \subseteq unsaved' /\ unsaved' \in SUBSET Jobs /\ DbMayFail
  BY <1>2 DEF JInv, TypeOK
<1>3. ASSUME NEW i \in Jobs, NEW new, Write(i, new)
      PROVE  UNCHANGED unsaved \/ (DbMayFail /\ unsaved' = unsaved \union {i})
  BY <1>3 DEF Write
<1>4. ASSUME NEW j \in Jobs, DispatchGeneration(j)
      PROVE  UNCHANGED unsaved \/ (DbMayFail /\ unsaved' = unsaved \union {j})
  BY <1>4, <1>3 DEF DispatchGeneration
<1>5. ASSUME NEW p \in Locals, NEW j \in Jobs, StartSession(p, j) \/ ResumeWorkflow(p, j)
      PROVE  UNCHANGED unsaved \/ (DbMayFail /\ unsaved' = unsaved \union {j})
  BY <1>5, <1>3 DEF StartSession, ResumeWorkflow
<1>6. ASSUME NEW r \in Requests, SaveHistory(r) \/ FinishAnswer(r)
      PROVE  \/ UNCHANGED unsaved
             \/ answer[r].job \in Jobs /\ DbMayFail /\ unsaved' = unsaved \union {answer[r].job}
  <2>1. answer[r].job \in Jobs
    BY <1>6 DEF SaveHistory, FinishAnswer, JInv, TypeOK, Answer
  <2> QED BY <1>6, <2>1, <1>3 DEF SaveHistory, FinishAnswer
<1>7. ASSUME NEW p \in Runners,
             \/ Finalize(p)
             \/ /\ p \in Workers
                /\ InitFails(p) \/ Heartbeat(p) \/ RetryTransient(p) \/ MarkFailed(p)
      PROVE  \/ UNCHANGED unsaved
             \/ run[p].job \in Jobs /\ DbMayFail /\ unsaved' = unsaved \union {run[p].job}
  <2>1. run[p].job \in Jobs
    BY <1>7 DEF Finalize, InitFails, Heartbeat, RetryTransient, MarkFailed, At, JInv,
                TypeOK, Run
  <2> QED BY <1>7, <2>1, <1>3 DEF Finalize, InitFails, Heartbeat, RetryTransient, MarkFailed
<1> QED
  BY <1>1, <1>2, <1>4, <1>5, <1>6, <1>7
  DEF Next, Runners, StartGeneration, ApproveOrClarify, RetryDeadLetterJob, vars, ReadHistory,
      TakeTask, ConnectFails, ReadJob, ReadFails, TellFailure, PushToDlq, StopWorker,
      RunGraph, GraphRaises, Announce, StopApi

\* The other variables keep their types.
LEMMA NextOthersTyped ==
  ASSUME JInv, Next
  PROVE  /\ posted' \in SUBSET Jobs
         /\ queue' \in [Jobs -> 0..MaxQueue]
         /\ answer' \in [Requests -> Answer \union {None}]
         /\ kept' \in [Jobs -> BOOLEAN \union {None}]
         /\ dlq' \in SUBSET Jobs
         /\ told' \in [Jobs -> SUBSET {"complete", "review", "failed"}]
         /\ unsaved' \in SUBSET Jobs
<1>1. posted' \in SUBSET Jobs
  BY DEF JInv, TypeOK, Next, StartGeneration, DispatchGeneration, ApproveOrClarify,
         RetryDeadLetterJob, vars, StartSession, ResumeWorkflow, ReadHistory, SaveHistory,
         FinishAnswer, TakeTask, ConnectFails, ReadJob, ReadFails, InitFails, Heartbeat, RetryTransient,
         MarkFailed, TellFailure, PushToDlq, StopWorker, RunGraph, GraphRaises, Finalize, Announce, StopApi
<1>2. queue' \in [Jobs -> 0..MaxQueue]
  <2>1. CASE UNCHANGED queue
    BY <2>1 DEF JInv, TypeOK
  <2>2. ASSUME NEW j \in Jobs, queue[j] < MaxQueue, queue' = [queue EXCEPT ![j] = @ + 1]
        PROVE  queue' \in [Jobs -> 0..MaxQueue]
    BY <2>2, JobConstants DEF JInv, TypeOK, JobConstants
  <2>3. ASSUME NEW j \in Jobs, queue[j] > 0, queue' = [queue EXCEPT ![j] = @ - 1]
        PROVE  queue' \in [Jobs -> 0..MaxQueue]
    BY <2>3, JobConstants DEF JInv, TypeOK, JobConstants
  <2> QED
    BY <2>1, <2>2, <2>3
    DEF Next, StartGeneration, DispatchGeneration, ApproveOrClarify,
        RetryDeadLetterJob, vars, StartSession, ResumeWorkflow, ReadHistory, SaveHistory,
        FinishAnswer, TakeTask, ConnectFails, ReadJob, ReadFails, InitFails, Heartbeat, RetryTransient,
        MarkFailed, TellFailure, PushToDlq, StopWorker, RunGraph, GraphRaises, Finalize, Announce, StopApi
<1>3. answer' \in [Requests -> Answer \union {None}]
  <2>1. CASE UNCHANGED answer
    BY <2>1 DEF JInv, TypeOK
  <2>2. ASSUME NEW r \in Requests, NEW j \in Jobs, ReadHistory(r, j)
        PROVE  answer' \in [Requests -> Answer \union {None}]
    <3>1. job[j].meta \in Meta
      BY <2>2 DEF ReadHistory, JInv, TypeOK, Row
    <3>2. [job[j].meta EXCEPT !.said = @ \union {r}] \in Meta
      BY <3>1 DEF Meta
    <3> QED BY <2>2, <3>2 DEF ReadHistory, JInv, TypeOK, Answer
  <2>3. ASSUME NEW r \in Requests, SaveHistory(r) \/ FinishAnswer(r)
        PROVE  answer' \in [Requests -> Answer \union {None}]
    <3>1. PICK at \in {"agent", "done"} : answer' = [answer EXCEPT ![r].at = at]
      BY <2>3 DEF SaveHistory, FinishAnswer
    <3>2. answer[r] \in Answer
      BY <2>3 DEF SaveHistory, FinishAnswer, JInv, TypeOK
    <3>3. [answer[r] EXCEPT !.at = at] \in Answer
      BY <3>2 DEF Answer
    <3> QED BY <3>1, <3>3 DEF JInv, TypeOK
  <2>4. CASE StopApi
    BY <2>4 DEF StopApi, JInv, TypeOK, Answer
  <2> QED
    BY <2>1, <2>2, <2>3, <2>4
    DEF Next, StartGeneration, DispatchGeneration, ApproveOrClarify,
        RetryDeadLetterJob, vars, StartSession, ResumeWorkflow, TakeTask, ConnectFails, ReadJob, ReadFails,
        InitFails, Heartbeat, RetryTransient, MarkFailed, TellFailure, PushToDlq, StopWorker, RunGraph,
        GraphRaises, Finalize, Announce
<1>4. kept' \in [Jobs -> BOOLEAN \union {None}]
  <2>1. CASE UNCHANGED kept
    BY <2>1 DEF JInv, TypeOK
  <2>2. ASSUME NEW p \in Locals, NEW j \in Jobs, StartSession(p, j)
        PROVE  kept' \in [Jobs -> BOOLEAN \union {None}]
    BY <2>2 DEF StartSession, JInv, TypeOK
  <2>3. ASSUME NEW p \in Runners, RunGraph(p)
        PROVE  kept' \in [Jobs -> BOOLEAN \union {None}]
    <3>1. run[p].job \in Jobs /\ run[p].spec \in BOOLEAN
      BY <2>3 DEF RunGraph, At, JInv, TypeOK, Run
    <3> QED BY <2>3, <3>1 DEF RunGraph, JInv, TypeOK
  <2>4. CASE StopApi
    BY <2>4 DEF StopApi, JInv, TypeOK
  <2> QED
    BY <2>1, <2>2, <2>3, <2>4
    DEF Next, StartGeneration, DispatchGeneration, ApproveOrClarify,
        RetryDeadLetterJob, vars, ResumeWorkflow, ReadHistory, SaveHistory, FinishAnswer,
        TakeTask, ConnectFails, ReadJob, ReadFails, InitFails, Heartbeat, RetryTransient,
        MarkFailed, TellFailure, PushToDlq, StopWorker, GraphRaises, Finalize, Announce
<1>5. dlq' \in SUBSET Jobs /\ told' \in [Jobs -> SUBSET {"complete", "review", "failed"}]
  <2>1. CASE UNCHANGED <<dlq, told>>
    BY <2>1 DEF JInv, TypeOK
  <2>2. ASSUME NEW w \in Workers, TellFailure(w) \/ PushToDlq(w)
        PROVE  dlq' \in SUBSET Jobs /\ told' \in [Jobs -> SUBSET {"complete", "review", "failed"}]
    BY <2>2 DEF TellFailure, PushToDlq, Publish, At, JInv, TypeOK, Runners, Run
  <2>3. ASSUME NEW p \in Runners, Announce(p)
        PROVE  dlq' \in SUBSET Jobs /\ told' \in [Jobs -> SUBSET {"complete", "review", "failed"}]
    <3>1. EventOf(run[p].outcome) \in {"complete", "review", "failed"}
      BY DEF EventOf
    <3> QED BY <2>3, <3>1 DEF Announce, Publish, At, JInv, TypeOK, Run
  <2> QED
    BY <2>1, <2>2, <2>3
    DEF Next, StartGeneration, DispatchGeneration, ApproveOrClarify,
        RetryDeadLetterJob, vars, StartSession, ResumeWorkflow, ReadHistory, SaveHistory,
        FinishAnswer, TakeTask, ConnectFails, ReadJob, ReadFails, InitFails, Heartbeat,
        RetryTransient, MarkFailed, StopWorker, RunGraph, GraphRaises, Finalize, StopApi
<1> QED BY <1>1, <1>2, <1>3, <1>4, <1>5, UnsavedStep

LEMMA NextJInv ==
  ASSUME JInv, [Next]_vars
  PROVE  JInv'
<1>1. CASE Next
  <2>1. RowsStep /\ RunsStep
    BY <1>1, NextRowsStep, NextRunsStep
  <2>2. TypeOK'
    BY <1>1, <2>1, NextOthersTyped DEF TypeOK, RowsStep, RowsTyped, RunsStep, RunsTyped
  <2>3. ASSUME NEW j \in Jobs, job'[j] # None, job'[j].status = "COMPLETED"
        PROVE  job'[j].code \/ job'[j].blank
    <3>1. CASE job'[j] = job[j]
      BY <2>3, <3>1 DEF JInv, CompletedHasCode
    <3>2. CASE \E blank \in BOOLEAN : job'[j] = NewRow(blank)
      BY <2>3, <3>2 DEF NewRow
    <3>3. CASE Earned(job'[j])
      BY <2>3, <3>3 DEF Earned
    <3> QED BY <2>1, <3>1, <3>2, <3>3 DEF RowsStep, RowStep
  <2> QED BY <2>1, <2>2, <2>3 DEF JInv, RunsStep, CompletedHasCode
<1>2. CASE UNCHANGED vars
  BY <1>2 DEF vars, JInv, TypeOK, RunsFit, RunFit, CompletedHasCode
<1> QED BY <1>1, <1>2

\* Every variable keeps its type, whatever fails and whoever stops: in
\* particular no run reaches its finalizer without an outcome to write.
THEOREM TypeCorrect == Spec => []TypeOK
<1>1. JInv => TypeOK
  BY DEF JInv
<1> QED BY InitJInv, NextJInv, <1>1, PTL DEF Spec

\* celery_worker.py and orchestrator.py let any number of tasks, runs and
\* answers write one row: it says COMPLETED only with the files in it, or
\* when the sanitised prompt was blank.
THEOREM CompletedRowsHaveCode == Spec => []CompletedHasCode
<1>1. JInv => CompletedHasCode
  BY DEF JInv
<1> QED BY InitJInv, NextJInv, <1>1, PTL DEF Spec

\* Files once stored are never taken from a row again: every later UPDATE
\* brings files or leaves the column.
THEOREM FilesStay == Spec => CodeIsKept
<1>1. ASSUME JInv, [Next]_vars
      PROVE  [\A j \in Jobs : job[j] # None /\ job[j].code => job'[j].code]_vars
  <2>1. CASE Next
    <3>1. ASSUME NEW j \in Jobs, job[j] # None, job[j].code PROVE job'[j].code
      <4>1. RowStep(j)
        BY <1>1, <2>1, NextRowsStep DEF RowsStep
      <4> QED BY <3>1, <4>1 DEF RowStep
    <3> QED BY <3>1
  <2>2. CASE UNCHANGED vars
    BY <2>2
  <2> QED BY <1>1, <2>1, <2>2
<1> QED BY InitJInv, NextJInv, <1>1, PTL DEF Spec, CodeIsKept
-----------------------------------------------------------------------------
(* Announcements.                                                          *)

Stored(rows, j) == rows[j] # None /\ (rows[j].code \/ rows[j].blank)

\* The row is no longer what the INSERT made.
Marked(rows, j) == rows[j] # None /\ rows[j].status # "pending"

\* Whoever works on a job knows that it has a row, if its INSERT did not fail.
HasRow ==
  /\ \A j \in Jobs : j \in posted \/ queue[j] > 0 => job[j] # None
  /\ \A p \in Runners :
       run[p] # None => job[run[p].job] # None \/ run[p].job \in unsaved

\* A run that is about to announce completion has stored it, and whoever is
\* about to announce or bury anything has marked the row.
Brought ==
  \A p \in Runners :
    At(p, "announce") /\ run[p].outcome = "COMPLETED" => Stored(job, run[p].job)
Ending(stage) == stage \in {"announce", "tell", "bury"}
RunsMarked ==
  \A p \in Runners :
    run[p] # None /\ Ending(run[p].at) =>
      Marked(job, run[p].job) \/ run[p].job \in unsaved

\* Neither a row nor what is stored in it goes away, nor is it "pending" again.
LEMMA StoredStays ==
  ASSUME JInv, RowsStep, NEW j \in Jobs
  PROVE  /\ job[j] # None => job'[j] # None
         /\ Stored(job, j) => Stored(job', j)
         /\ Marked(job, j) => Marked(job', j)
<1>1. RowStep(j)
  BY DEF RowsStep
<1> QED BY <1>1, NoneIsNoRow DEF RowStep, Stored, Marked, NewStatus

\* What the graph does to its run.
LEMMA GraphStep ==
  ASSUME NEW p, RunGraph(p)
  PROVE  \E outcome, spec, code :
           run' = [run EXCEPT ![p].at = "finalize", ![p].outcome = outcome,
                              ![p].spec = spec, ![p].code = code]
BY DEF RunGraph

\* The finalizer writes a row that is stored, if it completes, and marked; or
\* there is none, or its UPDATE fails.
LEMMA FinalizeWrites ==
  ASSUME JInv, HasRow, NEW p \in Runners, Finalize(p)
  PROVE  \/ run[p].job \in unsaved'
         \/ /\ Marked(job', run[p].job)
            /\ run[p].outcome = "COMPLETED" => Stored(job', run[p].job)
<1> DEFINE i == run[p].job
           New(m) == [job[i] EXCEPT !.status = run[p].outcome, !.meta = m,
                                    !.code = @ \/ run[p].code]
<1>1. run[p] \in Run /\ i \in Jobs /\ RunFit(job, run[p]) /\ Ends(run[p])
  BY DEF Finalize, At, JInv, TypeOK, RunsFit, Ends, Run
<1>2. CASE job[i] = None
  <2>1. i \in unsaved
    BY <1>2 DEF HasRow, Finalize, At
  <2>2. unsaved \subseteq unsaved'
    BY DEF Finalize, Write
  <2> QED BY <2>1, <2>2
<1>3. CASE job[i] # None
  <2>1. job[i] \in Row
    BY <1>1, <1>3 DEF JInv, TypeOK
  <2>2. PICK m \in Meta : Write(i, New(m))
    <3>1. [said |-> {}, spec |-> run[p].spec] \in Meta /\ job[i].meta \in Meta
      BY <1>1, <2>1 DEF Run, Meta, Row
    <3> QED BY <3>1 DEF Finalize
  <2>3. CASE job' = [job EXCEPT ![i] = New(m)]
    <3>1. run[p].outcome \in Statuses /\ run[p].outcome # "pending" /\ run[p].code \in BOOLEAN
      BY <1>1 DEF Run, RunFit, Statuses
    <3>2. New(m) \in Row /\ New(m).status # "pending"
      BY <2>1, <3>1 DEF Row
    <3>3. run[p].outcome = "COMPLETED" => New(m).code \/ New(m).blank
      <4>1. run[p].outcome = "COMPLETED" => run[p].code \/ job[i].blank
        BY <1>1 DEF RunFit
      <4> QED BY <2>1, <3>1, <4>1 DEF Row
    <3>4. job'[i] = New(m)
      BY <1>1, <2>3 DEF JInv, TypeOK
    <3> HIDE DEF New
    <3> QED BY <3>2, <3>3, <3>4, NoneIsNoRow DEF Stored, Marked
  <2>4. CASE i \in unsaved'
    BY <2>4
  <2> HIDE DEF New
  <2> QED BY <1>3, <2>2, <2>3, <2>4 DEF Write
<1> QED BY <1>2, <1>3

\* So does the UPDATE of a task that fails.
LEMMA MarkFailedWrites ==
  ASSUME JInv, HasRow, NEW w \in Workers, MarkFailed(w)
  PROVE  \/ run[w].job \in unsaved'
         \/ job'[run[w].job] # None /\ job'[run[w].job].status = "failed"
<1> DEFINE i == run[w].job
<1>1. w \in Runners /\ i \in Jobs
  BY DEF MarkFailed, At, JInv, TypeOK, Run, Runners
<1>2. CASE job[i] = None
  <2>1. i \in unsaved
    BY <1>1, <1>2 DEF HasRow, MarkFailed, At
  <2>2. unsaved \subseteq unsaved'
    BY DEF MarkFailed, Write
  <2> QED BY <2>1, <2>2
<1>3. CASE job[i] # None
  <2>1. job[i] \in Row /\ Write(i, [job[i] EXCEPT !.status = "failed"])
    BY <1>1, <1>3 DEF MarkFailed, JInv, TypeOK
  <2>2. CASE job' = [job EXCEPT ![i] = [job[i] EXCEPT !.status = "failed"]]
    <3>1. job'[i] = [job[i] EXCEPT !.status = "failed"]
      BY <1>1, <2>2 DEF JInv, TypeOK
    <3>2. job'[i] \in Row /\ job'[i].status = "failed"
      BY <2>1, <3>1 DEF Row, Statuses
    <3> QED BY <3>2, NoneIsNoRow
  <2>3. CASE i \in unsaved'
    BY <2>3
  <2> QED BY <1>3, <2>1, <2>2, <2>3 DEF Write
<1> QED BY <1>2, <1>3

\* A process has the job of its run from the start.
Begins(p) == \E j \in Jobs : TakeTask(p, j) \/ StartSession(p, j) \/ ResumeWorkflow(p, j)
LEMMA RunJobStep ==
  ASSUME JInv, Next, NEW p \in Runners, run'[p] # None
  PROVE  (run[p] # None /\ run'[p].job = run[p].job) \/ Begins(p)
<1>1. CASE run'[p] = run[p]
  BY <1>1
<1>2. ASSUME NEW q \in Runners, run[q] # None,
             \/ \E stage \in {"finalize", "announce", "retry", "fail", "tell", "bury"} :
                  MoveTo(q, stage)
             \/ run' = [run EXCEPT ![q] = None]
             \/ ReadJob(q) \/ RunGraph(q)
      PROVE  run'[p] = run[p] \/ (run[p] # None /\ run'[p].job = run[p].job)
  <2>1. CASE p = q
    <3>1. run[p] \in Run
      BY <1>2, <2>1 DEF JInv, TypeOK
    <3>2. ASSUME NEW stage, MoveTo(p, stage) PROVE run'[p].job = run[p].job
      BY <3>1, <3>2 DEF MoveTo, JInv, TypeOK, Run
    <3>3. ASSUME ReadJob(p) PROVE run'[p].job = run[p].job
      BY <3>1, <3>3 DEF ReadJob, JInv, TypeOK, Run
    <3>4. ASSUME RunGraph(p) PROVE run'[p].job = run[p].job
      <4>1. PICK outcome, spec, code :
              run' = [run EXCEPT ![p].at = "finalize", ![p].outcome = outcome,
                                 ![p].spec = spec, ![p].code = code]
        BY <3>4, GraphStep
      <4> QED BY <3>1, <4>1 DEF JInv, TypeOK, Run
    <3>5. CASE run' = [run EXCEPT ![p] = None]
      BY <3>5 DEF JInv, TypeOK
    <3> QED BY <1>2, <2>1, <3>2, <3>3, <3>4, <3>5
  <2>2. CASE p # q
    BY <1>2, <2>2 DEF MoveTo, ReadJob, RunGraph, JInv, TypeOK
  <2> QED BY <2>1, <2>2
<1>3. ASSUME NEW q \in Runners, NEW j \in Jobs,
             TakeTask(q, j) \/ StartSession(q, j) \/ ResumeWorkflow(q, j)
      PROVE  run'[p] = run[p] \/ Begins(p)
  BY <1>3 DEF TakeTask, StartSession, ResumeWorkflow, JInv, TypeOK, Begins
<1>4. CASE StopApi
  BY <1>4 DEF StopApi
<1>5. CASE \E w \in Workers : \/ ReadJob(w) \/ ReadFails(w) \/ InitFails(w)
                              \/ RetryTransient(w) \/ MarkFailed(w) \/ TellFailure(w)
                              \/ PushToDlq(w) \/ StopWorker(w)
  BY <1>1, <1>2, <1>5
  DEF ReadFails, InitFails, RetryTransient, MarkFailed, TellFailure, PushToDlq, StopWorker,
      ReadJob, At, Runners
<1>6. CASE \E q \in Runners : RunGraph(q) \/ GraphRaises(q) \/ Finalize(q) \/ Announce(q)
  BY <1>1, <1>2, <1>6 DEF RunGraph, GraphRaises, Finalize, Announce, At
<1>7. CASE UNCHANGED run
  BY <1>1, <1>7
<1> QED
  BY <1>1, <1>3, <1>4, <1>5, <1>6, <1>7
  DEF Next, Runners, StartGeneration, DispatchGeneration, ApproveOrClarify,
      RetryDeadLetterJob, vars, ReadHistory, SaveHistory, FinishAnswer, ConnectFails, Heartbeat

LEMMA NextHasRow ==
  ASSUME JInv, HasRow, Next, RowsStep
  PROVE  HasRow'
<1>1. ASSUME NEW j \in Jobs, j \in posted' \/ queue'[j] > 0 PROVE job'[j] # None
  <2>1. CASE j \in posted \/ queue[j] > 0
    BY <2>1, StoredStays DEF HasRow
  <2>2. CASE StartGeneration(j)
    BY <2>2, NewRowType, NoneIsNoRow DEF StartGeneration, JInv, TypeOK
  <2>3. CASE ApproveOrClarify(j)
    BY <2>3 DEF ApproveOrClarify
  <2>4. j \in posted \/ queue[j] > 0 \/ StartGeneration(j) \/ ApproveOrClarify(j)
    BY <1>1 DEF JInv, TypeOK, Next, StartGeneration, DispatchGeneration, ApproveOrClarify,
         RetryDeadLetterJob, vars, StartSession, ResumeWorkflow, ReadHistory, SaveHistory,
         FinishAnswer, TakeTask, ConnectFails, ReadJob, ReadFails, InitFails, Heartbeat,
         RetryTransient, MarkFailed, TellFailure, PushToDlq, StopWorker, RunGraph,
         GraphRaises, Finalize, Announce, StopApi
  <2> QED BY <2>1, <2>2, <2>3, <2>4
<1>2. ASSUME NEW p \in Runners, run'[p] # None
      PROVE  job'[run'[p].job] # None \/ run'[p].job \in unsaved'
  <2>1. CASE run[p] # None /\ run'[p].job = run[p].job
    BY <2>1, StoredStays, UnsavedStep DEF HasRow, JInv, TypeOK, Run
  <2>2. ASSUME NEW j \in Jobs, TakeTask(p, j) PROVE job'[run'[p].job] # None
    BY <2>2, StoredStays DEF TakeTask, HasRow, NewRun, JInv, TypeOK
  <2>3. ASSUME NEW j \in Jobs, StartSession(p, j)
        PROVE  job'[run'[p].job] # None \/ run'[p].job \in unsaved'
    <3>1. job'[j] # None \/ j \in unsaved'
      BY <2>3, StoredStays, NewRowType, NoneIsNoRow DEF StartSession, JInv, TypeOK
    <3> QED BY <2>3, <3>1 DEF StartSession, NewRun, JInv, TypeOK
  <2>4. ASSUME NEW j \in Jobs, ResumeWorkflow(p, j)
        PROVE  job'[run'[p].job] # None \/ run'[p].job \in unsaved'
    BY <1>2, <2>4, <2>1, StoredStays DEF ResumeWorkflow, NewRun, JInv, TypeOK
  <2> QED BY <1>2, <2>1, <2>2, <2>3, <2>4, RunJobStep DEF Begins
<1> QED BY <1>1, <1>2 DEF HasRow

\* A process comes to the stages in which it announces and buries by these
\* steps only.
LEMMA EndStep ==
  ASSUME JInv, Next, NEW p \in Runners, run'[p] # None, Ending(run'[p].at)
  PROVE  \/ run'[p] = run[p]
         \/ Finalize(p) /\ run'[p] = [run[p] EXCEPT !.at = "announce"]
         \/ /\ p \in Workers
            /\ InitFails(p) \/ MarkFailed(p)
            /\ run'[p] = [run[p] EXCEPT !.at = "tell"]
         \/ p \in Workers /\ TellFailure(p) /\ run'[p] = [run[p] EXCEPT !.at = "bury"]
<1>1. ASSUME NEW q \in Runners, run[q] # None, q # p,
             \/ \E stage \in {"announce", "retry", "fail", "tell", "bury"} : MoveTo(q, stage)
             \/ run' = [run EXCEPT ![q] = None]
             \/ ReadJob(q) \/ RunGraph(q)
      PROVE  run'[p] = run[p]
  BY <1>1 DEF MoveTo, ReadJob, RunGraph, JInv, TypeOK
<1>2. ASSUME run[p] # None,
             \/ \E stage \in {"retry", "fail"} : MoveTo(p, stage)
             \/ run' = [run EXCEPT ![p] = None]
             \/ ReadJob(p) \/ RunGraph(p)
      PROVE  FALSE
  <2>1. run[p] \in Run
    BY <1>2 DEF JInv, TypeOK
  <2>2. ASSUME NEW stage \in {"retry", "fail"}, MoveTo(p, stage) PROVE FALSE
    BY <2>1, <2>2 DEF MoveTo, JInv, TypeOK, Run, Ending
  <2>3. ASSUME ReadJob(p) PROVE FALSE
    BY <2>1, <2>3 DEF ReadJob, JInv, TypeOK, Run, Ending
  <2>4. ASSUME RunGraph(p) PROVE FALSE
    <3>1. PICK outcome, spec, code :
            run' = [run EXCEPT ![p].at = "finalize", ![p].outcome = outcome,
                               ![p].spec = spec, ![p].code = code]
      BY <2>4, GraphStep
    <3> QED BY <2>1, <3>1 DEF JInv, TypeOK, Run, Ending
  <2>5. CASE run' = [run EXCEPT ![p] = None]
    BY <2>5 DEF JInv, TypeOK
  <2> QED BY <1>2, <2>2, <2>3, <2>4, <2>5
<1>3. ASSUME run[p] # None, NEW stage, MoveTo(p, stage)
      PROVE  run'[p] = [run[p] EXCEPT !.at = stage]
  BY <1>3 DEF MoveTo, JInv, TypeOK
<1>4. ASSUME NEW q \in Runners, NEW j \in Jobs,
             TakeTask(q, j) \/ StartSession(q, j) \/ ResumeWorkflow(q, j)
      PROVE  run'[p] = run[p]
  BY <1>4 DEF TakeTask, StartSession, ResumeWorkflow, NewRun, JInv, TypeOK, Ending
<1>5. CASE StopApi
  BY <1>5 DEF StopApi
<1>6. ASSUME NEW w \in Workers,
             \/ ReadJob(w) \/ ReadFails(w) \/ InitFails(w) \/ RetryTransient(w)
             \/ MarkFailed(w) \/ TellFailure(w) \/ PushToDlq(w) \/ StopWorker(w)
      PROVE  \/ run'[p] = run[p]
             \/ /\ p \in Workers
                /\ InitFails(p) \/ MarkFailed(p)
                /\ run'[p] = [run[p] EXCEPT !.at = "tell"]
             \/ p \in Workers /\ TellFailure(p) /\ run'[p] = [run[p] EXCEPT !.at = "bury"]
  <2>1. w \in Runners /\ run[w] # None
    BY <1>6 DEF Runners, ReadJob, ReadFails, InitFails, RetryTransient, MarkFailed,
                TellFailure, PushToDlq, StopWorker, At
  <2>2. CASE w # p
    BY <1>1, <1>6, <2>1, <2>2
    DEF ReadFails, InitFails, RetryTransient, MarkFailed, TellFailure, PushToDlq, StopWorker
  <2>3. CASE w = p
    <3>1. \/ InitFails(p) \/ MarkFailed(p)
          \/ TellFailure(p)
      BY <1>2, <1>6, <2>1, <2>3
      DEF ReadFails, RetryTransient, PushToDlq, StopWorker
    <3> QED BY <1>3, <2>1, <2>3, <3>1 DEF InitFails, MarkFailed, TellFailure
  <2> QED BY <2>2, <2>3
<1>7. ASSUME NEW q \in Runners, RunGraph(q) \/ GraphRaises(q) \/ Finalize(q) \/ Announce(q)
      PROVE  \/ run'[p] = run[p]
             \/ Finalize(p) /\ run'[p] = [run[p] EXCEPT !.at = "announce"]
  <2>1. run[q] # None
    BY <1>7 DEF RunGraph, GraphRaises, Finalize, Announce, At
  <2>2. CASE q # p
    BY <1>1, <1>7, <2>1, <2>2 DEF GraphRaises, Finalize, Announce
  <2>3. CASE q = p
    <3>1. Finalize(p)
      BY <1>2, <1>7, <2>1, <2>3 DEF GraphRaises, Announce
    <3> QED BY <1>3, <2>1, <2>3, <3>1 DEF Finalize
  <2> QED BY <2>2, <2>3
<1>8. CASE UNCHANGED run
  BY <1>8
<1> QED
  BY <1>4, <1>5, <1>6, <1>7, <1>8
  DEF Next, Runners, StartGeneration, DispatchGeneration, ApproveOrClarify,
      RetryDeadLetterJob, vars, ReadHistory, SaveHistory, FinishAnswer, ConnectFails, Heartbeat

LEMMA NextBrought ==
  ASSUME JInv, HasRow, Brought, ~DbMayFail, unsaved = {}, Next, RowsStep
  PROVE  Brought'
<1> SUFFICES ASSUME NEW p \in Runners, run'[p] # None, run'[p].at = "announce",
                    run'[p].outcome = "COMPLETED"
             PROVE  Stored(job', run'[p].job)
  BY DEF Brought, At, Stored
<1>1. CASE run'[p] = run[p]
  <2>1. Stored(job, run[p].job) /\ run[p].job \in Jobs
    BY <1>1 DEF Brought, At, JInv, TypeOK, Run
  <2> QED BY <1>1, <2>1, StoredStays DEF Stored
<1>2. CASE Finalize(p) /\ run'[p] = [run[p] EXCEPT !.at = "announce"]
  <2>1. run[p] \in Run
    BY <1>2 DEF Finalize, At, JInv, TypeOK
  <2>2. run'[p].job = run[p].job /\ run'[p].outcome = run[p].outcome
    BY <1>2, <2>1 DEF Run
  <2> QED BY <1>2, <2>2, FinalizeWrites, UnsavedStep DEF Stored
<1>3. ASSUME run[p] # None, NEW stage \in {"tell", "bury"},
             run'[p] = [run[p] EXCEPT !.at = stage]
      PROVE  FALSE
  BY <1>3 DEF JInv, TypeOK, Run
<1> QED BY <1>1, <1>2, <1>3, EndStep DEF Ending, InitFails, MarkFailed, TellFailure, At

LEMMA NextMarked ==
  ASSUME JInv, HasRow, RunsMarked, Next, RowsStep
  PROVE  RunsMarked'
<1> SUFFICES ASSUME NEW p \in Runners, run'[p] # None, Ending(run'[p].at)
             PROVE  Marked(job', run'[p].job) \/ run'[p].job \in unsaved'
  BY DEF RunsMarked, Marked, Ending
<1>1. unsaved \subseteq unsaved'
  BY UnsavedStep
<1>2. ASSUME run[p] # None, run[p].job \in Jobs, run'[p].job = run[p].job, Ending(run[p].at)
      PROVE  Marked(job', run'[p].job) \/ run'[p].job \in unsaved'
  BY <1>1, <1>2, StoredStays DEF RunsMarked
<1>3. ASSUME run[p] # None, NEW stage, run'[p] = [run[p] EXCEPT !.at = stage]
      PROVE  run'[p].job = run[p].job /\ run[p].job \in Jobs
  BY <1>3 DEF JInv, TypeOK, Run
<1>4. CASE run'[p] = run[p]
  <2>1. run[p].job \in Jobs
    BY <1>4 DEF JInv, TypeOK, Run
  <2> QED BY <1>2, <1>4, <2>1
<1>5. CASE Finalize(p) /\ run'[p] = [run[p] EXCEPT !.at = "announce"]
  BY <1>3, <1>5, FinalizeWrites DEF Finalize, At
<1>6. CASE p \in Workers /\ InitFails(p) /\ run'[p] = [run[p] EXCEPT !.at = "tell"]
  BY <1>3, <1>6 DEF InitFails, At
<1>7. CASE p \in Workers /\ MarkFailed(p) /\ run'[p] = [run[p] EXCEPT !.at = "tell"]
  BY <1>3, <1>7, MarkFailedWrites DEF MarkFailed, At, Marked
<1>8. CASE p \in Workers /\ TellFailure(p) /\ run'[p] = [run[p] EXCEPT !.at = "bury"]
  BY <1>2, <1>3, <1>8 DEF TellFailure, At, Ending
<1>9. \/ run'[p] = run[p]
      \/ Finalize(p) /\ run'[p] = [run[p] EXCEPT !.at = "announce"]
      \/ /\ p \in Workers
         /\ InitFails(p) \/ MarkFailed(p)
         /\ run'[p] = [run[p] EXCEPT !.at = "tell"]
      \/ p \in Workers /\ TellFailure(p) /\ run'[p] = [run[p] EXCEPT !.at = "bury"]
  BY EndStep
<1> QED BY <1>4, <1>5, <1>6, <1>7, <1>8, <1>9

\* Who makes an event or an entry.
LEMMA ToldStep ==
  ASSUME JInv, Next, NEW j \in Jobs
  PROVE  /\ told'[j] # told[j] =>
              \E p \in Runners :
                /\ run[p] # None /\ Ending(run[p].at) /\ run[p].job = j
                /\ \/ Announce(p) /\ told'[j] = told[j] \union {EventOf(run[p].outcome)}
                   \/ told'[j] = told[j] \union {"failed"}
         /\ j \in dlq' \ dlq =>
              \E p \in Runners : run[p] # None /\ Ending(run[p].at) /\ run[p].job = j
<1>1. CASE UNCHANGED <<told, dlq>>
  BY <1>1
<1>2. ASSUME NEW p \in Runners, Announce(p)
      PROVE  /\ dlq' = dlq /\ run[p] # None /\ Ending(run[p].at)
             /\ told'[j] # told[j] =>
                  run[p].job = j /\ told'[j] = told[j] \union {EventOf(run[p].outcome)}
  BY <1>2 DEF Announce, Publish, At, Ending, JInv, TypeOK
<1>3. ASSUME NEW w \in Workers, TellFailure(w)
      PROVE  /\ dlq' = dlq /\ run[w] # None /\ Ending(run[w].at) /\ w \in Runners
             /\ told'[j] # told[j] => run[w].job = j /\ told'[j] = told[j] \union {"failed"}
  BY <1>3 DEF TellFailure, Publish, At, Ending, JInv, TypeOK, Runners
<1>4. ASSUME NEW w \in Workers, PushToDlq(w)
      PROVE  /\ told' = told /\ run[w] # None /\ Ending(run[w].at) /\ w \in Runners
             /\ j \in dlq' \ dlq => run[w].job = j
  BY <1>4 DEF PushToDlq, At, Ending, Runners
<1> QED
  BY <1>1, <1>2, <1>3, <1>4
  DEF Next, StartGeneration, DispatchGeneration, ApproveOrClarify,
      RetryDeadLetterJob, vars, StartSession, ResumeWorkflow, ReadHistory, SaveHistory,
      FinishAnswer, TakeTask, ConnectFails, ReadJob, ReadFails, InitFails, Heartbeat,
      RetryTransient, MarkFailed, StopWorker, RunGraph, GraphRaises, Finalize, StopApi

LEMMA NextAnnounced ==
  ASSUME JInv, Brought, AnnouncedIsStored, Next, RowsStep
  PROVE  AnnouncedIsStored'
<1> SUFFICES ASSUME NEW j \in Jobs, "complete" \in told'[j]
             PROVE  job'[j] # None /\ (job'[j].code \/ job'[j].blank)
  BY DEF AnnouncedIsStored
<1>1. CASE "complete" \in told[j]
  <2>1. Stored(job, j)
    BY <1>1 DEF AnnouncedIsStored, Stored
  <2> QED BY <2>1, StoredStays DEF Stored
<1>2. CASE "complete" \notin told[j]
  <2>1. PICK p \in Runners :
          /\ run[p] # None /\ run[p].job = j
          /\ \/ Announce(p) /\ told'[j] = told[j] \union {EventOf(run[p].outcome)}
             \/ told'[j] = told[j] \union {"failed"}
    BY <1>2, ToldStep
  <2>2. Announce(p) /\ EventOf(run[p].outcome) = "complete"
    BY <1>2, <2>1
  <2>3. run[p].outcome = "COMPLETED"
    BY <2>2 DEF EventOf
  <2>4. Stored(job, j)
    BY <2>1, <2>2, <2>3 DEF Brought, Announce
  <2> QED BY <2>4, StoredStays DEF Stored
<1> QED BY <1>1, <1>2

\* With a database that answers, whoever hears that a job is complete and
\* reads its row finds the files, whatever else is running for the job and
\* whichever processes stop.
THEOREM AnnouncementsStored ==
  ASSUME ~DbMayFail
  PROVE  Spec => []AnnouncedIsStored
<1> DEFINE SInv == JInv /\ HasRow /\ unsaved = {} /\ Brought /\ AnnouncedIsStored
<1>1. Init => SInv
  BY InitJInv DEF Init, HasRow, Brought, At, AnnouncedIsStored
<1>2. ASSUME SInv, [Next]_vars PROVE SInv'
  <2>1. CASE Next
    <3>1. RowsStep
      BY <1>2, <2>1, NextRowsStep
    <3>2. unsaved' = {}
      BY <1>2, <2>1, UnsavedStep
    <3> QED BY <1>2, <2>1, <3>1, <3>2, NextJInv, NextHasRow, NextBrought, NextAnnounced
  <2>2. CASE UNCHANGED vars
    <3>1. JInv'
      BY <1>2, <2>2, NextJInv
    <3>2. HasRow' /\ Brought' /\ AnnouncedIsStored' /\ unsaved' = {}
      BY <1>2, <2>2 DEF HasRow, Brought, At, Stored, AnnouncedIsStored, vars
    <3> QED BY <3>1, <3>2
  <2> QED BY <1>2, <2>1, <2>2
<1>3. SInv => AnnouncedIsStored
  OBVIOUS
<1> HIDE DEF SInv
<1> QED BY <1>1, <1>2, <1>3, PTL DEF Spec

\* celery_worker.py:541-560 and orchestrator.py:1066-1093 write the row before
\* they announce or bury: wherever a stop or an exception cuts the three
\* calls, no end is heard of a job whose row is as it was inserted, but for
\* the jobs of which a statement failed.
THEOREM EndsAreMarked == Spec => []EndedIsMarked
<1> DEFINE EInv == JInv /\ HasRow /\ RunsMarked /\ EndedIsMarked
<1>1. Init => EInv
  BY InitJInv DEF Init, HasRow, RunsMarked, EndedIsMarked
<1>2. ASSUME EInv, [Next]_vars PROVE EInv'
  <2>1. CASE Next
    <3>1. RowsStep /\ unsaved \subseteq unsaved'
      BY <1>2, <2>1, NextRowsStep, UnsavedStep
    <3>2. ASSUME NEW j \in Jobs \ unsaved', told'[j] # {} \/ j \in dlq'
          PROVE  job'[j] # None /\ job'[j].status # "pending"
      <4>1. Marked(job, j)
        <5>1. CASE told[j] # {} \/ j \in dlq
          BY <1>2, <3>1, <3>2, <5>1 DEF EndedIsMarked, Marked
        <5>2. CASE told[j] = {} /\ j \notin dlq
          <6>1. PICK p \in Runners : run[p] # None /\ Ending(run[p].at) /\ run[p].job = j
            BY <1>2, <2>1, <3>2, <5>2, ToldStep
          <6> QED BY <1>2, <3>1, <3>2, <6>1 DEF RunsMarked
        <5> QED BY <5>1, <5>2
      <4> QED BY <1>2, <3>1, <4>1, StoredStays DEF Marked
    <3>3. EndedIsMarked'
      BY <3>2 DEF EndedIsMarked
    <3> QED BY <1>2, <2>1, <3>1, <3>3, NextJInv, NextHasRow, NextMarked
  <2>2. CASE UNCHANGED vars
    <3>1. JInv'
      BY <1>2, <2>2, NextJInv
    <3>2. HasRow' /\ RunsMarked' /\ EndedIsMarked'
      BY <1>2, <2>2 DEF HasRow, RunsMarked, Marked, Ending, EndedIsMarked, vars
    <3> QED BY <3>1, <3>2
  <2> QED BY <1>2, <2>1, <2>2
<1>3. EInv => EndedIsMarked
  OBVIOUS
<1> HIDE DEF EInv
<1> QED BY <1>1, <1>2, <1>3, PTL DEF Spec

\* A task leaves the stage in which it marks its job failed by doing so, or
\* with its worker.
LEMMA FailStays ==
  ASSUME JInv, Next, NEW w \in Workers, At(w, "fail"), ~MarkFailed(w),
         "worker" \notin MayStop
  PROVE  run'[w] = run[w]
<1>1. w \in Runners /\ w \notin Locals
  BY JobConstants DEF JobConstants, Runners
<1>2. ASSUME NEW q \in Runners, q # w,
             \/ \E stage \in {"announce", "retry", "fail", "tell", "bury"} : MoveTo(q, stage)
             \/ run' = [run EXCEPT ![q] = None]
             \/ ReadJob(q) \/ RunGraph(q)
             \/ \E j \in Jobs : TakeTask(q, j) \/ StartSession(q, j) \/ ResumeWorkflow(q, j)
      PROVE  run'[w] = run[w]
  BY <1>1, <1>2 DEF MoveTo, ReadJob, RunGraph, TakeTask, StartSession, ResumeWorkflow, JInv,
                    TypeOK
<1>3. ASSUME NEW q \in Workers,
             \/ ReadJob(q) \/ ReadFails(q) \/ InitFails(q) \/ RetryTransient(q)
             \/ MarkFailed(q) \/ TellFailure(q) \/ PushToDlq(q)
             \/ \E j \in Jobs : TakeTask(q, j)
      PROVE  run'[w] = run[w]
  <2>1. q # w
    BY <1>3 DEF At, ReadJob, ReadFails, InitFails, RetryTransient, TellFailure, PushToDlq,
                TakeTask
  <2> QED BY <1>2, <1>3, <2>1
          DEF ReadFails, InitFails, RetryTransient, MarkFailed, TellFailure, PushToDlq, Runners
<1>4. ASSUME NEW q \in Runners, RunGraph(q) \/ GraphRaises(q) \/ Finalize(q) \/ Announce(q)
      PROVE  run'[w] = run[w]
  <2>1. q # w
    BY <1>4 DEF At, RunGraph, GraphRaises, Finalize, Announce
  <2> QED BY <1>2, <1>4, <2>1 DEF GraphRaises, Finalize, Announce
<1>5. ASSUME NEW q \in Locals, NEW j \in Jobs, StartSession(q, j) \/ ResumeWorkflow(q, j)
      PROVE  run'[w] = run[w]
  BY <1>1, <1>2, <1>5 DEF Runners
<1>6. CASE StopApi
  BY <1>1, <1>6 DEF StopApi
<1>7. CASE UNCHANGED run
  BY <1>7
<1> QED
  BY <1>3, <1>4, <1>5, <1>6, <1>7
  DEF Next, StopWorker, StartGeneration, DispatchGeneration, ApproveOrClarify,
      RetryDeadLetterJob, vars, ReadHistory, SaveHistory, FinishAnswer, ConnectFails, Heartbeat

\* While the database answers and no worker is stopped, celery_worker.py:518
\* leaves no row "running": the task that wrote it is still to mark it failed.
THEOREM RunningOwned ==
  ASSUME ~DbMayFail, "worker" \notin MayStop
  PROVE  Spec => []RunningIsOwned
<1> DEFINE OInv == JInv /\ HasRow /\ unsaved = {} /\ RunningIsOwned
<1>1. Init => OInv
  BY InitJInv DEF Init, HasRow, RunningIsOwned
<1>2. ASSUME OInv, [Next]_vars PROVE OInv'
  <2>1. CASE Next
    <3>1. RowsStep /\ unsaved' = {}
      BY <1>2, <2>1, NextRowsStep, UnsavedStep
    <3>2. ASSUME NEW j \in Jobs, job'[j] # None, job'[j].status = "running"
          PROVE  \E w \in Workers : run'[w] # None /\ run'[w].at = "fail" /\ run'[w].job = j
      <4>1. CASE Retried(j)
        <5>1. PICK w \in Workers : RetryTransient(w) /\ run[w].job = j
          BY <4>1 DEF Retried
        <5>2. w \in Runners /\ run[w] \in Run /\ run'[w] = [run[w] EXCEPT !.at = "fail"]
          BY <1>2, <5>1 DEF RetryTransient, At, MoveTo, JInv, TypeOK, Runners
        <5>3. run'[w] \in Run /\ run'[w].at = "fail" /\ run'[w].job = j
          BY <5>1, <5>2 DEF Run
        <5>4. run'[w] # None
          BY <5>3, NoneIsNoRun
        <5> QED BY <5>3, <5>4
      <4>2. CASE ~Retried(j)
        <5>1. job[j] # None /\ job[j].status = "running"
          <6>1. RowStep(j)
            BY <3>1 DEF RowsStep
          <6>2. ASSUME NEW blank \in BOOLEAN, job'[j] = NewRow(blank) PROVE FALSE
            BY <3>2, <6>2 DEF NewRow
          <6>3. CASE job'[j] = job[j]
            BY <3>2, <6>3
          <6>4. CASE job[j] # None /\ NewStatus(j, job[j].status, job'[j].status)
            BY <3>2, <4>2, <6>4 DEF NewStatus
          <6> QED BY <6>1, <6>2, <6>3, <6>4 DEF RowStep
        <5>2. PICK w \in Workers : At(w, "fail") /\ run[w].job = j
          BY <1>2, <5>1 DEF RunningIsOwned
        <5>3. ~MarkFailed(w)
          BY <1>2, <3>1, <3>2, <5>2, MarkFailedWrites
        <5>4. run'[w] = run[w]
          BY <1>2, <2>1, <5>2, <5>3, FailStays
        <5> QED BY <5>2, <5>4 DEF At
      <4> QED BY <4>1, <4>2
    <3>3. RunningIsOwned'
      BY <3>2 DEF RunningIsOwned, At
    <3> QED BY <1>2, <2>1, <3>1, <3>3, NextJInv, NextHasRow
  <2>2. CASE UNCHANGED vars
    <3>1. JInv'
      BY <1>2, <2>2, NextJInv
    <3>2. HasRow' /\ unsaved' = {} /\ RunningIsOwned'
      BY <1>2, <2>2 DEF HasRow, RunningIsOwned, At, vars
    <3> QED BY <3>1, <3>2
  <2> QED BY <1>2, <2>1, <2>2
<1>3. OInv => RunningIsOwned
  OBVIOUS
<1> HIDE DEF OInv
<1> QED BY <1>1, <1>2, <1>3, PTL DEF Spec
=============================================================================
