--------------------------- MODULE VideoCheckpoints ---------------------------
(***************************************************************************)
(* Videos rendered segment by segment: the runner submits a segment to the *)
(* provider, which charges for it, polls it, and records its progress in   *)
(* the checkpoint of the task's row in transactions of their own           *)
(* (video_core/source_backend.py, video_workbench.py).  A service that     *)
(* restarts decides from that checkpoint alone whether a running task is   *)
(* resumed, blocked or failed (server.py _resume_pending_tasks), and the   *)
(* user resumes a failed or cancelled task as a child task.                *)
(*                                                                         *)
(* Two runners share _submit_and_poll: ecommerce_short_video stops at the  *)
(* first segment that fails and hands the provider task of a restart to    *)
(* the first segment it has to make; the digital-human pipeline of         *)
(* create_video goes on after a failure and hands it to every segment.     *)
(***************************************************************************)
EXTENDS Integers, Sequences

CONSTANTS
  Kinds,       \* runners: "ecommerce", "digital_human"
  N,           \* a video has segments 1..N
  MaxRows,     \* bound: tasks; 1 is the first one, each of the others resumes an earlier one
  Attempts,    \* video_submit_retries: submissions tried while the provider's queue is full
  MaxRestarts, \* bound: restarts of the service
  MaxJobs      \* bound: tasks the provider accepts

ASSUME VideoConstants ==
  /\ Kinds \subseteq {"ecommerce", "digital_human"}
  /\ N \in Nat \ {0} /\ MaxRows \in Nat \ {0} /\ Attempts \in Nat \ {0}
  /\ MaxRestarts \in Nat /\ MaxJobs \in Nat

VARIABLES
  task,      \* rows of tasks: payload (resume, have), checkpoint (stage, pid, done), output (out)
  run,       \* the worker of each row
  job,       \* the provider's tasks, in the order it accepted them; 0 is no task
  wiped,     \* rows whose files were deleted
  restarts

vars == <<task, run, job, wiped, restarts>>

Rows == 1..MaxRows
Segments == 1..N
\* The video of a segment: the provider task it was rendered by, and the row whose
\* directory holds the file.
NoFile == [job |-> 0, home |-> 0]
Empty == [s \in Segments |-> NoFile]

NoRow == [status |-> "none", kind |-> "ecommerce", parent |-> 0, resume |-> 0, have |-> Empty,
          stage |-> "none", pid |-> 0, done |-> Empty, out |-> Empty]
Idle == [pc |-> "idle", seg |-> 0, resume |-> 0, attempt |-> 0, id |-> 0, made |-> Empty]

Init ==
  /\ task = [r \in Rows |-> NoRow]
  /\ run = [r \in Rows |-> Idle]
  /\ job = <<>>
  /\ wiped = {}
  /\ restarts = 0

At(r, pc) == run[r].pc = pc
Go(r, pc) == run' = [run EXCEPT ![r].pc = pc]
Raise(r) == run' = [run EXCEPT ![r] = [Idle EXCEPT !.pc = "raised"]]
Cancelled(r) == task[r].status = "cancelled"
Exists(f) == f # NoFile /\ f.home \notin wiped
\* persist_checkpoint: the changes are merged into the row's checkpoint; it does
\* not look at the row's status.
Checkpoint(r, stage) == task' = [task EXCEPT ![r].stage = stage]
NextSegment(w) == [w EXCEPT !.pc = "segment", !.seg = @ + 1, !.attempt = 0, !.id = 0]
\* An exception of _submit_and_poll: it ends the short video, and the segment of
\* the digital human.
Broken(w, kind) == IF kind = "ecommerce" THEN [Idle EXCEPT !.pc = "raised"] ELSE NextSegment(w)
\* A segment the provider reports as failed: the short video returns what it has.
Lost(w, kind) == IF kind = "ecommerce" THEN [Idle EXCEPT !.pc = "returned", !.made = w.made] ELSE NextSegment(w)

-----------------------------------------------------------------------------
(* Requests *)

Enqueue(kind) ==
  /\ task[1].status = "none"
  /\ task' = [task EXCEPT ![1] = [NoRow EXCEPT !.status = "queued", !.kind = kind]]
  /\ UNCHANGED <<run, job, wiped, restarts>>

\* task_resume_endpoint and _enqueue_video_child: the child takes over the input of
\* its parent, the provider task a restart left there included, and the completed
\* segments of the parent's output.
Resume(r, c) ==
  /\ task[r].status \in {"failed", "cancelled"}
  /\ task[c].status = "none" /\ \A d \in 1..(c - 1) : task[d].status # "none"
  /\ task' = [task EXCEPT ![c] = [NoRow EXCEPT !.status = "queued", !.kind = task[r].kind, !.parent = r,
                                               !.resume = task[r].resume, !.have = task[r].out]]
  /\ UNCHANGED <<run, job, wiped, restarts>>

Cancel(r) ==
  /\ task[r].status \in {"queued", "running"}
  /\ task' = [task EXCEPT ![r].status = "cancelled"]
  /\ UNCHANGED <<run, job, wiped, restarts>>

-----------------------------------------------------------------------------
(* The worker *)

\* A completed segment counts while its file is there.
Start(r) ==
  /\ task[r].status = "queued" /\ At(r, "idle")
  /\ task' = [task EXCEPT ![r].status = "running"]
  /\ run' = [run EXCEPT ![r] = [Idle EXCEPT !.pc = "segment", !.seg = 1, !.resume = task[r].resume,
       !.made = [s \in Segments |-> IF Exists(task[r].have[s]) THEN task[r].have[s] ELSE NoFile]]]
  /\ UNCHANGED <<job, wiped, restarts>>

\* The segment takes the provider task of a restart, if there is one for it.
TakeResume(w, kind) ==
  [w EXCEPT !.pc = "register", !.id = w.resume, !.resume = IF kind = "ecommerce" THEN 0 ELSE @]
\* The head of the loop over the segments.
Segment(r) ==
  LET w == run[r] IN
  /\ At(r, "segment")
  /\ run' = [run EXCEPT ![r] =
       CASE Cancelled(r) -> [Idle EXCEPT !.pc = "raised"]
         [] ~Cancelled(r) /\ w.seg > N -> [Idle EXCEPT !.pc = "returned", !.made = w.made]
         [] ~Cancelled(r) /\ w.seg <= N /\ w.made[w.seg] # NoFile -> [w EXCEPT !.seg = @ + 1]
         [] OTHER -> IF w.resume # 0 THEN TakeResume(w, task[r].kind)
                     ELSE [w EXCEPT !.pc = "submit", !.attempt = 1]]
  /\ UNCHANGED <<task, job, wiped, restarts>>

\* _submit_and_poll: the checkpoint says that a submission is in flight ...
Submit(r) ==
  /\ At(r, "submit")
  /\ IF Cancelled(r) THEN Raise(r) /\ UNCHANGED task
                     ELSE Go(r, "post") /\ Checkpoint(r, "provider_submitting")
  /\ UNCHANGED <<job, wiped, restarts>>
\* ... the provider accepts it; the answer may be lost ...
Post(r, answered) ==
  LET w == run[r] IN
  /\ At(r, "post") /\ Len(job) < MaxJobs
  /\ job' = Append(job, [row |-> r, seg |-> w.seg, state |-> "running"])
  /\ run' = [run EXCEPT ![r] = IF answered THEN [w EXCEPT !.pc = "register", !.id = Len(job'), !.attempt = 0] ELSE Broken(w, task[r].kind)]
  /\ UNCHANGED <<task, wiped, restarts>>
\* ... or its queue is full and the submission is tried again, or it is refused.
Refused(r) ==
  LET w == run[r] IN
  /\ At(r, "post")
  /\ run' = [run EXCEPT ![r] = Broken(w, task[r].kind)]
  /\ UNCHANGED <<task, job, wiped, restarts>>
QueueFull(r) ==
  LET w == run[r] IN
  /\ At(r, "post") /\ w.attempt < Attempts
  /\ run' = [run EXCEPT ![r] = [w EXCEPT !.pc = "submit", !.attempt = @ + 1]]
  /\ UNCHANGED <<task, job, wiped, restarts>>

\* register_runninghub_task and the checkpoint after it are two transactions.
Register(r) ==
  /\ At(r, "register")
  /\ task' = [task EXCEPT ![r].pid = run[r].id]
  /\ Go(r, "mark")
  /\ UNCHANGED <<job, wiped, restarts>>
Mark(r) ==
  /\ At(r, "mark")
  /\ Checkpoint(r, "provider_running")
  /\ Go(r, "poll")
  /\ UNCHANGED <<job, wiped, restarts>>

\* The provider has finished its task by then, one way or the other; it tells every
\* poll the same.
Poll(r, state) ==
  LET w == run[r] IN
  /\ At(r, "poll") /\ ~Cancelled(r) /\ job[w.id].state \in {"running", state}
  /\ job' = [job EXCEPT ![w.id].state = state]
  /\ run' = [run EXCEPT ![r] = IF state = "success" THEN [w EXCEPT !.pc = "won"] ELSE Lost(w, task[r].kind)]
  /\ Checkpoint(r, IF state = "success" THEN "provider_success" ELSE "provider_failed")
  /\ UNCHANGED <<wiped, restarts>>
PollCancelled(r) ==
  /\ At(r, "poll") /\ Cancelled(r)
  /\ Raise(r)
  /\ UNCHANGED <<task, job, wiped, restarts>>
TimeOut(r) ==
  /\ At(r, "poll") /\ ~Cancelled(r)
  /\ run' = [run EXCEPT ![r] = Broken(run[r], task[r].kind)]
  /\ UNCHANGED <<task, job, wiped, restarts>>

\* The file is there: the segment is recorded as completed, in the checkpoint and
\* in the output.
Complete(r) ==
  LET w == run[r]
      file == [job |-> w.id, home |-> r]
      done == [task[r].done EXCEPT ![w.seg] = file]
  IN
  /\ At(r, "won")
  /\ task' = [task EXCEPT ![r].done = done, ![r].out = done,
                          ![r].stage = IF task[r].kind = "ecommerce" THEN @ ELSE "digital_human_video"]
  /\ run' = [run EXCEPT ![r] = [NextSegment(w) EXCEPT !.made[w.seg] = file]]
  /\ UNCHANGED <<job, wiped, restarts>>

\* The end of _task_worker_with_control: what the runner returns names every
\* segment it used; after an exception the output names those of the checkpoint.
\* A cancelled task's files are deleted.
Outcome(r, status, out) ==
  task' = [task EXCEPT ![r].status = status, ![r].out = out]
Finish(r, joined) ==
  LET w == run[r] IN
  /\ At(r, "returned") \/ At(r, "raised")
  /\ IF Cancelled(r)
     THEN wiped' = wiped \cup {r} /\ UNCHANGED task
     ELSE /\ IF At(r, "raised") THEN ~joined /\ Outcome(r, "failed", task[r].done)
             ELSE LET whole == \A s \in Segments : w.made[s] # NoFile IN
                  /\ joined => whole /\ \A s \in Segments : Exists(w.made[s])
                  /\ Outcome(r, IF joined THEN "success" ELSE "failed", IF whole /\ ~joined THEN task[r].done ELSE w.made)
          /\ UNCHANGED wiped
  /\ run' = [run EXCEPT ![r] = Idle]
  /\ UNCHANGED <<job, restarts>>

-----------------------------------------------------------------------------
(* Restarts of the service *)

Recoverable(x) == x.stage # "none" \/ x.pid # 0
MutResumeId(x) == x.pid
ResumeId(x) == IF x.stage = "provider_running" THEN x.pid ELSE 0
MutRecovered(x) ==
  IF x.status # "running" THEN x
  ELSE IF ~Recoverable(x) THEN [x EXCEPT !.status = "failed"]
  ELSE IF x.stage = "provider_submitting" /\ x.pid = 0
  THEN [x EXCEPT !.status = "failed", !.stage = "provider_submission_uncertain"]
  ELSE [x EXCEPT !.status = "queued", !.resume = ResumeId(x)]
MutStuck(x) ==
  IF x.status # "running" \/ ~Recoverable(x) THEN x
  ELSE IF x.stage = "provider_submitting" /\ x.pid = 0
  THEN [x EXCEPT !.status = "failed", !.stage = "provider_submission_uncertain"]
  ELSE [x EXCEPT !.status = "queued", !.have = x.done, !.resume = ResumeId(x)]
\* _resume_pending_tasks on one row: a running task without a checkpoint fails, a
\* submission whose outcome is unknown is blocked, the others are queued again
\* with the segments and, while it ran, the provider task of their checkpoint.
Recovered(x) ==
  IF x.status # "running" THEN x
  ELSE IF ~Recoverable(x) THEN [x EXCEPT !.status = "failed"]
  ELSE IF x.stage = "provider_submitting" /\ x.pid = 0
  THEN [x EXCEPT !.status = "failed", !.stage = "provider_submission_uncertain"]
  ELSE [x EXCEPT !.status = "queued", !.have = x.done, !.resume = ResumeId(x)]
Restart ==
  /\ restarts < MaxRestarts
  /\ run' = [r \in Rows |-> Idle]
  /\ task' = [r \in Rows |-> Recovered(task[r])]
  /\ restarts' = restarts + 1
  /\ UNCHANGED <<job, wiped>>

-----------------------------------------------------------------------------
Work(r) ==
  \/ Start(r) \/ Segment(r) \/ Submit(r) \/ Refused(r) \/ QueueFull(r)
  \/ \E answered \in BOOLEAN : Post(r, answered)
  \/ Register(r) \/ Mark(r) \/ PollCancelled(r) \/ TimeOut(r) \/ Complete(r)
  \/ \E state \in {"success", "failed"} : Poll(r, state)
  \/ \E joined \in BOOLEAN : Finish(r, joined)
Next ==
  \/ \E kind \in Kinds : Enqueue(kind)
  \/ \E r \in Rows : Cancel(r) \/ Work(r) \/ \E c \in Rows : Resume(r, c)
  \/ Restart

Spec == Init /\ [][Next]_vars
\* The workers of the service keep running; a poll ends with the provider's task,
\* its cancellation, or video_task_timeout_seconds.
FairSpec == Spec /\ \A r \in Rows : WF_vars(Work(r))

-----------------------------------------------------------------------------
(* Properties *)

Ids == 0..MaxJobs
Files == [Segments -> [job : Ids, home : 0..MaxRows]]
\* Type correctness.
TypeOK ==
  /\ task \in [Rows -> [status : {"none", "queued", "running", "success", "failed", "cancelled"},
                        kind : {"ecommerce", "digital_human"}, parent : 0..MaxRows, resume : Ids,
                        have : Files, pid : Ids, done : Files, out : Files,
                        stage : {"none", "provider_submitting", "provider_running", "provider_success", "provider_failed",
                                 "digital_human_video", "provider_submission_uncertain"}]]
  /\ \A r \in Rows : run[r].seg \in 0..(N + 1) /\ run[r].attempt \in 0..Attempts /\ run[r].id \in 0..Len(job)
  /\ job \in Seq([row : Rows, seg : Segments, state : {"running", "success", "failed"}])
  /\ wiped \subseteq Rows /\ restarts \in 0..MaxRestarts

\* A task never pays for a segment again that its own checkpoint lists as
\* completed, whatever restarts lie between.
NeverRemade ==
  [][Len(job') > Len(job) => task[job'[Len(job')].row].done[job'[Len(job')].seg] = NoFile]_vars

\* The first short video of its chain is put together from segments the provider
\* made for the place they are in, also when a restart takes over a provider task.
RightSegment ==
  \A r \in Rows : task[r].kind = "ecommerce" /\ task[r].parent = 0
    => \A s \in Segments : LET j == task[r].done[s].job IN j # 0 => job[j].seg = s /\ job[j].row = r

\* Rows keep their types and videos their segments.
SegmentsConsistent == TypeOK /\ RightSegment

\* Every task comes to an end: no restart leaves one behind in a status nobody
\* works on.
TaskEnds ==
  \A r \in Rows : task[r].status \in {"queued", "running"} ~> task[r].status \in {"success", "failed", "cancelled"}

\* server.py: "automatic retry was blocked to prevent duplicate paid work".  A
\* task submits each of its segments to the provider at most once.  The code does
\* not guarantee it (README, section 6).
NoDuplicateWork ==
  \A i, j \in DOMAIN job : job[i].row = job[j].row /\ job[i].seg = job[j].seg => i = j
=============================================================================
