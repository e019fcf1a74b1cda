------------------------- MODULE VideoCheckpointsProofs -------------------------
(***************************************************************************)
(* Proofs about VideoCheckpoints for videos of any length, any number of   *)
(* tasks, provider tasks and restarts.                                     *)
(***************************************************************************)
EXTENDS VideoCheckpoints, TLAPS

-----------------------------------------------------------------------------
(* Types *)

File == [job : Ids, home : 0..MaxRows]
Stages == {"none", "provider_submitting", "provider_running", "provider_success", "provider_failed",
           "digital_human_video", "provider_submission_uncertain"}
TaskRow ==
  [status : {"none", "queued", "running", "success", "failed", "cancelled"},
   kind : {"ecommerce", "digital_human"}, parent : 0..MaxRows, resume : Ids,
   have : Files, stage : Stages, pid : Ids, done : Files, out : Files]
RunRow ==
  [pc : {"idle", "segment", "submit", "post", "register", "mark", "poll", "won", "returned", "raised"},
   seg : 0..(N + 1), resume : Ids, attempt : 0..Attempts, id : Ids, made : Files]
JobRow == [row : Rows, seg : Segments, state : {"running", "success", "failed"}]

\* A worker on a segment, and one that has a provider task for it.
Busy == {"submit", "post", "register", "mark", "poll", "won"}
Issued == {"register", "mark", "poll", "won"}

\* Provider tasks that rows and workers name are among the n accepted ones.
RowKnown(x, n) == x.pid <= n /\ x.resume <= n
RunKnown(w, n) ==
  /\ w.id <= n /\ w.resume <= n
  /\ w.pc = "segment" => 1 <= w.seg
  /\ w.pc \in Busy => w.seg \in Segments
  /\ w.pc \in Issued => 1 <= w.id

TInv ==
  /\ task \in [Rows -> TaskRow] /\ run \in [Rows -> RunRow]
  /\ job \in Seq(JobRow) /\ Len(job) <= MaxJobs
  /\ wiped \subseteq Rows /\ restarts \in 0..MaxRestarts
  /\ \A r \in Rows : RowKnown(task[r], Len(job)) /\ RunKnown(run[r], Len(job))

-----------------------------------------------------------------------------
(* What restarts rely on *)

\* What the checkpoint lists as completed is in the row's own directory, and the
\* worker has it.
DoneKept(r) ==
  /\ \A s \in Segments : task[r].done[s] # NoFile => task[r].done[s].home = r
  /\ r \in wiped => task[r].status = "cancelled"
  /\ task[r].status \in {"none", "queued"} => run[r].pc = "idle"
  /\ task[r].status = "queued" =>
       \A s \in Segments : task[r].done[s] # NoFile => task[r].have[s] = task[r].done[s]
  /\ run[r].pc \in {"segment"} \cup Busy =>
       \A s \in Segments : task[r].done[s] # NoFile => run[r].made[s] = task[r].done[s]
  /\ run[r].pc \in Busy => run[r].made[run[r].seg] = NoFile

\* The first short video of a chain makes its segments in order.
Own(r) == task[r].kind = "ecommerce" /\ task[r].parent = 0
First(f, s) == s \in Segments /\ f[s] = NoFile /\ \A u \in Segments : u < s => f[u] # NoFile
\* Provider task j is for the segment that row r makes next.
Continues(r, j) == j \in 1..Len(job) /\ job[j].row = r /\ First(task[r].done, job[j].seg)

InOrder(r) ==
  /\ \A s \in Segments : task[r].done[s] # NoFile =>
       LET j == task[r].done[s].job IN j \in 1..Len(job) /\ job[j].row = r /\ job[j].seg = s
  /\ task[r].status = "queued" =>
       /\ \A s \in Segments : task[r].have[s] = task[r].done[s]
       /\ task[r].resume # 0 => Continues(r, task[r].resume)
  /\ run[r].pc \in {"segment"} \cup Busy => \A s \in Segments : run[r].made[s] = task[r].done[s]
  /\ run[r].pc = "segment" =>
       /\ \A u \in Segments : u < run[r].seg => task[r].done[u] # NoFile
       /\ run[r].resume # 0 => Continues(r, run[r].resume)
  /\ run[r].pc \in Busy => First(task[r].done, run[r].seg) /\ run[r].resume = 0
  /\ run[r].pc \in Issued => job[run[r].id].row = r /\ job[run[r].id].seg = run[r].seg
  /\ run[r].pc = "mark" => task[r].pid = run[r].id
  /\ run[r].pc = "won" => task[r].stage # "provider_running"
  /\ task[r].status \in {"queued", "running"} /\ task[r].stage = "provider_running" =>
       Continues(r, task[r].pid)

SegInv == \A r \in Rows : DoneKept(r) /\ (Own(r) => InOrder(r))

-----------------------------------------------------------------------------
(* One row moves *)

LEMMA Numbers ==
  /\ N \in Nat /\ 1 <= N /\ MaxRows \in Nat /\ 1 <= MaxRows /\ Attempts \in Nat /\ 1 <= Attempts
  /\ MaxRestarts \in Nat /\ MaxJobs \in Nat
BY VideoConstants

LEMMA Typed ==
  ASSUME TInv
  PROVE  /\ Len(job) \in Nat /\ \A j \in 1..Len(job) : job[j] \in JobRow
         /\ \A r \in Rows :
              /\ task[r] \in TaskRow /\ run[r] \in RunRow
              /\ task[r].pid \in Nat /\ task[r].resume \in Nat
              /\ run[r].id \in Nat /\ run[r].resume \in Nat /\ run[r].seg \in Nat
              /\ RowKnown(task[r], Len(job)) /\ RunKnown(run[r], Len(job))
<1>1. Len(job) \in Nat /\ \A j \in 1..Len(job) : job[j] \in JobRow
  BY DEF TInv
<1>2. ASSUME NEW r \in Rows
      PROVE  /\ task[r] \in TaskRow /\ run[r] \in RunRow
             /\ task[r].pid \in Ids /\ task[r].resume \in Ids
             /\ run[r].id \in Ids /\ run[r].resume \in Ids /\ run[r].seg \in 0..(N + 1)
             /\ RowKnown(task[r], Len(job)) /\ RunKnown(run[r], Len(job))
  BY DEF TInv, TaskRow, RunRow
<1> QED BY <1>1, <1>2, Numbers DEF Ids

\* The provider forgets no task.
JobsKept ==
  /\ job' \in Seq(JobRow) /\ Len(job) <= Len(job') /\ Len(job') <= MaxJobs
  /\ \A j \in 1..Len(job) : job'[j].row = job[j].row /\ job'[j].seg = job[j].seg

\* The files recorded for a row stay the results of its own jobs.
LEMMA FilesKept ==
  ASSUME TInv, JobsKept
  PROVE  \A i \in 1..Len(job) :
           i \in 1..Len(job') /\ job'[i].row = job[i].row /\ job'[i].seg = job[i].seg
<1>1. Len(job) \in Nat /\ Len(job') \in Nat /\ Len(job) <= Len(job')
  BY Typed DEF JobsKept
<1> QED BY <1>1 DEF JobsKept

\* Rows that do not move are as consistent as before.
LEMMA Others ==
  ASSUME TInv, NEW q \in Rows, DoneKept(q) /\ (Own(q) => InOrder(q)),
         task'[q] = task[q], run'[q] = run[q], JobsKept, q \in wiped' => q \in wiped
  PROVE  DoneKept(q)' /\ (Own(q)' => InOrder(q)')
<1>1. DoneKept(q)'
  BY DEF DoneKept
<1>2. ASSUME Own(q)' PROVE InOrder(q)'
  <2>1. InOrder(q)
    BY <1>2 DEF Own
  <2>2. Len(job) \in Nat /\ Len(job') \in Nat /\ Len(job) <= Len(job')
    BY Typed DEF JobsKept
  <2>3. \A j \in Nat : Continues(q, j) => j \in 1..Len(job') /\ job'[j].row = q /\ First(task[q].done, job'[j].seg)
    BY <2>2 DEF Continues, JobsKept
  <2>4. \A j \in Nat : j \in 1..Len(job') /\ job'[j].row = q /\ First(task'[q].done, job'[j].seg) => Continues(q, j)'
    BY DEF Continues, First
  <2>5. \A j \in Nat : Continues(q, j) => Continues(q, j)'
    BY <2>3, <2>4
  <2>6. /\ task[q].resume \in Nat /\ task[q].pid \in Nat /\ run[q].resume \in Nat
        /\ run[q].pc \in Issued => run[q].id \in 1..Len(job)
    BY Typed, <2>2 DEF RunKnown
  <2>7. \A s \in Segments : task'[q].done[s] # NoFile =>
          LET j == task'[q].done[s].job IN j \in 1..Len(job') /\ job'[j].row = q /\ job'[j].seg = s
    <3>1. \A s \in Segments : task'[q].done[s] # NoFile =>
            LET j == task'[q].done[s].job IN j \in 1..Len(job) /\ job[j].row = q /\ job[j].seg = s
      BY <2>1 DEF InOrder
    <3>2. \A i \in 1..Len(job) :
            i \in 1..Len(job') /\ job'[i].row = job[i].row /\ job'[i].seg = job[i].seg
      BY FilesKept
    <3> QED BY <3>1, <3>2
  <2>8. run[q].pc \in Busy => First(task'[q].done, run[q].seg)
    BY <2>1 DEF InOrder, First
  <2>9. run[q].pc \in Issued => job'[run[q].id].row = q /\ job'[run[q].id].seg = run[q].seg
    BY <2>1, <2>6 DEF InOrder, JobsKept
  <2>10. /\ task[q].status = "queued" /\ task[q].resume # 0 => Continues(q, task[q].resume)'
         /\ run[q].pc = "segment" /\ run[q].resume # 0 => Continues(q, run[q].resume)'
         /\ task[q].status \in {"queued", "running"} /\ task[q].stage = "provider_running"
              => Continues(q, task[q].pid)'
    BY <2>1, <2>5, <2>6 DEF InOrder
  <2> QED BY <2>1, <2>7, <2>8, <2>9, <2>10 DEF InOrder
<1> QED BY <1>1, <1>2

LEMMA TypeMoves ==
  ASSUME TInv, NEW r \in Rows, NEW x \in TaskRow, NEW w \in RunRow,
         task' = [task EXCEPT ![r] = x], run' = [run EXCEPT ![r] = w], JobsKept,
         RowKnown(x, Len(job')), RunKnown(w, Len(job')),
         wiped' \subseteq Rows, restarts' = restarts
  PROVE  TInv'
<1>1. \A q \in Rows : q # r => task'[q] = task[q] /\ run'[q] = run[q]
  BY DEF TInv
<1>2. task'[r] = x /\ run'[r] = w /\ task' \in [Rows -> TaskRow] /\ run' \in [Rows -> RunRow]
  BY DEF TInv
<1>3. Len(job) \in Nat /\ Len(job') \in Nat /\ Len(job) <= Len(job')
  BY Typed DEF JobsKept
<1>4. \A q \in Rows : q # r => RowKnown(task'[q], Len(job')) /\ RunKnown(run'[q], Len(job'))
  BY <1>1, <1>3, Typed DEF RowKnown, RunKnown
<1>5. \A q \in Rows : RowKnown(task'[q], Len(job')) /\ RunKnown(run'[q], Len(job'))
  BY <1>2, <1>4
<1> QED BY <1>2, <1>3, <1>5 DEF TInv, JobsKept

LEMMA SegMoves ==
  ASSUME TInv, SegInv, NEW r \in Rows, JobsKept,
         \A q \in Rows : q # r => task'[q] = task[q] /\ run'[q] = run[q],
         wiped' \subseteq wiped \cup {r},
         DoneKept(r)', Own(r)' => InOrder(r)'
  PROVE  SegInv'
<1>1. ASSUME NEW q \in Rows, q # r PROVE DoneKept(q)' /\ (Own(q)' => InOrder(q)')
  <2>1. DoneKept(q) /\ (Own(q) => InOrder(q)) /\ task'[q] = task[q] /\ run'[q] = run[q]
    BY <1>1 DEF SegInv
  <2> QED BY <1>1, <2>1, Others
<1> QED BY <1>1 DEF SegInv

LEMMA SameJobs == ASSUME TInv, job' = job PROVE JobsKept
BY Typed DEF TInv, JobsKept

LEMMA Blanks ==
  /\ NoFile \in File /\ Empty \in Files /\ Idle \in RunRow /\ NoRow \in TaskRow
  /\ \A n \in Nat : RunKnown(Idle, n) /\ RowKnown(NoRow, n)
  /\ Idle.pc = "idle" /\ \A s \in Segments : Empty[s] = NoFile
<1>1. NoFile \in File /\ Empty \in Files
  BY Numbers DEF NoFile, File, Empty, Files, Ids
<1> QED BY <1>1, Numbers
        DEF Idle, NoRow, RunRow, TaskRow, RunKnown, RowKnown, Ids, Stages, Busy, Issued, Empty

\* A worker that stops without touching its row.
LEMMA SegHalts ==
  ASSUME TInv, SegInv, NEW r \in Rows, task'[r] = task[r], run[r].pc # "idle",
         run'[r].pc \in {"returned", "raised"}, JobsKept, wiped' = wiped
  PROVE  DoneKept(r)' /\ (Own(r)' => InOrder(r)')
<1>1. DoneKept(r)'
  BY DEF SegInv, DoneKept, Busy
<1>2. ASSUME Own(r)' PROVE InOrder(r)'
  <2>1. InOrder(r) /\ task[r].status # "queued"
    BY <1>2 DEF Own, SegInv, DoneKept
  <2>2. Len(job) \in Nat /\ Len(job') \in Nat /\ Len(job) <= Len(job')
    BY Typed DEF JobsKept
  <2>3. \A s \in Segments : task'[r].done[s] # NoFile =>
          LET j == task'[r].done[s].job IN j \in 1..Len(job') /\ job'[j].row = r /\ job'[j].seg = s
    BY <2>1, <2>2 DEF InOrder, JobsKept
  <2>4. task[r].status = "running" /\ task[r].stage = "provider_running" => Continues(r, task[r].pid)'
    BY <2>1, <2>2, Typed DEF InOrder, Continues, First, JobsKept
  <2> QED BY <2>1, <2>3, <2>4 DEF InOrder, Busy, Issued
<1> QED BY <1>1, <1>2

\* Workers that give up.
LEMMA Halts ==
  ASSUME TInv, NEW r \in Rows, run[r].pc # "idle", task' = task, JobsKept, UNCHANGED <<wiped, restarts>>,
         NEW w \in RunRow, run' = [run EXCEPT ![r] = w], w.pc \in {"returned", "raised"},
         w.id <= Len(job), w.resume <= Len(job)
  PROVE  TInv' /\ (SegInv => SegInv')
<1>1. /\ task' = [task EXCEPT ![r] = task[r]] /\ task[r] \in TaskRow /\ run'[r] = w
      /\ \A q \in Rows : q # r => task'[q] = task[q] /\ run'[q] = run[q]
  BY Typed DEF TInv
<1>2. RunKnown(w, Len(job')) /\ RowKnown(task[r], Len(job'))
  <2>1. Len(job) \in Nat /\ Len(job') \in Nat /\ Len(job) <= Len(job')
    BY Typed DEF JobsKept
  <2>2. w.id \in Nat /\ w.resume \in Nat
    BY Numbers DEF RunRow, Ids
  <2> QED BY <2>1, <2>2, Typed DEF RunKnown, RowKnown, Busy, Issued
<1>3. TInv'
  <2>1. wiped' \subseteq Rows
    BY DEF TInv
  <2> QED BY <1>1, <1>2, <2>1, TypeMoves
<1>4. ASSUME SegInv PROVE SegInv'
  <2>1. DoneKept(r)' /\ (Own(r)' => InOrder(r)')
    BY <1>1, <1>4, SegHalts
  <2> QED BY <1>1, <1>4, <2>1, SegMoves
<1> QED BY <1>3, <1>4

LEMMA Raises ==
  ASSUME TInv, NEW r \in Rows, run[r].pc # "idle", UNCHANGED <<task, job, wiped, restarts>>,
         run' = [run EXCEPT ![r] = [Idle EXCEPT !.pc = "raised"]]
  PROVE  TInv' /\ (SegInv => SegInv')
<1> DEFINE w == [Idle EXCEPT !.pc = "raised"]
<1>1. w \in RunRow /\ w.pc = "raised" /\ w.id = 0 /\ w.resume = 0
  BY Blanks DEF RunRow, Idle
<1>2. run' = [run EXCEPT ![r] = w] /\ JobsKept /\ 0 <= Len(job)
  BY SameJobs, Typed
<1> HIDE DEF w
<1> QED BY <1>1, <1>2, Halts

\* The next segment of a digital human.
LEMMA GoesOn ==
  ASSUME TInv, NEW r \in Rows, run[r].pc \in Busy, task[r].kind # "ecommerce", UNCHANGED <<wiped, restarts>>,
         NEW x \in TaskRow, task' = [task EXCEPT ![r] = x], x.kind = task[r].kind,
         x.status = task[r].status, x.done = task[r].done, x.pid = task[r].pid,
         x.resume = task[r].resume, JobsKept,
         run' = [run EXCEPT ![r] = NextSegment(run[r])]
  PROVE  TInv' /\ (SegInv => SegInv')
<1> DEFINE w == NextSegment(run[r])
<1>1. /\ w.pc = "segment" /\ w.seg = run[r].seg + 1 /\ w.id = 0 /\ w.resume = run[r].resume
      /\ w.made = run[r].made /\ w.attempt = 0
  BY Typed DEF NextSegment, RunRow
<1>2. w \in RunRow
  <2>1. run[r].seg \in Segments
    BY Typed DEF RunKnown
  <2>2. run[r].seg + 1 \in 0..(N + 1) /\ 0 \in Ids /\ 0 \in 0..Attempts
    BY <2>1, Numbers DEF Segments, Ids
  <2> QED BY <2>2, Typed DEF NextSegment, RunRow
<1>3. run' = [run EXCEPT ![r] = w]
  OBVIOUS
<1> HIDE DEF w
<1>4. /\ task'[r] = x /\ run'[r] = w
      /\ \A q \in Rows : q # r => task'[q] = task[q] /\ run'[q] = run[q]
  BY <1>3 DEF TInv
<1>5. TInv'
  <2>1. Len(job) \in Nat /\ Len(job') \in Nat /\ Len(job) <= Len(job')
    BY Typed DEF JobsKept
  <2>2. RunKnown(w, Len(job')) /\ RowKnown(x, Len(job'))
    BY <1>1, <2>1, Typed DEF RunKnown, RowKnown, Busy, Issued
  <2>3. wiped' \subseteq Rows
    BY DEF TInv
  <2> QED BY <1>2, <1>3, <2>2, <2>3, TypeMoves
<1>6. ASSUME SegInv PROVE SegInv'
  <2>1. DoneKept(r)'
    BY <1>1, <1>4, <1>6 DEF SegInv, DoneKept, Busy
  <2>2. ~Own(r)'
    BY <1>4 DEF Own
  <2> QED BY <1>4, <1>6, <2>1, <2>2, SegMoves
<1> QED BY <1>5, <1>6

\* A submission or a poll that raises.
LEMMA Breaks ==
  ASSUME TInv, NEW r \in Rows, run[r].pc \in Busy, UNCHANGED <<task, wiped, restarts>>, JobsKept,
         run' = [run EXCEPT ![r] = Broken(run[r], task[r].kind)]
  PROVE  TInv' /\ (SegInv => SegInv')
<1>1. CASE task[r].kind = "ecommerce"
  <2> DEFINE w == [Idle EXCEPT !.pc = "raised"]
  <2>1. w \in RunRow /\ w.pc = "raised" /\ w.id = 0 /\ w.resume = 0
    BY Blanks DEF RunRow, Idle
  <2>2. run' = [run EXCEPT ![r] = w] /\ 0 <= Len(job) /\ run[r].pc # "idle"
    BY <1>1, Typed DEF Broken, Busy
  <2> HIDE DEF w
  <2> QED BY <2>1, <2>2, Halts
<1>2. CASE task[r].kind # "ecommerce"
  <2>1. /\ run' = [run EXCEPT ![r] = NextSegment(run[r])] /\ task[r] \in TaskRow
        /\ task' = [task EXCEPT ![r] = task[r]]
    BY <1>2, Typed DEF Broken, TInv
  <2> QED BY <1>2, <2>1, GoesOn
<1> QED BY <1>1, <1>2

LEMMA Acts ==
  ASSUME TInv, NEW r \in Rows, NEW x \in TaskRow, NEW w \in RunRow,
         task' = [task EXCEPT ![r] = x], run' = [run EXCEPT ![r] = w], JobsKept,
         RowKnown(x, Len(job')), RunKnown(w, Len(job')),
         wiped' \subseteq wiped \cup {r}, restarts' = restarts,
         SegInv => DoneKept(r)' /\ (Own(r)' => InOrder(r)')
  PROVE  TInv' /\ (SegInv => SegInv')
<1>1. wiped' \subseteq Rows /\ \A q \in Rows : q # r => task'[q] = task[q] /\ run'[q] = run[q]
  BY DEF TInv
<1>2. TInv'
  BY <1>1, TypeMoves
<1>3. ASSUME SegInv PROVE SegInv'
  BY <1>1, <1>3, SegMoves
<1> QED BY <1>2, <1>3

-----------------------------------------------------------------------------
(* The steps *)

LEMMA EnqueueStep ==
  ASSUME TInv, NEW kind \in Kinds, Enqueue(kind)
  PROVE  TInv' /\ (SegInv => SegInv')
<1> DEFINE x == [NoRow EXCEPT !.status = "queued", !.kind = kind]
<1>1. /\ x.status = "queued" /\ x.done = Empty /\ x.have = Empty /\ x.resume = 0 /\ x.pid = 0
      /\ x.stage = "none"
  BY DEF NoRow
<1>2. x \in TaskRow
  <2>1. kind \in {"ecommerce", "digital_human"}
    BY VideoConstants
  <2> QED BY <2>1, Blanks DEF TaskRow
<1>3. /\ task' = [task EXCEPT ![1] = x] /\ task[1].status = "none" /\ 1 \in Rows
      /\ UNCHANGED <<run, job, wiped, restarts>>
  BY Numbers DEF Enqueue, Rows
<1> HIDE DEF x
<1>4. /\ task'[1] = x /\ run' = [run EXCEPT ![1] = run[1]] /\ run[1] \in RunRow /\ run'[1] = run[1]
      /\ JobsKept /\ RowKnown(x, Len(job')) /\ RunKnown(run[1], Len(job'))
  BY <1>1, <1>3, SameJobs, Typed DEF TInv, RowKnown
<1>5. ASSUME SegInv PROVE DoneKept(1)' /\ InOrder(1)'
  <2>1. run[1].pc = "idle" /\ 1 \notin wiped /\ \A s \in Segments : Empty[s] = NoFile
    BY <1>3, <1>5, Blanks DEF SegInv, DoneKept
  <2> QED BY <1>1, <1>3, <1>4, <2>1 DEF DoneKept, InOrder, Busy, Issued
<1> QED BY <1>2, <1>3, <1>4, <1>5, Acts

LEMMA ResumeStep ==
  ASSUME TInv, NEW r \in Rows, NEW c \in Rows, Resume(r, c)
  PROVE  TInv' /\ (SegInv => SegInv')
<1> DEFINE x == [NoRow EXCEPT !.status = "queued", !.kind = task[r].kind, !.parent = r,
                              !.resume = task[r].resume, !.have = task[r].out]
<1>1. /\ x.status = "queued" /\ x.done = Empty /\ x.parent = r /\ x.resume = task[r].resume
      /\ x.pid = 0
  BY DEF NoRow
<1>2. x \in TaskRow
  <2>1. r \in 0..MaxRows /\ task[r].resume \in Ids /\ task[r].out \in Files
        /\ task[r].kind \in {"ecommerce", "digital_human"}
    BY Typed, Numbers DEF TaskRow, Rows
  <2> QED BY <2>1, Blanks DEF TaskRow
<1>3. /\ task' = [task EXCEPT ![c] = x] /\ task[c].status = "none"
      /\ UNCHANGED <<run, job, wiped, restarts>>
  BY DEF Resume
<1> HIDE DEF x
<1>4. /\ task'[c] = x /\ run' = [run EXCEPT ![c] = run[c]] /\ run[c] \in RunRow /\ run'[c] = run[c]
      /\ JobsKept /\ RowKnown(x, Len(job')) /\ RunKnown(run[c], Len(job'))
  BY <1>1, <1>3, SameJobs, Typed DEF TInv, RowKnown
<1>5. ASSUME SegInv PROVE DoneKept(c)' /\ ~Own(c)'
  <2>1. run[c].pc = "idle" /\ c \notin wiped /\ \A s \in Segments : Empty[s] = NoFile /\ r # 0
    BY <1>3, <1>5, Blanks, Numbers DEF SegInv, DoneKept, Rows
  <2>2. DoneKept(c)'
    BY <1>1, <1>3, <1>4, <2>1 DEF DoneKept, Busy
  <2>3. ~Own(c)'
    BY <1>1, <1>4, Numbers DEF Own, Rows
  <2> QED BY <2>2, <2>3
<1> QED BY <1>2, <1>3, <1>4, <1>5, Acts

LEMMA CancelStep ==
  ASSUME TInv, NEW r \in Rows, Cancel(r)
  PROVE  TInv' /\ (SegInv => SegInv')
<1> DEFINE x == [task[r] EXCEPT !.status = "cancelled"]
<1>1. /\ x.status = "cancelled" /\ x.done = task[r].done /\ x.parent = task[r].parent
      /\ x.kind = task[r].kind /\ x.resume = task[r].resume /\ x.pid = task[r].pid
      /\ x.stage = task[r].stage /\ x \in TaskRow
  BY Typed DEF TaskRow
<1>2. /\ task' = [task EXCEPT ![r] = x] /\ task[r].status \in {"queued", "running"}
      /\ UNCHANGED <<run, job, wiped, restarts>>
  BY Typed DEF Cancel, TInv
<1> HIDE DEF x
<1>3. /\ task'[r] = x /\ run' = [run EXCEPT ![r] = run[r]] /\ run[r] \in RunRow /\ run'[r] = run[r]
      /\ JobsKept /\ RowKnown(x, Len(job')) /\ RunKnown(run[r], Len(job'))
  BY <1>1, <1>2, SameJobs, Typed DEF TInv, RowKnown
<1>4. ASSUME SegInv PROVE DoneKept(r)' /\ (Own(r)' => InOrder(r)')
  <2>1. DoneKept(r)'
    BY <1>1, <1>2, <1>3, <1>4 DEF SegInv, DoneKept
  <2>2. ASSUME Own(r)' PROVE InOrder(r)'
    <3>1. InOrder(r)
      BY <1>1, <1>3, <1>4, <2>2 DEF Own, SegInv
    <3>2. ASSUME run[r].pc = "segment", run[r].resume # 0 PROVE Continues(r, run[r].resume)'
      <4>1. Continues(r, run[r].resume)
        BY <3>1, <3>2 DEF InOrder
      <4> QED BY <1>1, <1>2, <1>3, <4>1 DEF Continues, First
    <3>3. run[r].pc \in Busy => First(task'[r].done, run[r].seg)
      BY <1>1, <1>3, <3>1 DEF InOrder, First
    <3>4. /\ task'[r].status = "cancelled" /\ task'[r].done = task[r].done /\ task'[r].pid = task[r].pid
          /\ task'[r].stage = task[r].stage /\ run' = run /\ job' = job
      BY <1>1, <1>2, <1>3
    <3>5. \A s \in Segments : task'[r].done[s] # NoFile =>
            LET j == task'[r].done[s].job IN j \in 1..Len(job') /\ job'[j].row = r /\ job'[j].seg = s
      BY <3>1, <3>4 DEF InOrder
    <3>6. /\ run'[r].pc \in {"segment"} \cup Busy => \A s \in Segments : run'[r].made[s] = task'[r].done[s]
          /\ run'[r].pc = "segment" => \A u \in Segments : u < run'[r].seg => task'[r].done[u] # NoFile
      BY <3>1, <3>4 DEF InOrder
    <3>7. /\ run'[r].pc \in Busy => run'[r].resume = 0
          /\ run'[r].pc \in Issued => job'[run'[r].id].row = r /\ job'[run'[r].id].seg = run'[r].seg
          /\ run'[r].pc = "mark" => task'[r].pid = run'[r].id
          /\ run'[r].pc = "won" => task'[r].stage # "provider_running"
      BY <3>1, <3>4 DEF InOrder
    <3> QED BY <3>2, <3>3, <3>4, <3>5, <3>6, <3>7 DEF InOrder
  <2> QED BY <2>1, <2>2
<1> QED BY <1>1, <1>2, <1>3, <1>4, Acts

LEMMA StartStep ==
  ASSUME TInv, NEW r \in Rows, Start(r)
  PROVE  TInv' /\ (SegInv => SegInv')
<1> DEFINE x == [task[r] EXCEPT !.status = "running"]
           made == [s \in Segments |-> IF Exists(task[r].have[s]) THEN task[r].have[s] ELSE NoFile]
           w == [Idle EXCEPT !.pc = "segment", !.seg = 1, !.resume = task[r].resume, !.made = made]
<1>1. /\ x.status = "running" /\ x.done = task[r].done /\ x.parent = task[r].parent
      /\ x.kind = task[r].kind /\ x.resume = task[r].resume /\ x.pid = task[r].pid
      /\ x.stage = task[r].stage /\ x \in TaskRow
  BY Typed DEF TaskRow
<1>2. made \in Files
  <2>1. task[r].have \in Files /\ NoFile \in File
    BY Typed, Blanks DEF TaskRow
  <2> QED BY <2>1 DEF Files, File
<1>3. /\ task' = [task EXCEPT ![r] = x] /\ task[r].status = "queued" /\ run' = [run EXCEPT ![r] = w]
      /\ UNCHANGED <<job, wiped, restarts>>
  BY Typed DEF Start, TInv
<1>4. \A s \in Segments : made[s] = IF Exists(task[r].have[s]) THEN task[r].have[s] ELSE NoFile
  OBVIOUS
<1> HIDE DEF x, made
<1>5. /\ w.pc = "segment" /\ w.seg = 1 /\ w.resume = task[r].resume /\ w.made = made /\ w.id = 0
  BY DEF Idle
<1>6. w \in RunRow
  <2>1. 1 \in 0..(N + 1) /\ task[r].resume \in Ids
    BY Numbers, Typed DEF TaskRow
  <2> QED BY <1>2, <2>1, Blanks DEF RunRow
<1> HIDE DEF w
<1>7. /\ task'[r] = x /\ run'[r] = w
      /\ JobsKept /\ RowKnown(x, Len(job')) /\ RunKnown(w, Len(job'))
  BY <1>1, <1>3, <1>5, SameJobs, Typed DEF TInv, RowKnown, RunKnown, Busy, Issued
<1>8. ASSUME SegInv PROVE DoneKept(r)' /\ (Own(r)' => InOrder(r)')
  <2>1. /\ DoneKept(r) /\ r \notin wiped /\ (Own(r)' => InOrder(r))
    BY <1>1, <1>3, <1>7, <1>8 DEF SegInv, DoneKept, Own
  <2>2. \A s \in Segments : task[r].done[s] # NoFile => made[s] = task[r].done[s]
    BY <1>3, <1>4, <2>1 DEF DoneKept, Exists
  <2>3. DoneKept(r)'
    BY <1>1, <1>3, <1>5, <1>7, <2>1, <2>2 DEF DoneKept, Busy
  <2>4. ASSUME Own(r)' PROVE InOrder(r)'
    <3>1. \A s \in Segments : made[s] = task[r].done[s]
      BY <1>3, <1>4, <2>1, <2>2, <2>4 DEF InOrder
    <3>2. InOrder(r)
      BY <2>1, <2>4
    <3>4. \A j \in Nat : Continues(r, j) => j \in 1..Len(job') /\ job'[j].row = r /\ First(x.done, job'[j].seg)
      BY <1>1, <1>3 DEF Continues
    <3>5. /\ w.resume # 0 => Continues(r, w.resume)
          /\ x.stage = "provider_running" => Continues(r, x.pid)
      BY <1>1, <1>3, <1>5, <3>2 DEF InOrder
    <3>6. w.resume \in Nat /\ x.pid \in Nat
      BY <1>1, <1>5, Typed
    <3>7. /\ run'[r].resume # 0 => Continues(r, run[r].resume)'
          /\ task'[r].stage = "provider_running" => Continues(r, task[r].pid)'
      BY <1>7, <3>4, <3>5, <3>6 DEF Continues, First
    <3>3. \A u \in Segments : u < 1 => task'[r].done[u] # NoFile
      BY Numbers DEF Segments
    <3>8. /\ task'[r].status = "running" /\ task'[r].done = task[r].done /\ job' = job
          /\ run'[r].pc = "segment" /\ run'[r].seg = 1 /\ run'[r].made = made
      BY <1>1, <1>3, <1>5, <1>7
    <3>9. \A s \in Segments : task'[r].done[s] # NoFile =>
            LET j == task'[r].done[s].job IN j \in 1..Len(job') /\ job'[j].row = r /\ job'[j].seg = s
      BY <3>2, <3>8 DEF InOrder
    <3>10. run'[r].pc \notin Busy \cup Issued \cup {"mark", "won"}
      BY <3>8 DEF Busy, Issued
    <3>11. /\ \A s \in Segments : run'[r].made[s] = task'[r].done[s]
           /\ \A u \in Segments : u < run'[r].seg => task'[r].done[u] # NoFile
      BY <3>1, <3>3, <3>8
    <3> QED BY <3>7, <3>8, <3>9, <3>10, <3>11 DEF InOrder
  <2> QED BY <2>3, <2>4
<1> QED BY <1>1, <1>3, <1>6, <1>7, <1>8, Acts

\* A worker goes on with its segments and finishes none.
LEMMA Walks ==
  ASSUME TInv, NEW r \in Rows, NEW x \in TaskRow, NEW w \in RunRow,
         task' = [task EXCEPT ![r] = x], run' = [run EXCEPT ![r] = w], JobsKept,
         UNCHANGED <<wiped, restarts>>, RowKnown(x, Len(job')), RunKnown(w, Len(job')),
         run[r].pc \in {"segment"} \cup Busy, w.pc \in {"segment"} \cup Busy, w.made = run[r].made,
         x.kind = task[r].kind, x.parent = task[r].parent, x.status = task[r].status,
         x.done = task[r].done,
         DoneKept(r) /\ w.pc \in Busy => w.made[w.seg] = NoFile,
         DoneKept(r) /\ Own(r) /\ InOrder(r) =>
           /\ w.pc = "segment" => /\ \A u \in Segments : u < w.seg => x.done[u] # NoFile
                                  /\ w.resume # 0 => Continues(r, w.resume)
           /\ w.pc \in Busy => First(x.done, w.seg) /\ w.resume = 0
           /\ w.pc \in Issued => job'[w.id].row = r /\ job'[w.id].seg = w.seg
           /\ w.pc = "mark" => x.pid = w.id
           /\ w.pc = "won" => x.stage # "provider_running"
           /\ x.status = "running" /\ x.stage = "provider_running" => Continues(r, x.pid)
  PROVE  TInv' /\ (SegInv => SegInv')
<1>1. task'[r] = x /\ run'[r] = w
  BY DEF TInv
<1>2. ASSUME SegInv PROVE DoneKept(r)' /\ (Own(r)' => InOrder(r)')
  <2>1. DoneKept(r) /\ task[r].status \notin {"none", "queued"}
    BY <1>2 DEF SegInv, DoneKept, Busy
  <2>2. DoneKept(r)'
    BY <1>1, <2>1 DEF DoneKept
  <2>3. ASSUME Own(r)' PROVE InOrder(r)'
    <3>1. InOrder(r) /\ Own(r)
      BY <1>1, <1>2, <2>3 DEF Own, SegInv
    <3>2. Len(job) \in Nat /\ Len(job') \in Nat /\ Len(job) <= Len(job')
      BY Typed DEF JobsKept
    <3>3. \A s \in Segments : x.done[s] # NoFile =>
            LET j == x.done[s].job IN j \in 1..Len(job') /\ job'[j].row = r /\ job'[j].seg = s
      <4> SUFFICES ASSUME NEW s \in Segments, x.done[s] # NoFile
                   PROVE  LET j == x.done[s].job IN j \in 1..Len(job') /\ job'[j].row = r /\ job'[j].seg = s
        OBVIOUS
      <4> DEFINE i == x.done[s].job
      <4>1. i \in 1..Len(job) /\ job[i].row = r /\ job[i].seg = s
        BY <3>1 DEF InOrder
      <4> HIDE DEF i
      <4>2. i \in 1..Len(job') /\ job'[i].row = r /\ job'[i].seg = s
        BY <3>2, <4>1 DEF JobsKept
      <4> QED BY <4>2 DEF i
    <3>4. \A j \in Nat : Continues(r, j) => j \in 1..Len(job') /\ job'[j].row = r /\ First(x.done, job'[j].seg)
      BY <3>2 DEF Continues, JobsKept
    <3>5. w.resume \in Nat /\ x.pid \in Nat
      BY Numbers DEF RunRow, TaskRow, Ids
    <3>6. /\ w.pc = "segment" /\ run'[r].resume # 0 => Continues(r, run[r].resume)'
          /\ task'[r].status = "running" /\ task'[r].stage = "provider_running" => Continues(r, task[r].pid)'
      BY <1>1, <2>1, <3>1, <3>4, <3>5 DEF Continues, First
    <3>7. w.pc \in Busy => First(task'[r].done, w.seg)
      BY <1>1, <2>1, <3>1 DEF First
    <3>8. \A s \in Segments : w.made[s] = x.done[s]
      BY <3>1 DEF InOrder
    <3>9. task'[r].status \notin {"none", "queued"} /\ \A s \in Segments : task'[r].done[s] # NoFile =>
            LET j == task'[r].done[s].job IN j \in 1..Len(job') /\ job'[j].row = r /\ job'[j].seg = s
      BY <1>1, <2>1, <3>3
    <3>10. /\ \A s \in Segments : run'[r].made[s] = task'[r].done[s]
           /\ run'[r].pc = "segment" => \A u \in Segments : u < run'[r].seg => task'[r].done[u] # NoFile
      BY <1>1, <2>1, <3>1, <3>8
    <3>11. /\ run'[r].pc \in Busy => First(task'[r].done, run'[r].seg) /\ run'[r].resume = 0
           /\ run'[r].pc \in Issued => job'[run'[r].id].row = r /\ job'[run'[r].id].seg = run'[r].seg
           /\ run'[r].pc = "mark" => task'[r].pid = run'[r].id
           /\ run'[r].pc = "won" => task'[r].stage # "provider_running"
      BY <1>1, <2>1, <3>1, <3>7
    <3>12. run'[r].pc = "segment" /\ run'[r].resume # 0 => Continues(r, run[r].resume)'
      BY <1>1, <3>6
    <3> QED BY <3>6, <3>9, <3>10, <3>11, <3>12 DEF InOrder
  <2> QED BY <2>2, <2>3
<1> QED BY <1>2, Acts

LEMMA SegmentStep ==
  ASSUME TInv, NEW r \in Rows, Segment(r)
  PROVE  TInv' /\ (SegInv => SegInv')
<1>0. /\ run[r].pc = "segment" /\ UNCHANGED <<task, job, wiped, restarts>> /\ JobsKept
      /\ task' = [task EXCEPT ![r] = task[r]] /\ task[r] \in TaskRow /\ run[r] \in RunRow
      /\ Len(job) \in Nat /\ RowKnown(task[r], Len(job')) /\ RunKnown(run[r], Len(job))
      /\ run[r].seg \in Nat /\ 1 <= run[r].seg /\ run[r].resume \in Nat
  BY SameJobs, Typed DEF Segment, At, TInv, RunKnown
<1> DEFINE y == CASE Cancelled(r) -> [Idle EXCEPT !.pc = "raised"]
                  [] ~Cancelled(r) /\ run[r].seg > N -> [Idle EXCEPT !.pc = "returned", !.made = run[r].made]
                  [] ~Cancelled(r) /\ run[r].seg <= N /\ run[r].made[run[r].seg] # NoFile -> [run[r] EXCEPT !.seg = @ + 1]
                  [] OTHER -> IF run[r].resume # 0 THEN TakeResume(run[r], task[r].kind)
                              ELSE [run[r] EXCEPT !.pc = "submit", !.attempt = 1]
<1>y. run' = [run EXCEPT ![r] = y]
  BY DEF Segment
<1>c. Cancelled(r) \in BOOLEAN /\ (run[r].seg > N <=> ~(run[r].seg <= N))
  BY <1>0, Numbers DEF Cancelled
<1>1. CASE Cancelled(r)
  <2>1. run' = [run EXCEPT ![r] = [Idle EXCEPT !.pc = "raised"]]
    <3>1. y = [Idle EXCEPT !.pc = "raised"]
      BY <1>1, <1>c
    <3> QED BY <1>y, <3>1
  <2> QED BY <1>0, <2>1, Raises
<1>2. CASE ~Cancelled(r) /\ run[r].seg > N
  <2> DEFINE w == [Idle EXCEPT !.pc = "returned", !.made = run[r].made]
  <2>1. run' = [run EXCEPT ![r] = w]
    <3>1. y = w
      BY <1>2, <1>c
    <3> QED BY <1>y, <3>1
  <2>2. w \in RunRow /\ w.pc = "returned" /\ w.id = 0 /\ w.resume = 0
    BY <1>0, Blanks DEF RunRow, Idle
  <2>3. w.id <= Len(job) /\ w.resume <= Len(job)
    BY <1>0, <2>2
  <2> HIDE DEF w
  <2> QED BY <1>0, <2>1, <2>2, <2>3, Halts
<1>3. CASE ~Cancelled(r) /\ run[r].seg <= N /\ run[r].made[run[r].seg] # NoFile
  <2> DEFINE w == [run[r] EXCEPT !.seg = @ + 1]
  <2>1. run' = [run EXCEPT ![r] = w]
    <3>1. y = w
      BY <1>3, <1>c
    <3> QED BY <1>y, <3>1
  <2>2. /\ w.pc = "segment" /\ w.seg = run[r].seg + 1 /\ w.made = run[r].made
        /\ w.resume = run[r].resume /\ w.id = run[r].id
    BY <1>0 DEF RunRow
  <2>3. run[r].seg + 1 \in 0..(N + 1) /\ run[r].seg \in Segments
    BY <1>0, <1>3, Numbers DEF Segments
  <2>4. w \in RunRow
    BY <1>0, <2>3 DEF RunRow
  <2> HIDE DEF w
  <2>5. RunKnown(w, Len(job'))
    BY <1>0, <2>2 DEF RunKnown, Busy, Issued
  <2>6. ASSUME DoneKept(r), Own(r), InOrder(r)
        PROVE  /\ \A u \in Segments : u < w.seg => task[r].done[u] # NoFile
               /\ w.resume # 0 => Continues(r, w.resume)
               /\ task[r].status = "running" /\ task[r].stage = "provider_running"
                    => Continues(r, task[r].pid)
    <3>1. task[r].done[run[r].seg] # NoFile
      BY <1>0, <1>3, <2>3, <2>6 DEF InOrder
    <3>2. \A u \in Segments : u < run[r].seg + 1 => u < run[r].seg \/ u = run[r].seg
      BY <1>0 DEF Segments
    <3> QED BY <1>0, <2>2, <2>6, <3>1, <3>2 DEF InOrder
  <2>7. w.pc \notin Busy /\ w.pc \notin Issued /\ w.pc # "mark" /\ w.pc # "won"
    BY <2>2 DEF Busy, Issued
  <2> QED BY <1>0, <2>1, <2>2, <2>4, <2>5, <2>6, <2>7, Walks
<1>4. CASE ~Cancelled(r) /\ run[r].seg <= N /\ run[r].made[run[r].seg] = NoFile
  <2> DEFINE w == IF run[r].resume # 0 THEN TakeResume(run[r], task[r].kind)
                  ELSE [run[r] EXCEPT !.pc = "submit", !.attempt = 1]
  <2>1. run' = [run EXCEPT ![r] = w]
    <3>1. y = w
      BY <1>4, <1>c
    <3> QED BY <1>y, <3>1
  <2>2. /\ w.seg = run[r].seg /\ w.made = run[r].made
        /\ IF run[r].resume # 0
           THEN /\ w.pc = "register" /\ w.id = run[r].resume
                /\ w.resume = IF task[r].kind = "ecommerce" THEN 0 ELSE run[r].resume
           ELSE w.pc = "submit" /\ w.id = run[r].id /\ w.resume = run[r].resume
    BY <1>0 DEF TakeResume, RunRow
  <2>3. w \in RunRow
    <3>1. 0 \in Ids /\ 1 \in 0..Attempts
      BY Numbers DEF Ids
    <3> QED BY <1>0, <3>1 DEF TakeResume, RunRow
  <2> HIDE DEF w
  <2>4. run[r].seg \in Segments
    BY <1>0, <1>4, Numbers DEF Segments
  <2>5. RunKnown(w, Len(job'))
    BY <1>0, <2>2, <2>4 DEF RunKnown, Busy, Issued
  <2>6. ASSUME DoneKept(r), Own(r), InOrder(r)
        PROVE  /\ First(task[r].done, w.seg) /\ w.resume = 0
               /\ w.pc \in Issued => job[w.id].row = r /\ job[w.id].seg = w.seg
               /\ task[r].status = "running" /\ task[r].stage = "provider_running"
                    => Continues(r, task[r].pid)
    <3>1. task[r].done[run[r].seg] = NoFile
      BY <1>0, <1>4, <2>4, <2>6 DEF InOrder
    <3>2. \A u \in Segments : u < run[r].seg => task[r].done[u] # NoFile
      BY <1>0, <2>6 DEF InOrder
    <3>3. run[r].resume # 0 => job[run[r].resume].row = r /\ job[run[r].resume].seg = run[r].seg
      <4> SUFFICES ASSUME run[r].resume # 0
                   PROVE  job[run[r].resume].row = r /\ job[run[r].resume].seg = run[r].seg
        OBVIOUS
      <4>1. Continues(r, run[r].resume)
        BY <1>0, <2>6 DEF InOrder
      <4> DEFINE g == job[run[r].resume].seg
      <4>2. job[run[r].resume].row = r /\ g \in Segments /\ task[r].done[g] = NoFile
            /\ \A u \in Segments : u < g => task[r].done[u] # NoFile
        BY <4>1 DEF Continues, First
      <4> HIDE DEF g
      <4>3. g = run[r].seg
        BY <2>4, <3>1, <3>2, <4>2 DEF Segments
      <4> QED BY <4>2, <4>3 DEF g
    <3>4. First(task[r].done, run[r].seg)
      BY <2>4, <3>1, <3>2 DEF First
    <3> QED BY <2>2, <2>6, <3>3, <3>4 DEF InOrder, Own, Issued
  <2>7. w.pc \in Busy /\ w.pc \notin {"segment", "mark", "won"} /\ w.made[w.seg] = NoFile
    BY <1>4, <2>2 DEF Busy
  <2> QED BY <1>0, <2>1, <2>2, <2>3, <2>5, <2>6, <2>7, Walks
<1> QED BY <1>0, <1>1, <1>2, <1>3, <1>4, Numbers

\* The fields of a row and of a worker that one step changes.
LEMMA Fields ==
  ASSUME TInv, NEW r \in Rows
  PROVE  /\ \A st \in Stages : \A x : x = [task[r] EXCEPT !.stage = st] =>
              /\ x \in TaskRow /\ x.stage = st /\ x.kind = task[r].kind /\ x.parent = task[r].parent
              /\ x.status = task[r].status /\ x.done = task[r].done /\ x.pid = task[r].pid
              /\ x.resume = task[r].resume
         /\ \A p \in {"post", "mark", "poll", "won"} : \A w : w = [run[r] EXCEPT !.pc = p] =>
              /\ w \in RunRow /\ w.pc = p /\ w.seg = run[r].seg /\ w.made = run[r].made
              /\ w.resume = run[r].resume /\ w.id = run[r].id
<1>1. task[r] \in TaskRow /\ run[r] \in RunRow
  BY Typed
<1> QED BY <1>1 DEF TaskRow, RunRow

LEMMA SubmitStep ==
  ASSUME TInv, NEW r \in Rows, Submit(r)
  PROVE  TInv' /\ (SegInv => SegInv')
<1>0. run[r].pc = "submit" /\ UNCHANGED <<job, wiped, restarts>> /\ JobsKept
  BY SameJobs DEF Submit, At
<1>1. CASE Cancelled(r)
  <2>1. UNCHANGED task /\ run' = [run EXCEPT ![r] = [Idle EXCEPT !.pc = "raised"]]
    BY <1>1 DEF Submit, Raise
  <2> QED BY <1>0, <2>1, Raises
<1>2. CASE ~Cancelled(r)
  <2> DEFINE x == [task[r] EXCEPT !.stage = "provider_submitting"]
             w == [run[r] EXCEPT !.pc = "post"]
  <2>1. /\ x \in TaskRow /\ x.stage = "provider_submitting" /\ x.kind = task[r].kind
        /\ x.parent = task[r].parent /\ x.status = task[r].status /\ x.done = task[r].done
        /\ x.pid = task[r].pid /\ x.resume = task[r].resume
        /\ w \in RunRow /\ w.pc = "post" /\ w.seg = run[r].seg /\ w.made = run[r].made
        /\ w.resume = run[r].resume /\ w.id = run[r].id
    BY Fields DEF Stages
  <2>2. task' = [task EXCEPT ![r] = x] /\ run' = [run EXCEPT ![r] = w]
    BY <1>2 DEF Submit, Go, Checkpoint
  <2> HIDE DEF x, w
  <2>3. RowKnown(x, Len(job')) /\ RunKnown(w, Len(job'))
    BY <1>0, <2>1, Typed DEF RowKnown, RunKnown, Busy, Issued
  <2>4. /\ run[r].pc \in {"segment"} \cup Busy /\ w.pc \in Busy /\ w.pc \notin Issued
        /\ w.pc \notin {"segment", "mark", "won"}
    BY <1>0, <2>1 DEF Busy, Issued
  <2>5. DoneKept(r) => w.made[w.seg] = NoFile
    BY <1>0, <2>1 DEF DoneKept, Busy
  <2>6. Own(r) /\ InOrder(r) => First(x.done, w.seg) /\ w.resume = 0
    BY <1>0, <2>1 DEF InOrder, Busy
  <2> QED BY <1>0, <2>1, <2>2, <2>3, <2>4, <2>5, <2>6, Walks
<1> QED BY <1>1, <1>2

\* The provider accepts a submission: its task is for the segment in hand.
LEMMA PostStep ==
  ASSUME TInv, NEW r \in Rows, NEW answered \in BOOLEAN, Post(r, answered)
  PROVE  TInv' /\ (SegInv => SegInv')
<1>0. /\ run[r].pc = "post" /\ UNCHANGED <<task, wiped, restarts>> /\ Len(job) < MaxJobs
      /\ Len(job) \in Nat /\ run[r].seg \in Segments
  BY Typed DEF Post, At, RunKnown, Busy
<1> DEFINE j == [row |-> r, seg |-> run[r].seg, state |-> "running"]
<1>1. j \in JobRow /\ j.row = r /\ j.seg = run[r].seg
  BY <1>0 DEF JobRow
<1>2. job' = Append(job, j) /\ job \in Seq(JobRow)
  BY DEF Post, TInv
<1> HIDE DEF j
<1>3. /\ job' \in Seq(JobRow) /\ Len(job') = Len(job) + 1 /\ job'[Len(job')] = j
      /\ \A i \in 1..Len(job) : job'[i] = job[i]
  BY <1>1, <1>2
<1>4. JobsKept
  BY <1>0, <1>3, Numbers DEF JobsKept
<1>5. CASE ~answered
  <2>1. run' = [run EXCEPT ![r] = Broken(run[r], task[r].kind)] /\ run[r].pc \in Busy
    BY <1>0, <1>5 DEF Post, Busy
  <2> QED BY <1>0, <1>4, <2>1, Breaks
<1>6. CASE answered
  <2> DEFINE w == [run[r] EXCEPT !.pc = "register", !.id = Len(job'), !.attempt = 0]
  <2>1. run' = [run EXCEPT ![r] = w] /\ task' = [task EXCEPT ![r] = task[r]] /\ task[r] \in TaskRow
    BY <1>0, <1>6, Typed DEF Post, TInv
  <2>2. /\ w.pc = "register" /\ w.seg = run[r].seg /\ w.made = run[r].made
        /\ w.resume = run[r].resume /\ w.id = Len(job')
    BY Typed DEF RunRow
  <2>3. w \in RunRow
    <3>1. Len(job') \in Ids /\ 0 \in 0..Attempts
      BY <1>0, <1>3, Numbers DEF Ids
    <3> QED BY <3>1, Typed DEF RunRow
  <2> HIDE DEF w
  <2>4. RowKnown(task[r], Len(job')) /\ RunKnown(w, Len(job'))
    BY <1>0, <1>3, <2>2, Typed DEF RowKnown, RunKnown, Busy, Issued
  <2>5. /\ run[r].pc \in {"segment"} \cup Busy /\ w.pc \in Busy
        /\ w.pc \notin {"segment", "mark", "won"}
    BY <1>0, <2>2 DEF Busy, Issued
  <2>6. DoneKept(r) => w.made[w.seg] = NoFile
    BY <1>0, <2>2 DEF DoneKept, Busy
  <2>7. Own(r) /\ InOrder(r) =>
          /\ First(task[r].done, w.seg) /\ w.resume = 0
          /\ task[r].status = "running" /\ task[r].stage = "provider_running" => Continues(r, task[r].pid)
    BY <1>0, <2>2 DEF InOrder, Busy
  <2>8. job'[w.id].row = r /\ job'[w.id].seg = w.seg
    BY <1>1, <1>3, <2>2
  <2> QED BY <1>0, <1>4, <2>1, <2>2, <2>3, <2>4, <2>5, <2>6, <2>7, <2>8, Walks
<1> QED BY <1>5, <1>6

LEMMA QueueFullStep ==
  ASSUME TInv, NEW r \in Rows, QueueFull(r)
  PROVE  TInv' /\ (SegInv => SegInv')
<1> DEFINE w == [run[r] EXCEPT !.pc = "submit", !.attempt = @ + 1]
<1>1. /\ run[r].pc = "post" /\ UNCHANGED <<task, job, wiped, restarts>> /\ JobsKept
      /\ run' = [run EXCEPT ![r] = w] /\ run[r].attempt < Attempts
      /\ task' = [task EXCEPT ![r] = task[r]] /\ task[r] \in TaskRow
  BY SameJobs, Typed DEF QueueFull, At, TInv
<1>2. /\ w.pc = "submit" /\ w.seg = run[r].seg /\ w.made = run[r].made
      /\ w.resume = run[r].resume /\ w.id = run[r].id
  BY Typed DEF RunRow
<1>3. w \in RunRow
  <2>1. run[r].attempt \in 0..Attempts
    BY Typed DEF RunRow
  <2>2. run[r].attempt + 1 \in 0..Attempts
    BY <1>1, <2>1, Numbers
  <2> QED BY <2>2, Typed DEF RunRow
<1> HIDE DEF w
<1>4. RowKnown(task[r], Len(job')) /\ RunKnown(w, Len(job'))
  BY <1>1, <1>2, Typed DEF RowKnown, RunKnown, Busy, Issued
<1>5. /\ run[r].pc \in {"segment"} \cup Busy /\ w.pc \in Busy /\ w.pc \notin Issued
      /\ w.pc \notin {"segment", "mark", "won"}
  BY <1>1, <1>2 DEF Busy, Issued
<1>6. DoneKept(r) => w.made[w.seg] = NoFile
  BY <1>1, <1>2 DEF DoneKept, Busy
<1>7. Own(r) /\ InOrder(r) =>
        /\ First(task[r].done, w.seg) /\ w.resume = 0
        /\ task[r].status = "running" /\ task[r].stage = "provider_running" => Continues(r, task[r].pid)
  BY <1>1, <1>2 DEF InOrder, Busy
<1> QED BY <1>1, <1>2, <1>3, <1>4, <1>5, <1>6, <1>7, Walks

LEMMA RegisterStep ==
  ASSUME TInv, NEW r \in Rows, Register(r)
  PROVE  TInv' /\ (SegInv => SegInv')
<1> DEFINE x == [task[r] EXCEPT !.pid = run[r].id]
           w == [run[r] EXCEPT !.pc = "mark"]
<1>1. /\ run[r].pc = "register" /\ UNCHANGED <<job, wiped, restarts>> /\ JobsKept
      /\ run' = [run EXCEPT ![r] = w] /\ task' = [task EXCEPT ![r] = x]
  BY SameJobs DEF Register, Go, At
<1>2. /\ x.pid = run[r].id /\ x.stage = task[r].stage /\ x.kind = task[r].kind
      /\ x.parent = task[r].parent /\ x.status = task[r].status /\ x.done = task[r].done
      /\ x.resume = task[r].resume /\ x \in TaskRow
  <2>1. run[r].id \in Ids
    BY Typed DEF RunRow
  <2> QED BY <2>1, Typed DEF TaskRow
<1>3. /\ w \in RunRow /\ w.pc = "mark" /\ w.seg = run[r].seg /\ w.made = run[r].made
      /\ w.resume = run[r].resume /\ w.id = run[r].id
  BY Fields
<1> HIDE DEF x, w
<1>4. RowKnown(x, Len(job')) /\ RunKnown(w, Len(job'))
  BY <1>1, <1>2, <1>3, Typed DEF RowKnown, RunKnown, Busy, Issued
<1>5. /\ run[r].pc \in {"segment"} \cup Busy /\ w.pc \in Busy /\ w.pc \notin {"segment", "won"}
      /\ run[r].pc \in Issued /\ run[r].id \in 1..Len(job)
  BY <1>1, <1>3, Typed DEF Busy, Issued, RunKnown
<1>6. DoneKept(r) => w.made[w.seg] = NoFile
  BY <1>1, <1>3 DEF DoneKept, Busy
<1>7. Own(r) /\ InOrder(r) =>
        /\ First(x.done, w.seg) /\ w.resume = 0 /\ job[w.id].row = r /\ job[w.id].seg = w.seg
        /\ Continues(r, x.pid)
  BY <1>1, <1>2, <1>3, <1>5 DEF InOrder, Busy, Continues
<1> QED BY <1>1, <1>2, <1>3, <1>4, <1>5, <1>6, <1>7, Walks

LEMMA MarkStep ==
  ASSUME TInv, NEW r \in Rows, Mark(r)
  PROVE  TInv' /\ (SegInv => SegInv')
<1> DEFINE x == [task[r] EXCEPT !.stage = "provider_running"]
           w == [run[r] EXCEPT !.pc = "poll"]
<1>1. /\ run[r].pc = "mark" /\ UNCHANGED <<job, wiped, restarts>> /\ JobsKept
      /\ run' = [run EXCEPT ![r] = w] /\ task' = [task EXCEPT ![r] = x]
  BY SameJobs DEF Mark, Go, Checkpoint, At
<1>2. /\ x \in TaskRow /\ x.stage = "provider_running" /\ x.kind = task[r].kind
      /\ x.parent = task[r].parent /\ x.status = task[r].status /\ x.done = task[r].done
      /\ x.pid = task[r].pid /\ x.resume = task[r].resume
      /\ w \in RunRow /\ w.pc = "poll" /\ w.seg = run[r].seg /\ w.made = run[r].made
      /\ w.resume = run[r].resume /\ w.id = run[r].id
  BY Fields DEF Stages
<1> HIDE DEF x, w
<1>3. RowKnown(x, Len(job')) /\ RunKnown(w, Len(job'))
  BY <1>1, <1>2, Typed DEF RowKnown, RunKnown, Busy, Issued
<1>4. /\ run[r].pc \in {"segment"} \cup Busy /\ w.pc \in Busy /\ w.pc \notin {"segment", "mark", "won"}
      /\ run[r].pc \in Issued /\ run[r].id \in 1..Len(job)
  BY <1>1, <1>2, Typed DEF Busy, Issued, RunKnown
<1>5. DoneKept(r) => w.made[w.seg] = NoFile
  BY <1>1, <1>2 DEF DoneKept, Busy
<1>6. Own(r) /\ InOrder(r) =>
        /\ First(x.done, w.seg) /\ w.resume = 0 /\ job[w.id].row = r /\ job[w.id].seg = w.seg
        /\ Continues(r, x.pid)
  <2> SUFFICES ASSUME InOrder(r)
               PROVE  /\ First(x.done, w.seg) /\ w.resume = 0 /\ job[w.id].row = r
                      /\ job[w.id].seg = w.seg /\ Continues(r, x.pid)
    OBVIOUS
  <2>1. First(task[r].done, run[r].seg) /\ run[r].resume = 0
    BY <1>1 DEF InOrder, Busy
  <2>2. /\ job[run[r].id].row = r /\ job[run[r].id].seg = run[r].seg /\ task[r].pid = run[r].id
    BY <1>1, <1>4 DEF InOrder
  <2> QED BY <1>2, <1>4, <2>1, <2>2 DEF Continues
<1> QED BY <1>1, <1>2, <1>3, <1>4, <1>5, <1>6, Walks

LEMMA PollStep ==
  ASSUME TInv, NEW r \in Rows, NEW state \in {"success", "failed"}, Poll(r, state)
  PROVE  TInv' /\ (SegInv => SegInv')
<1>0. /\ run[r].pc = "poll" /\ UNCHANGED <<wiped, restarts>> /\ run[r].id \in 1..Len(job)
      /\ Len(job) \in Nat
  BY Typed DEF Poll, At, RunKnown, Issued
<1>1. JobsKept /\ Len(job') = Len(job)
  <2> DEFINE j == [job[run[r].id] EXCEPT !.state = state]
  <2>1. job \in Seq(JobRow) /\ job[run[r].id] \in JobRow /\ Len(job) <= MaxJobs
    BY <1>0, Typed DEF TInv
  <2>2. job' = [job EXCEPT ![run[r].id] = j]
    BY <2>1 DEF Poll
  <2>3. j \in JobRow /\ j.row = job[run[r].id].row /\ j.seg = job[run[r].id].seg
    BY <2>1 DEF JobRow
  <2> HIDE DEF j
  <2>4. job' \in Seq(JobRow) /\ Len(job') = Len(job)
    BY <1>0, <2>1, <2>2, <2>3
  <2>5. \A i \in 1..Len(job) : job'[i] = IF i = run[r].id THEN j ELSE job[i]
    BY <1>0, <2>1, <2>2
  <2> QED BY <1>0, <2>1, <2>3, <2>4, <2>5 DEF JobsKept
<1> DEFINE st == IF state = "success" THEN "provider_success" ELSE "provider_failed"
           x == [task[r] EXCEPT !.stage = st]
<1>2. /\ x \in TaskRow /\ x.stage = st /\ x.kind = task[r].kind
      /\ x.parent = task[r].parent /\ x.status = task[r].status /\ x.done = task[r].done
      /\ x.pid = task[r].pid /\ x.resume = task[r].resume
  <2>1. st \in Stages
    BY DEF Stages
  <2> HIDE DEF st
  <2> QED BY <2>1, Fields
<1>3. task' = [task EXCEPT ![r] = x] /\ st # "provider_running"
  BY DEF Poll, Checkpoint
<1> HIDE DEF x, st
<1>4. RowKnown(x, Len(job'))
  BY <1>1, <1>2, Typed DEF RowKnown
<1>5. CASE state = "success"
  <2> DEFINE w == [run[r] EXCEPT !.pc = "won"]
  <2>1. /\ w \in RunRow /\ w.pc = "won" /\ w.seg = run[r].seg /\ w.made = run[r].made
        /\ w.resume = run[r].resume /\ w.id = run[r].id
    BY Fields
  <2>2. run' = [run EXCEPT ![r] = w]
    BY <1>5 DEF Poll
  <2> HIDE DEF w
  <2>3. RunKnown(w, Len(job'))
    BY <1>0, <1>1, <2>1, Typed DEF RunKnown, Busy, Issued
  <2>4. /\ run[r].pc \in {"segment"} \cup Busy /\ w.pc \in Busy /\ w.pc \notin {"segment", "mark"}
        /\ run[r].pc \in Issued
    BY <1>0, <2>1 DEF Busy, Issued
  <2>5. DoneKept(r) => w.made[w.seg] = NoFile
    BY <1>0, <2>1 DEF DoneKept, Busy
  <2>6. Own(r) /\ InOrder(r) =>
          /\ First(x.done, w.seg) /\ w.resume = 0 /\ job'[w.id].row = r /\ job'[w.id].seg = w.seg
    <3> SUFFICES ASSUME InOrder(r)
                 PROVE  /\ First(x.done, w.seg) /\ w.resume = 0
                        /\ job'[w.id].row = r /\ job'[w.id].seg = w.seg
      OBVIOUS
    <3>1. First(task[r].done, run[r].seg) /\ run[r].resume = 0
      BY <1>0 DEF InOrder, Busy
    <3>2. job[run[r].id].row = r /\ job[run[r].id].seg = run[r].seg
      BY <2>4 DEF InOrder
    <3> QED BY <1>0, <1>1, <1>2, <2>1, <3>1, <3>2 DEF JobsKept
  <2> QED BY <1>0, <1>1, <1>2, <1>3, <1>4, <2>1, <2>2, <2>3, <2>4, <2>5, <2>6, Walks
<1>6. CASE state = "failed" /\ task[r].kind = "ecommerce"
  <2> DEFINE w == [Idle EXCEPT !.pc = "returned", !.made = run[r].made]
  <2>1. run' = [run EXCEPT ![r] = w]
    BY <1>6 DEF Poll, Lost
  <2>2. w \in RunRow /\ w.pc = "returned" /\ w.id = 0 /\ w.resume = 0
    BY Typed, Blanks DEF RunRow, Idle
  <2> HIDE DEF w
  <2>3. RunKnown(w, Len(job'))
    BY <1>0, <1>1, <2>2 DEF RunKnown, Busy, Issued
  <2>4. task'[r] = x /\ run'[r] = w
    BY <1>3, <2>1 DEF TInv
  <2>5. ASSUME SegInv PROVE DoneKept(r)' /\ (Own(r)' => InOrder(r)')
    <3>1. DoneKept(r) /\ task[r].status \notin {"none", "queued"}
      BY <1>0, <2>5 DEF SegInv, DoneKept, Busy
    <3>2. DoneKept(r)'
      BY <1>0, <1>2, <2>2, <2>4, <3>1 DEF DoneKept, Busy
    <3>3. ASSUME Own(r)' PROVE InOrder(r)'
      <4>1. InOrder(r)
        BY <1>2, <2>4, <2>5, <3>3 DEF Own, SegInv
      <4>2. \A s \in Segments : x.done[s] # NoFile =>
              LET j == x.done[s].job IN j \in 1..Len(job') /\ job'[j].row = r /\ job'[j].seg = s
        <5>1. \A s \in Segments : x.done[s] # NoFile =>
                LET j == x.done[s].job IN j \in 1..Len(job) /\ job[j].row = r /\ job[j].seg = s
          BY <1>2, <4>1 DEF InOrder
        <5>2. \A i \in 1..Len(job) :
                i \in 1..Len(job') /\ job'[i].row = job[i].row /\ job'[i].seg = job[i].seg
          BY <1>1, FilesKept
        <5> QED BY <5>1, <5>2
      <4> QED BY <1>2, <1>3, <2>2, <2>4, <3>1, <4>2 DEF InOrder, Busy, Issued
    <3> QED BY <3>2, <3>3
  <2> QED BY <1>0, <1>1, <1>2, <1>3, <1>4, <2>1, <2>2, <2>3, <2>5, Acts
<1>7. CASE state = "failed" /\ task[r].kind # "ecommerce"
  <2>1. run' = [run EXCEPT ![r] = NextSegment(run[r])] /\ run[r].pc \in Busy
    BY <1>0, <1>7 DEF Poll, Lost, Busy
  <2> QED BY <1>0, <1>1, <1>2, <1>3, <1>7, <2>1, GoesOn
<1> QED BY <1>5, <1>6, <1>7

LEMMA CompleteStep ==
  ASSUME TInv, NEW r \in Rows, Complete(r)
  PROVE  TInv' /\ (SegInv => SegInv')
<1> DEFINE g == run[r].seg
           file == [job |-> run[r].id, home |-> r]
           done == [task[r].done EXCEPT ![g] = file]
           made == [run[r].made EXCEPT ![g] = file]
           st == IF task[r].kind = "ecommerce" THEN task[r].stage ELSE "digital_human_video"
           x == [task[r] EXCEPT !.done = done, !.out = done, !.stage = st]
           w == [NextSegment(run[r]) EXCEPT !.made[g] = file]
<1>1. /\ run[r].pc = "won" /\ UNCHANGED <<job, wiped, restarts>> /\ JobsKept
      /\ task' = [task EXCEPT ![r] = x] /\ run' = [run EXCEPT ![r] = w]
  <2>1. task[r] \in TaskRow /\ task \in [Rows -> TaskRow]
    BY Typed DEF TInv
  <2>2. task' = [task EXCEPT ![r] = x]
    BY <2>1 DEF Complete
  <2> QED BY <2>2, SameJobs DEF Complete, At
<1>2. /\ g \in Segments /\ run[r].id \in 1..Len(job) /\ Len(job) \in Nat /\ Len(job) <= MaxJobs
      /\ task[r].done \in Files /\ run[r].made \in Files /\ task[r].stage \in Stages
      /\ task[r] \in TaskRow /\ run[r] \in RunRow
  BY <1>1, Typed DEF RunKnown, Busy, Issued, TaskRow, RunRow, TInv
<1>3. /\ file \in File /\ file # NoFile /\ file.home = r /\ file.job = run[r].id
  BY <1>2, Numbers DEF File, NoFile, Ids, Rows
<1>4. /\ done \in Files /\ made \in Files
      /\ \A s \in Segments : /\ done[s] = IF s = g THEN file ELSE task[r].done[s]
                             /\ made[s] = IF s = g THEN file ELSE run[r].made[s]
  BY <1>2, <1>3 DEF Files, File
<1>5. /\ w.pc = "segment" /\ w.seg = g + 1 /\ w.id = 0 /\ w.resume = run[r].resume
      /\ w.made = made /\ w \in RunRow
  <2>1. g + 1 \in 0..(N + 1) /\ 0 \in Ids /\ 0 \in 0..Attempts
    BY <1>2, Numbers DEF Segments, Ids
  <2> HIDE DEF file
  <2>2. w = [NextSegment(run[r]) EXCEPT !.made = made]
    BY <1>2 DEF NextSegment, RunRow
  <2> HIDE DEF made, w
  <2> QED BY <1>2, <1>4, <2>1, <2>2 DEF NextSegment, RunRow
<1> HIDE DEF w, file, made, done
<1>6. st \in Stages /\ (task[r].kind = "ecommerce" => st = task[r].stage)
  BY <1>2 DEF Stages
<1> HIDE DEF st
<1>7. /\ x.done = done /\ x.kind = task[r].kind /\ x.parent = task[r].parent /\ x.stage = st
      /\ x.status = task[r].status /\ x.pid = task[r].pid /\ x.resume = task[r].resume /\ x \in TaskRow
  BY <1>2, <1>4, <1>6 DEF TaskRow
<1> HIDE DEF x
<1>8. RowKnown(x, Len(job')) /\ RunKnown(w, Len(job'))
  <2>1. 1 <= g + 1 /\ 0 <= Len(job)
    BY <1>2 DEF Segments
  <2> QED BY <1>1, <1>5, <1>7, <2>1, Typed DEF RowKnown, RunKnown, Busy, Issued
<1>9. task'[r] = x /\ run'[r] = w
  BY <1>1 DEF TInv
<1>10. ASSUME SegInv PROVE DoneKept(r)' /\ (Own(r)' => InOrder(r)')
  <2>1. DoneKept(r) /\ task[r].status \notin {"none", "queued"}
    BY <1>1, <1>10 DEF SegInv, DoneKept, Busy
  <2>2. \A s \in Segments : x.done[s] # NoFile => x.done[s].home = r /\ w.made[s] = x.done[s]
    BY <1>1, <1>3, <1>4, <1>5, <1>7, <2>1 DEF DoneKept, Busy
  <2>3. DoneKept(r)'
    BY <1>1, <1>5, <1>7, <1>9, <2>1, <2>2 DEF DoneKept, Busy
  <2>4. ASSUME Own(r)' PROVE InOrder(r)'
    <3>1. InOrder(r) /\ task[r].kind = "ecommerce"
      BY <1>7, <1>9, <1>10, <2>4 DEF Own, SegInv
    <3>2. /\ job[run[r].id].row = r /\ job[run[r].id].seg = g /\ run[r].resume = 0
          /\ task[r].stage # "provider_running" /\ First(task[r].done, g)
          /\ \A s \in Segments : run[r].made[s] = task[r].done[s]
      BY <1>1, <3>1 DEF InOrder, Busy, Issued
    <3>3. \A s \in Segments : x.done[s] # NoFile =>
            LET j == x.done[s].job IN j \in 1..Len(job) /\ job[j].row = r /\ job[j].seg = s
      BY <1>2, <1>3, <1>4, <1>7, <3>1, <3>2 DEF InOrder
    <3>4. \A u \in Segments : u < g + 1 => x.done[u] # NoFile
      <4>1. \A u \in Segments : u < g + 1 => u < g \/ u = g
        BY <1>2 DEF Segments
      <4> QED BY <1>3, <1>4, <1>7, <3>2, <4>1 DEF First
    <3>5. \A s \in Segments : w.made[s] = x.done[s]
      BY <1>4, <1>5, <1>7, <3>2
    <3>6. x.stage # "provider_running" /\ w.resume = 0
      BY <1>5, <1>6, <1>7, <3>1, <3>2
    <3> QED BY <1>1, <1>5, <1>7, <1>9, <2>1, <3>3, <3>4, <3>5, <3>6 DEF InOrder, Busy, Issued
  <2> QED BY <2>3, <2>4
<1> QED BY <1>1, <1>5, <1>7, <1>8, <1>10, Acts

LEMMA FinishStep ==
  ASSUME TInv, NEW r \in Rows, NEW joined \in BOOLEAN, Finish(r, joined)
  PROVE  TInv' /\ (SegInv => SegInv')
<1>0. /\ run[r].pc \in {"returned", "raised"} /\ UNCHANGED <<job, restarts>> /\ JobsKept
      /\ run' = [run EXCEPT ![r] = Idle] /\ wiped' \subseteq wiped \cup {r}
  BY SameJobs DEF Finish, At
<1>1. Idle \in RunRow /\ RunKnown(Idle, Len(job')) /\ run'[r].pc = "idle"
  BY <1>0, Blanks, Typed DEF TInv
<1>2. CASE Cancelled(r)
  <2>1. /\ task' = [task EXCEPT ![r] = task[r]] /\ task[r] \in TaskRow /\ task'[r] = task[r]
        /\ RowKnown(task[r], Len(job')) /\ task[r].status = "cancelled"
    BY <1>0, <1>2, Typed DEF Finish, Cancelled, TInv
  <2>2. ASSUME SegInv PROVE DoneKept(r)' /\ (Own(r)' => InOrder(r)')
    <3>1. DoneKept(r)'
      BY <1>1, <2>1, <2>2 DEF SegInv, DoneKept, Busy
    <3>2. ASSUME Own(r)' PROVE InOrder(r)'
      <4>1. InOrder(r)
        BY <2>1, <2>2, <3>2 DEF SegInv, Own
      <4> QED BY <1>0, <1>1, <2>1, <4>1 DEF InOrder, Busy, Issued
    <3> QED BY <3>1, <3>2
  <2> QED BY <1>0, <1>1, <2>1, <2>2, Acts
<1>3. CASE ~Cancelled(r)
  <2>1. PICK status \in {"success", "failed"}, out \in {task[r].done, run[r].made} :
           task' = [task EXCEPT ![r].status = status, ![r].out = out]
    BY <1>3 DEF Finish, Outcome
  <2> DEFINE x == [task[r] EXCEPT !.status = status, !.out = out]
  <2>2. /\ x.status = status /\ x.done = task[r].done /\ x.kind = task[r].kind
        /\ x.parent = task[r].parent /\ x.pid = task[r].pid /\ x.resume = task[r].resume
        /\ x \in TaskRow
    <3>1. task[r] \in TaskRow /\ out \in Files
      BY Typed DEF TaskRow, RunRow
    <3> QED BY <3>1 DEF TaskRow
  <2>3. task' = [task EXCEPT ![r] = x] /\ wiped' = wiped
    BY <1>3, <2>1, Typed DEF TInv, Finish
  <2> HIDE DEF x
  <2>4. task'[r] = x /\ RowKnown(x, Len(job'))
    BY <1>0, <2>2, <2>3, Typed DEF TInv, RowKnown
  <2>5. ASSUME SegInv PROVE DoneKept(r)' /\ (Own(r)' => InOrder(r)')
    <3>1. DoneKept(r) /\ r \notin wiped
      BY <1>3, <2>5 DEF SegInv, DoneKept, Cancelled
    <3>2. DoneKept(r)'
      BY <1>1, <2>2, <2>3, <2>4, <3>1 DEF DoneKept, Busy
    <3>3. ASSUME Own(r)' PROVE InOrder(r)'
      <4>1. InOrder(r)
        BY <2>2, <2>4, <2>5, <3>3 DEF SegInv, Own
      <4> QED BY <1>0, <1>1, <2>2, <2>4, <4>1 DEF InOrder, Busy, Issued
    <3> QED BY <3>2, <3>3
  <2> QED BY <1>0, <1>1, <2>2, <2>3, <2>4, <2>5, Acts
<1> QED BY <1>2, <1>3

\* A restart hands each row the segments of its checkpoint, and the provider task
\* only while it is the one of the next segment.
LEMMA RestartStep ==
  ASSUME TInv, Restart
  PROVE  TInv' /\ (SegInv => SegInv')
<1>0. /\ UNCHANGED <<job, wiped>> /\ run' = [r \in Rows |-> Idle] /\ restarts' \in 0..MaxRestarts
      /\ task' = [r \in Rows |-> Recovered(task[r])]
  BY Numbers DEF Restart, TInv
<1>1. ASSUME NEW r \in Rows
      PROVE  /\ task'[r] \in TaskRow /\ run'[r] = Idle /\ RowKnown(task'[r], Len(job))
             /\ task'[r].kind = task[r].kind /\ task'[r].parent = task[r].parent
             /\ task'[r].done = task[r].done
             /\ \/ task'[r] = task[r] /\ task[r].status # "running"
                \/ task'[r].status = "failed" /\ task[r].status = "running"
                \/ /\ task'[r].status = "queued" /\ task[r].status = "running"
                   /\ task'[r].have = task[r].done
                   /\ task'[r].stage = task[r].stage /\ task'[r].pid = task[r].pid
                   /\ task'[r].resume = IF task[r].stage = "provider_running" THEN task[r].pid ELSE 0
  <2>1. task'[r] = Recovered(task[r]) /\ run'[r] = Idle /\ task[r] \in TaskRow /\ 0 \in Ids
    BY <1>0, Typed, Numbers DEF Ids
  <2>2. task[r].pid \in Ids /\ task[r].done \in Files /\ ResumeId(task[r]) \in Ids
    BY <2>1 DEF TaskRow, ResumeId
  <2>3. CASE task[r].status # "running"
    BY <2>1, <2>3, Typed DEF Recovered
  <2>4. CASE task[r].status = "running" /\ ~Recoverable(task[r])
    BY <2>1, <2>4, Typed DEF Recovered, TaskRow, RowKnown
  <2>5. CASE /\ task[r].status = "running" /\ Recoverable(task[r])
             /\ task[r].stage = "provider_submitting" /\ task[r].pid = 0
    BY <2>1, <2>5, Typed DEF Recovered, TaskRow, RowKnown, Stages
  <2>6. CASE /\ task[r].status = "running" /\ Recoverable(task[r])
             /\ ~(task[r].stage = "provider_submitting" /\ task[r].pid = 0)
    <3> DEFINE x == [task[r] EXCEPT !.status = "queued", !.have = task[r].done,
                                    !.resume = ResumeId(task[r])]
    <3>1. task'[r] = x
      BY <2>1, <2>6 DEF Recovered
    <3>2. /\ x \in TaskRow /\ x.status = "queued" /\ x.have = task[r].done /\ x.done = task[r].done
          /\ x.kind = task[r].kind /\ x.parent = task[r].parent /\ x.pid = task[r].pid
          /\ x.stage = task[r].stage /\ x.resume = ResumeId(task[r])
      BY <2>1, <2>2 DEF TaskRow
    <3> HIDE DEF x
    <3>3. RowKnown(x, Len(job))
      BY <3>2, Typed DEF RowKnown, ResumeId
    <3> QED BY <2>1, <2>6, <3>1, <3>2, <3>3 DEF ResumeId
  <2> QED BY <2>3, <2>4, <2>5, <2>6
<1>2. TInv'
  <2>1. \A r \in Rows : run'[r] \in RunRow /\ RunKnown(run'[r], Len(job))
    BY <1>1, Blanks, Typed
  <2>2. task' \in [Rows -> TaskRow] /\ run' \in [Rows -> RunRow]
    BY <1>0, <1>1, <2>1
  <2> QED BY <1>0, <1>1, <2>1, <2>2 DEF TInv
<1>3. ASSUME SegInv, NEW r \in Rows PROVE DoneKept(r)' /\ (Own(r)' => InOrder(r)')
  <2>1. DoneKept(r) /\ run'[r].pc = "idle"
    BY <1>1, <1>3, Blanks DEF SegInv
  <2>2. DoneKept(r)'
    BY <1>0, <1>1, <2>1 DEF DoneKept, Busy
  <2>3. ASSUME Own(r)' PROVE InOrder(r)'
    <3>1. InOrder(r)
      BY <1>1, <1>3, <2>3 DEF SegInv, Own
    <3>2. \A s \in Segments : task'[r].done[s] # NoFile =>
            LET j == task'[r].done[s].job IN j \in 1..Len(job') /\ job'[j].row = r /\ job'[j].seg = s
      BY <1>0, <1>1, <3>1 DEF InOrder
    <3>3. ASSUME task'[r].status = "queued"
          PROVE  /\ \A s \in Segments : task'[r].have[s] = task'[r].done[s]
                 /\ task'[r].resume # 0 => Continues(r, task[r].resume)'
                 /\ task'[r].stage = "provider_running" => Continues(r, task[r].pid)'
      <4>0. job' = job /\ task'[r].done = task[r].done
        BY <1>0, <1>1
      <4>1. \A j : Continues(r, j) => j \in 1..Len(job') /\ job'[j].row = r /\ First(task'[r].done, job'[j].seg)
        BY <4>0 DEF Continues
      <4>2. \/ task'[r] = task[r] /\ task[r].status = "queued"
            \/ /\ task[r].status = "running" /\ task'[r].have = task[r].done
               /\ task'[r].stage = task[r].stage /\ task'[r].pid = task[r].pid
               /\ task'[r].resume = IF task[r].stage = "provider_running" THEN task[r].pid ELSE 0
        BY <1>1, <3>3
      <4>3. \A s \in Segments : task'[r].have[s] = task'[r].done[s]
        BY <3>1, <4>0, <4>2 DEF InOrder
      <4>4. task'[r].stage = "provider_running" => Continues(r, task'[r].pid)
        BY <3>1, <4>2 DEF InOrder
      <4>5. task'[r].resume # 0 => Continues(r, task'[r].resume)
        BY <3>1, <4>2 DEF InOrder
      <4> QED BY <4>1, <4>3, <4>4, <4>5 DEF Continues
    <3>4. task'[r].status # "running"
      BY <1>1
    <3> QED BY <2>1, <3>2, <3>3, <3>4 DEF InOrder, Busy, Issued
  <2> QED BY <2>2, <2>3
<1> QED BY <1>2, <1>3 DEF SegInv

LEMMA VideoInit == Init => TInv /\ SegInv
<1> SUFFICES ASSUME Init PROVE TInv /\ SegInv
  OBVIOUS
<1>1. /\ \A r \in Rows : task[r] = NoRow /\ run[r] = Idle
      /\ job = <<>> /\ wiped = {} /\ restarts = 0
  BY DEF Init
<1>2. TInv
  <2>1. job \in Seq(JobRow) /\ Len(job) = 0
    BY <1>1
  <2> QED BY <1>1, <2>1, Blanks, Numbers DEF TInv, Init
<1>3. SegInv
  <2>1. NoRow.done = Empty /\ NoRow.status = "none" /\ \A s \in Segments : Empty[s] = NoFile
    BY Blanks DEF NoRow
  <2> QED BY <1>1, <2>1, Blanks DEF SegInv, DoneKept, InOrder, Busy, Issued
<1> QED BY <1>2, <1>3

LEMMA VideoNext == TInv /\ SegInv /\ [Next]_vars => TInv' /\ SegInv'
<1> SUFFICES ASSUME TInv, SegInv, [Next]_vars PROVE TInv' /\ SegInv'
  OBVIOUS
<1>1. CASE UNCHANGED vars
  <2>1. UNCHANGED <<task, run, job, wiped, restarts>>
    BY <1>1 DEF vars
  <2>2. TInv' /\ JobsKept
    BY <2>1, SameJobs DEF TInv
  <2>3. ASSUME NEW r \in Rows PROVE DoneKept(r)' /\ (Own(r)' => InOrder(r)')
    BY <2>1, <2>2, Others DEF SegInv
  <2> QED BY <2>2, <2>3 DEF SegInv
<1>2. ASSUME NEW kind \in Kinds, Enqueue(kind) PROVE TInv' /\ SegInv'
  BY <1>2, EnqueueStep
<1>3. ASSUME NEW r \in Rows, NEW c \in Rows, Resume(r, c) PROVE TInv' /\ SegInv'
  BY <1>3, ResumeStep
<1>4. ASSUME NEW r \in Rows, Cancel(r) \/ Work(r) PROVE TInv' /\ SegInv'
  <2>1. CASE Refused(r) \/ TimeOut(r)
    <3>1. /\ UNCHANGED <<task, wiped, restarts>> /\ job' = job /\ run[r].pc \in Busy
          /\ run' = [run EXCEPT ![r] = Broken(run[r], task[r].kind)]
      BY <2>1 DEF Refused, TimeOut, At, Busy
    <3> QED BY <3>1, SameJobs, Breaks
  <2>2. CASE PollCancelled(r)
    <3>1. /\ UNCHANGED <<task, job, wiped, restarts>> /\ run[r].pc # "idle"
          /\ run' = [run EXCEPT ![r] = [Idle EXCEPT !.pc = "raised"]]
      BY <2>2 DEF PollCancelled, At, Raise
    <3> QED BY <3>1, Raises
  <2>3. CASE Cancel(r) \/ Start(r) \/ Segment(r) \/ Submit(r) \/ QueueFull(r)
    BY <2>3, CancelStep, StartStep, SegmentStep, SubmitStep, QueueFullStep
  <2>4. CASE Register(r) \/ Mark(r) \/ Complete(r)
    BY <2>4, RegisterStep, MarkStep, CompleteStep
  <2>5. CASE \E answered \in BOOLEAN : Post(r, answered)
    BY <2>5, PostStep
  <2>6. CASE \E state \in {"success", "failed"} : Poll(r, state)
    BY <2>6, PollStep
  <2>7. CASE \E joined \in BOOLEAN : Finish(r, joined)
    BY <2>7, FinishStep
  <2> QED BY <1>4, <2>1, <2>2, <2>3, <2>4, <2>5, <2>6, <2>7 DEF Work
<1>5. CASE Restart
  BY <1>5, RestartStep
<1> QED BY <1>1, <1>2, <1>3, <1>4, <1>5 DEF Next

-----------------------------------------------------------------------------
(* Theorems *)

\* Rows and workers keep their types, and the first short video of a chain is put
\* together from segments that the provider made for the place they are in and for
\* this task, through any restarts, lost answers and cancellations.
THEOREM RightSegments == Spec => []SegmentsConsistent
<1>1. TInv /\ SegInv => SegmentsConsistent
  <2> SUFFICES ASSUME TInv, SegInv PROVE SegmentsConsistent
    OBVIOUS
  <2>1. TypeOK
    <3>1. task \in [Rows -> TaskRow] /\ job \in Seq(JobRow) /\ wiped \subseteq Rows
          /\ restarts \in 0..MaxRestarts
      BY DEF TInv
    <3>2. \A r \in Rows : /\ run[r].seg \in 0..(N + 1) /\ run[r].attempt \in 0..Attempts
                          /\ run[r].id \in 0..Len(job)
      <4>1. \A r \in Rows : run[r].seg \in 0..(N + 1) /\ run[r].attempt \in 0..Attempts
        BY Typed DEF RunRow
      <4>2. \A r \in Rows : run[r].id \in Nat /\ run[r].id <= Len(job) /\ Len(job) \in Nat
        BY Typed DEF RunKnown
      <4> QED BY <4>1, <4>2
    <3> QED BY <3>1, <3>2 DEF TypeOK, TaskRow, JobRow, Stages
  <2>2. RightSegment
    <3> SUFFICES ASSUME NEW r \in Rows, Own(r), NEW s \in Segments, task[r].done[s].job # 0
                 PROVE  job[task[r].done[s].job].seg = s /\ job[task[r].done[s].job].row = r
      BY DEF RightSegment, Own
    <3>1. task[r].done[s] # NoFile
      BY DEF NoFile
    <3> QED BY <3>1 DEF SegInv, InOrder
  <2> QED BY <2>1, <2>2 DEF SegmentsConsistent
<1> QED BY <1>1, VideoInit, VideoNext, PTL DEF Spec

\* No task pays for a segment that its own checkpoint lists as completed, for either
\* runner, resumed tasks included, however often the service restarts.
THEOREM PaidSegmentsKept == Spec => NeverRemade
<1>1. TInv /\ SegInv /\ [Next]_vars =>
        [Len(job') > Len(job) => task[job'[Len(job')].row].done[job'[Len(job')].seg] = NoFile]_vars
  <2> SUFFICES ASSUME TInv, SegInv, [Next]_vars, Len(job') > Len(job)
               PROVE  task[job'[Len(job')].row].done[job'[Len(job')].seg] = NoFile
    OBVIOUS
  <2>1. Len(job) \in Nat /\ Len(job') # Len(job)
    <3>1. TInv'
      BY VideoNext
    <3>2. Len(job) \in Nat /\ Len(job') \in Nat
      BY <3>1 DEF TInv
    <3> QED BY <3>2
  <2>2. PICK r \in Rows, answered \in BOOLEAN : Post(r, answered)
    <3>1. job' # job
      BY <2>1
    <3>2. ~\E r \in Rows, state \in {"success", "failed"} : Poll(r, state)
      <4> SUFFICES ASSUME NEW r \in Rows, NEW state \in {"success", "failed"}, Poll(r, state) PROVE FALSE
        OBVIOUS
      <4>1. run[r].pc = "poll" /\ job' = [job EXCEPT ![run[r].id].state = state]
        BY DEF Poll, At
      <4>2. run[r].id \in 1..Len(job) /\ job \in Seq(JobRow)
        BY <4>1, Typed DEF RunKnown, Issued, TInv
      <4>3. Len(job') = Len(job)
        BY <4>1, <4>2
      <4> QED BY <2>1, <4>3
    <3>3. Next
      BY <3>1 DEF vars
    <3> QED BY <3>1, <3>2, <3>3
            DEF Next, Work, Enqueue, Resume, Cancel, Restart, Start, Segment, Submit, Refused,
                QueueFull, Register, Mark, PollCancelled, TimeOut, Complete, Finish
  <2>3. run[r].pc = "post" /\ job' = Append(job, [row |-> r, seg |-> run[r].seg, state |-> "running"])
    BY <2>2 DEF Post, At
  <2>4. job'[Len(job')].row = r /\ job'[Len(job')].seg = run[r].seg /\ run[r].seg \in Segments
    BY <2>1, <2>3, Typed DEF TInv, RunKnown, Busy
  <2>5. task[r].done[run[r].seg] = NoFile
    BY <2>3, <2>4 DEF SegInv, DoneKept, Busy
  <2> QED BY <2>4, <2>5
<1> QED BY <1>1, VideoInit, VideoNext, PTL DEF Spec, NeverRemade
=============================================================================
