------------------------------- MODULE AsrPool -------------------------------
(***************************************************************************)
(* The persistent ASR worker pool (src/jinpipe/workers/asr_worker.py): the *)
(* worker processes, the two reader threads of the parent, the supervisor  *)
(* coroutine, submit() and stop(), with worker crashes and stalls.         *)
(*                                                                         *)
(* A multiprocessing.Queue is written through a feeder thread of the       *)
(* producing process and read under a lock shared by all consumers.  For   *)
(* the task queue the lock is explicit: an idle worker holds it while it   *)
(* blocks in get(), and a process that dies there never releases it.  For  *)
(* the result and heartbeat queues the reader is one thread, so only the   *)
(* order of each producer matters: one channel per worker, of which a      *)
(* process that dies leaves some prefix (what its feeder had flushed).     *)
(*                                                                         *)
(* Time is abstract: age[w] is how many of the two stall allowances        *)
(* (stall_timeout_s, then diarize_stall_timeout_s) have gone by since the  *)
(* last heartbeat of w.  What a result holds beyond ok/error, the model    *)
(* calls, logging and the polling intervals are left out.                  *)
(***************************************************************************)
EXTENDS Naturals, FiniteSets, Sequences, SequencesExt

CONSTANTS
    Worker,         \* worker_specs, one process each
    Task,           \* tasks that may be submitted
    Diarize,        \* those of kind "diarize"; the others are of kind "asr"
    NoTask,         \* None, where a task id is expected
    Poison,         \* None on the task queue: stop()'s sentinel
    Free, Lost,     \* the reader lock of the task queue: held by no one; by a dead process
    Faults,         \* the kinds of fault this instance allows
    MaxFaults       \* bound on how many of them occur

FaultKind ==
    { "crash_reported",     \* a worker dies in a task whose start heartbeat has been read
      "crash",              \* a worker dies in a task, with messages nobody has read
      "crash_idle",         \* a worker dies while it waits for a task
      "crash_loading",      \* model_loader raises
      "hang",               \* a task never returns
      "late" }              \* a task outlasts its allowance and may return after all

\* The faults the supervisor is written for: it knows which task is affected.
Attributable == {"crash_reported", "hang"}

ASSUME PoolAssumption ==
    /\ IsFiniteSet(Worker)
    /\ Diarize \subseteq Task
    /\ NoTask \notin Task
    /\ Poison \notin Task
    /\ Free \notin Worker
    /\ Lost \notin Worker
    /\ Free # Lost
    /\ Faults \subseteq FaultKind
    /\ MaxFaults \in Nat

VARIABLES
    taskQ,          \* _task_queue
    lock,           \* who holds the reader lock of _task_queue
    pc,             \* where each worker process is in _worker_main
    cur,            \* the task a worker process runs
    hb,             \* unread heartbeats of each worker: [task, phase]
    res,            \* unread results of each worker: [task, ok]
    inFlight,       \* _in_flight
    age,            \* allowances gone by since _last_heartbeat
    pending,        \* keys of _pending_tasks and _pending_futures
    fut,            \* the future of each task
    callbacks,      \* _resolve_future calls scheduled on the event loop
    sup,            \* where the supervisor is in _check_worker
    mode,           \* where stop() is
    reading,        \* whether the result thread is still in its loop
    joining,        \* workers stop() has not joined yet
    faults          \* how many faults so far, and the kinds of the others (history)

workerVars == <<lock, pc, cur>>
channelVars == <<hb, res>>
supVars == <<inFlight, age, sup>>
loopVars == <<pending, fut, callbacks>>
stopVars == <<mode, reading, joining>>
vars == <<taskQ, workerVars, channelVars, supVars, loopVars, stopVars, faults>>

Idle == [at |-> "idle"]

SupState ==
    {Idle}
    \union [at : {"kill"}, worker : Worker, crashed : BOOLEAN]
    \union [at : {"respawn"}, worker : Worker, task : Task \union {NoTask}]

Alive(w) == pc[w] \in {"loading", "getting", "running", "hung"}

\* The event loop is blocked while _check_worker or stop() waits in a join.
LoopFree == sup = Idle /\ mode \in {"running", "stopped", "raised"}

\* A live process and the task it holds.
Executes(w, t) == pc[w] \in {"running", "hung"} /\ cur[w] = t

TypeOK ==
    /\ taskQ \in Seq(Task \union {Poison})
    /\ lock \in Worker \union {Free, Lost}
    /\ pc \in [Worker -> {"loading", "getting", "running", "hung", "dead", "exited"}]
    /\ cur \in [Worker -> Task \union {NoTask}]
    /\ hb \in [Worker -> Seq([task : Task, phase : {"start", "end"}])]
    /\ res \in [Worker -> Seq([task : Task, ok : BOOLEAN])]
    /\ inFlight \in [Worker -> Task \union {NoTask}]
    /\ age \in [Worker -> 0..2]
    /\ pending \subseteq Task
    /\ fut \in [Task -> {"new", "waiting", "ok", "error", "aborted"}]
    /\ callbacks \subseteq [task : Task, ok : BOOLEAN]
    /\ sup \in SupState
    /\ mode \in {"running", "stopping", "failing", "stopped", "raised"}
    /\ reading \in BOOLEAN
    /\ joining \subseteq Worker
    /\ faults \in [count : 0..MaxFaults, blind : SUBSET FaultKind]

Init ==
    /\ taskQ = <<>>
    /\ lock = Free
    /\ pc = [w \in Worker |-> "loading"]
    /\ cur = [w \in Worker |-> NoTask]
    /\ hb = [w \in Worker |-> <<>>]
    /\ res = [w \in Worker |-> <<>>]
    /\ inFlight = [w \in Worker |-> NoTask]
    /\ age = [w \in Worker |-> 0]
    /\ pending = {}
    /\ fut = [t \in Task |-> "new"]
    /\ callbacks = {}
    /\ sup = Idle
    /\ mode = "running"
    /\ reading = TRUE
    /\ joining = {}
    /\ faults = [count |-> 0, blind |-> {}]

-----------------------------------------------------------------------------
(* A worker process. *)

Load(w) ==
    /\ pc[w] = "loading"
    /\ pc' = [pc EXCEPT ![w] = "getting"]
    /\ UNCHANGED <<taskQ, lock, cur, channelVars, supVars, loopVars, stopVars, faults>>

AcquireReaderLock(w) ==
    /\ pc[w] = "getting"
    /\ lock = Free
    /\ lock' = w
    /\ UNCHANGED <<taskQ, pc, cur, channelVars, supVars, loopVars, stopVars, faults>>

\* Mutant of GetTask: the sentinel is not told from a task.
GetTaskNoSentinel(w) ==
    /\ pc[w] = "getting"
    /\ lock = w
    /\ taskQ # <<>>
    /\ lock' = Free
    /\ taskQ' = Tail(taskQ)
    /\ pc' = [pc EXCEPT ![w] = "running"]
    /\ cur' = [cur EXCEPT ![w] = Head(taskQ)]
    /\ hb' = [hb EXCEPT ![w] = Append(@, [task |-> Head(taskQ), phase |-> "start"])]
    /\ UNCHANGED <<res, supVars, loopVars, stopVars, faults>>

\* task_queue.get() returns; None ends the process, a task starts with a heartbeat.
GetTask(w) ==
    /\ pc[w] = "getting"
    /\ lock = w
    /\ taskQ # <<>>
    /\ lock' = Free
    /\ taskQ' = Tail(taskQ)
    /\ \/ /\ Head(taskQ) = Poison
          /\ pc' = [pc EXCEPT ![w] = "exited"]
          /\ UNCHANGED <<cur, hb>>
       \/ /\ Head(taskQ) # Poison
          /\ pc' = [pc EXCEPT ![w] = "running"]
          /\ cur' = [cur EXCEPT ![w] = Head(taskQ)]
          /\ hb' = [hb EXCEPT ![w] = Append(@, [task |-> Head(taskQ), phase |-> "start"])]
    /\ UNCHANGED <<res, supVars, loopVars, stopVars, faults>>

\* The result, then the end heartbeat, then back to get().  ok is FALSE when
\* transcribe_fn or diarize_fn raised.
FinishTask(w) ==
    /\ pc[w] = "running" \/ (pc[w] = "hung" /\ "late" \in faults.blind)
    /\ \E ok \in BOOLEAN : res' = [res EXCEPT ![w] = Append(@, [task |-> cur[w], ok |-> ok])]
    /\ hb' = [hb EXCEPT ![w] = Append(@, [task |-> cur[w], phase |-> "end"])]
    /\ pc' = [pc EXCEPT ![w] = "getting"]
    /\ cur' = [cur EXCEPT ![w] = NoTask]
    /\ UNCHANGED <<taskQ, lock, supVars, loopVars, stopVars, faults>>

-----------------------------------------------------------------------------
(* The death of a process: its unflushed messages and the lock it holds    *)
(* are gone.                                                               *)

Die(w) ==
    /\ pc' = [pc EXCEPT ![w] = "dead"]
    /\ cur' = [cur EXCEPT ![w] = NoTask]
    /\ lock' = IF lock = w THEN Lost ELSE lock
    /\ \E flushed \in Prefixes(hb[w]) : hb' = [hb EXCEPT ![w] = flushed]
    /\ \E flushed \in Prefixes(res[w]) : res' = [res EXCEPT ![w] = flushed]

\* The start heartbeat of the task was read and nothing of w is unread.
Reported(w) == inFlight[w] = cur[w] /\ hb[w] = <<>> /\ res[w] = <<>>

Fault(kind) ==
    /\ kind \in Faults
    /\ faults.count < MaxFaults
    /\ faults' = [count |-> faults.count + 1, blind |-> faults.blind \union ({kind} \ Attributable)]

Crash(w) ==
    /\ \/ /\ pc[w] \in {"running", "hung"}
          /\ Fault(IF Reported(w) THEN "crash_reported" ELSE "crash")
       \/ pc[w] = "getting" /\ Fault("crash_idle")
       \/ pc[w] = "loading" /\ Fault("crash_loading")
    /\ Die(w)
    /\ UNCHANGED <<taskQ, supVars, loopVars, stopVars>>

Hang(w) ==
    /\ \E kind \in {"hang", "late"} : Fault(kind)
    /\ pc[w] = "running"
    /\ pc' = [pc EXCEPT ![w] = "hung"]
    /\ UNCHANGED <<taskQ, lock, cur, channelVars, supVars, loopVars, stopVars>>

-----------------------------------------------------------------------------
(* submit(), the two reader threads and the event loop of the parent. *)

Submit(t) ==
    /\ LoopFree /\ mode = "running"
    /\ fut[t] = "new"
    /\ fut' = [fut EXCEPT ![t] = "waiting"]
    /\ pending' = pending \union {t}
    /\ taskQ' = Append(taskQ, t)
    /\ UNCHANGED <<workerVars, channelVars, supVars, callbacks, stopVars, faults>>

\* Mutant of ReadResult: after _closed an entry is popped but not resolved.
ReadResultDropClosed(w) ==
    /\ reading
    /\ res[w] # <<>>
    /\ LET item == Head(res[w]) IN
         /\ callbacks' = IF item.task \in pending /\ mode = "running"
                         THEN callbacks \union {item} ELSE callbacks
         /\ pending' = pending \ {item.task}
         /\ mode' = IF mode = "failing" /\ item.task \in pending THEN "raised" ELSE mode
    /\ res' = [res EXCEPT ![w] = Tail(@)]
    /\ reading' = (mode = "running")
    /\ UNCHANGED <<taskQ, workerVars, hb, supVars, fut, joining, faults>>

\* _read_results_loop.  A result whose future is gone is dropped.  After
\* _closed the thread hands over at most the item it was waiting for; if that
\* pops an entry while stop() iterates over _pending_futures, the iteration
\* raises.
ReadResult(w) ==
    /\ reading
    /\ res[w] # <<>>
    /\ LET item == Head(res[w]) IN
         /\ callbacks' = IF item.task \in pending THEN callbacks \union {item} ELSE callbacks
         /\ pending' = pending \ {item.task}
         /\ mode' = IF mode = "failing" /\ item.task \in pending THEN "raised" ELSE mode
    /\ res' = [res EXCEPT ![w] = Tail(@)]
    /\ reading' = (mode = "running")
    /\ UNCHANGED <<taskQ, workerVars, hb, supVars, fut, joining, faults>>

ReaderExits ==
    /\ reading
    /\ mode # "running"
    /\ reading' = FALSE
    /\ UNCHANGED <<taskQ, workerVars, channelVars, supVars, loopVars, mode, joining, faults>>

\* _read_heartbeats_loop; what it records after _closed is never looked at.
ReadHeartbeat(w) ==
    /\ mode = "running"
    /\ hb[w] # <<>>
    /\ age' = [age EXCEPT ![w] = 0]
    /\ inFlight' = [inFlight EXCEPT ![w] =
            IF Head(hb[w]).phase = "start" THEN Head(hb[w]).task ELSE NoTask]
    /\ hb' = [hb EXCEPT ![w] = Tail(@)]
    /\ UNCHANGED <<taskQ, workerVars, res, sup, loopVars, stopVars, faults>>

\* Mutant of Resolve: no done() guard.
ResolveAlways ==
    /\ LoopFree
    /\ \E item \in callbacks :
         /\ callbacks' = callbacks \ {item}
         /\ fut' = [fut EXCEPT ![item.task] = IF item.ok THEN "ok" ELSE "error"]
    /\ UNCHANGED <<taskQ, workerVars, channelVars, supVars, pending, stopVars, faults>>

\* _resolve_future, run by the event loop.
Resolve ==
    /\ LoopFree
    /\ \E item \in callbacks :
         /\ callbacks' = callbacks \ {item}
         /\ fut' = IF fut[item.task] = "waiting"
                   THEN [fut EXCEPT ![item.task] = IF item.ok THEN "ok" ELSE "error"]
                   ELSE fut
    /\ UNCHANGED <<taskQ, workerVars, channelVars, supVars, pending, stopVars, faults>>

-----------------------------------------------------------------------------
(* The supervisor. *)

\* Mutant of Allowance: one timeout for every kind of task.
AllowanceShort(w) == 1

\* The allowance of the task w was last heard of: diarize tasks get the long
\* one, but only for as long as they are pending.
Allowance(w) == IF inFlight[w] \in Diarize \intersect pending THEN 2 ELSE 1

\* A stall allowance goes by.  The reader threads poll every half second, so
\* they are never behind by a whole allowance; a healthy task ends within its
\* own, and a fault is what outlasts it.
Tick(w) ==
    /\ mode = "running"
    /\ inFlight[w] # NoTask
    /\ hb[w] = <<>> /\ res[w] = <<>>
    /\ age[w] < 2
    /\ pc[w] = "running" => age[w] + 1 < (IF cur[w] \in Diarize THEN 2 ELSE 1)
    /\ age' = [age EXCEPT ![w] = @ + 1]
    /\ UNCHANGED <<taskQ, workerVars, channelVars, inFlight, sup, loopVars, stopVars, faults>>

\* Mutant of Stalled: only exit codes are looked at.
StalledNever(w) == FALSE

Stalled(w) == Alive(w) /\ inFlight[w] # NoTask /\ age[w] >= Allowance(w)

\* Mutant of CheckWorker: the task is requeued before its worker is terminated.
CheckWorkerRequeues(w) ==
    /\ LoopFree /\ mode = "running"
    /\ ~Alive(w) \/ Stalled(w)
    /\ sup' = [at |-> "kill", worker |-> w, crashed |-> ~Alive(w)]
    /\ taskQ' = IF inFlight[w] \in pending THEN Append(taskQ, inFlight[w]) ELSE taskQ
    /\ UNCHANGED <<workerVars, channelVars, inFlight, age, loopVars, stopVars, faults>>

\* _check_worker up to its early return.
CheckWorker(w) ==
    /\ LoopFree /\ mode = "running"
    /\ ~Alive(w) \/ Stalled(w)
    /\ sup' = [at |-> "kill", worker |-> w, crashed |-> ~Alive(w)]
    /\ UNCHANGED <<taskQ, workerVars, channelVars, inFlight, age, loopVars, stopVars, faults>>

\* _in_flight is read again, the process is terminated and joined.
KillWorker ==
    /\ sup.at = "kill"
    /\ LET w == sup.worker IN
         /\ sup' = [at |-> "respawn", worker |-> w, task |-> inFlight[w]]
         /\ IF sup.crashed THEN UNCHANGED <<workerVars, channelVars>> ELSE Die(w)
    /\ UNCHANGED <<taskQ, inFlight, age, loopVars, stopVars, faults>>

\* _spawn: a new process, heard of just now, with nothing in flight.
Spawn(w) ==
    /\ pc' = [pc EXCEPT ![w] = "loading"]
    /\ inFlight' = [inFlight EXCEPT ![w] = NoTask]
    /\ age' = [age EXCEPT ![w] = 0]

\* Mutant of RespawnWorker: the task is not requeued.
RespawnWorkerForget ==
    /\ sup.at = "respawn"
    /\ Spawn(sup.worker)
    /\ sup' = Idle
    /\ UNCHANGED <<taskQ, lock, cur, channelVars, loopVars, stopVars, faults>>

\* The task is requeued if it is still pending, and _spawn replaces the process.
RespawnWorker ==
    /\ sup.at = "respawn"
    /\ taskQ' = IF sup.task \in pending THEN Append(taskQ, sup.task) ELSE taskQ
    /\ Spawn(sup.worker)
    /\ sup' = Idle
    /\ UNCHANGED <<lock, cur, channelVars, loopVars, stopVars, faults>>

-----------------------------------------------------------------------------
(* stop() *)

\* _closed is set, the supervisor cancelled, one None queued per process.
StopBegin ==
    /\ LoopFree /\ mode = "running"
    /\ mode' = "stopping"
    /\ taskQ' = taskQ \o [i \in 1..Cardinality(Worker) |-> Poison]
    /\ joining' = Worker
    /\ UNCHANGED <<workerVars, channelVars, supVars, loopVars, reading, faults>>

\* join(timeout=10), then terminate whatever is still alive.
StopJoin(w) ==
    /\ mode = "stopping"
    /\ w \in joining
    /\ joining' = joining \ {w}
    /\ mode' = IF joining = {w} THEN "failing" ELSE mode
    /\ IF Alive(w) THEN Die(w) ELSE UNCHANGED <<workerVars, channelVars>>
    /\ UNCHANGED <<taskQ, supVars, loopVars, reading, faults>>

\* The loop over _pending_futures, one entry at a time.
StopFail ==
    /\ mode = "failing"
    /\ \/ \E t \in pending :
            /\ fut[t] = "waiting"
            /\ fut' = [fut EXCEPT ![t] = "aborted"]
            /\ UNCHANGED mode
       \/ /\ \A t \in pending : fut[t] # "waiting"
          /\ mode' = "stopped"
          /\ UNCHANGED fut
    /\ UNCHANGED <<taskQ, workerVars, channelVars, supVars, pending, callbacks, reading,
                   joining, faults>>

-----------------------------------------------------------------------------

WorkerNext(w) ==
    Load(w) \/ AcquireReaderLock(w) \/ GetTask(w) \/ FinishTask(w) \/ Crash(w) \/ Hang(w)

ParentNext(w) ==
    \/ ReadResult(w) \/ ReadHeartbeat(w) \/ Tick(w) \/ CheckWorker(w) \/ StopJoin(w)

Next ==
    \/ \E w \in Worker : WorkerNext(w) \/ ParentNext(w)
    \/ \E t \in Task : Submit(t)
    \/ Resolve \/ KillWorker \/ RespawnWorker
    \/ StopBegin \/ StopFail \/ ReaderExits

\* Processes, threads and the event loop keep running, time passes and a task
\* that did not hang ends.  Nothing obliges anyone to submit, to stop or to fail.
Fairness ==
    /\ \A w \in Worker :
         /\ WF_vars(Load(w)) /\ WF_vars(AcquireReaderLock(w)) /\ WF_vars(GetTask(w))
         /\ WF_vars(pc[w] = "running" /\ FinishTask(w))
         /\ WF_vars(ReadResult(w)) /\ WF_vars(ReadHeartbeat(w))
         /\ WF_vars(Tick(w)) /\ WF_vars(CheckWorker(w)) /\ WF_vars(StopJoin(w))
    /\ WF_vars(Resolve) /\ WF_vars(KillWorker) /\ WF_vars(RespawnWorker)
    /\ WF_vars(StopFail)

Spec == Init /\ [][Next]_vars
FairSpec == Spec /\ Fairness

\* An assumption about the scheduling of threads, which the code does not enforce:
\* the heartbeats of a worker have been read when it is found alive but stalled.
Timely ==
    \A w \in Worker :
        sup = Idle /\ sup' = [at |-> "kill", worker |-> w, crashed |-> FALSE] => hb[w] = <<>>

TimelySpec == Init /\ [][Next /\ Timely]_vars
TimelyFairSpec == TimelySpec /\ Fairness

-----------------------------------------------------------------------------
(* Properties *)

\* So far the parent could tell of every fault which task it hit.
AllAttributed == faults.blind = {}

\* No task is forgotten (asr_worker.py 11-15, 533-544) as long as the parent can
\* tell which task a fault hit: whoever awaits one can point to the queue, a live
\* process, an unread result or a supervisor that knows of it.
NoTaskLost ==
    mode = "running" /\ AllAttributed => \A t \in pending :
        \/ Contains(taskQ, t)
        \/ \E w \in Worker :
             \/ Executes(w, t)
             \/ \E i \in DOMAIN res[w] : res[w][i].task = t
             \/ pc[w] = "dead" /\ inFlight[w] = t
        \/ sup.at = "respawn" /\ sup.task = t

\* Requeuing never makes two live processes work on the same awaited task.
ExclusiveExecution ==
    \A t \in pending : \A v, w \in Worker : Executes(v, t) /\ Executes(w, t) => v = w

\* A requeued task can be answered twice, but a future is settled once and
\* for all (the done() guard of _resolve_future, the pops of the reader).
SettledOnce ==
    [][\A t \in Task : fut[t] \in {"ok", "error", "aborted"} => fut'[t] = fut[t]]_vars

\* When stop() returns nobody is left waiting: every task it did not fail has
\* its answer scheduled on the loop.
StopLeavesNoWaiter ==
    mode = "stopped" => \A t \in Task :
        fut[t] = "waiting" => \E item \in callbacks : item.task = t

\* The supervisor never terminates a healthy process in a task that is awaited
\* and that it has been told of (asr_worker.py 393-398).
HealthyWorkIsSpared ==
    [][\A w \in Worker :
         /\ sup' = [at |-> "kill", worker |-> w, crashed |-> FALSE]
         /\ pc[w] = "running" /\ hb[w] = <<>>
         => cur[w] \notin pending]_sup

\* Whoever awaits a task is answered, unless stop() itself raised or the parent
\* could not tell which task a fault hit.  A task is submitted once, so it is enough
\* that again and again nobody waits.
EveryTaskAnswered ==
    []<>(mode = "raised" \/ ~AllAttributed \/ \A t \in Task : fut[t] # "waiting")

\* Once the faults stop (Fault is bounded) every worker that crashed or hung has
\* been replaced for good, or the pool was stopped.
WorkersRecover ==
    <>[](mode = "running" => \A w \in Worker : pc[w] \notin {"dead", "hung"})

\* Refinement: the futures are the abstract service's requests.
Service == INSTANCE AsrService WITH open <- (mode = "running"), status <- fut
ImplementsService == Service!Spec

=============================================================================
