--------------------------- MODULE AsrPoolProofs ---------------------------
(***************************************************************************)
(* Theorems about AsrPool, for any number of workers, tasks and faults of  *)
(* every kind: type correctness, that callers see AsrService, that stop()  *)
(* leaves no one waiting, that no awaited task is worked on by two live    *)
(* processes and that a healthy process is not terminated in a task that   *)
(* is awaited; and, as long as faults can be attributed and the heartbeats *)
(* are read in time, that no task is lost.                                 *)
(***************************************************************************)
EXTENDS AsrPool, FiniteSetTheorems, SequenceTheorems, TLAPS

Heartbeat == [task : Task, phase : {"start", "end"}]
Result == [task : Task, ok : BOOLEAN]

\* A process that is in a task knows which.
BusyHasTask == \A w \in Worker : pc[w] \in {"running", "hung"} => cur[w] \in Task

TypeInv == TypeOK /\ BusyHasTask

-----------------------------------------------------------------------------
(* Type correctness. *)

\* What a process that dies leaves in a channel is a sequence of what was in it.
LEMMA PrefixType ==
    ASSUME NEW S, NEW s \in Seq(S), NEW p \in Prefixes(s)
    PROVE  p \in Seq(S)
<1>1. PICK l \in 0..Len(s) : p = SubSeq(s, 1, l)
  BY DEF Prefixes
<1>2. \A i \in 1..l : s[i] \in S
  BY <1>1, ElementOfSeq
<1>3. QED
  BY <1>1, <1>2, SubSeqProperties

LEMMA DieType ==
    ASSUME TypeInv, NEW w \in Worker, Die(w)
    PROVE  /\ pc' \in [Worker -> {"loading", "getting", "running", "hung", "dead", "exited"}]
           /\ cur' \in [Worker -> Task \union {NoTask}]
           /\ lock' \in Worker \union {Free, Lost}
           /\ hb' \in [Worker -> Seq(Heartbeat)]
           /\ res' \in [Worker -> Seq(Result)]
           /\ BusyHasTask'
<1> USE DEF TypeInv, TypeOK, Die, Heartbeat, Result
<1>1. hb' \in [Worker -> Seq(Heartbeat)]
  <2>1. PICK flushed \in Prefixes(hb[w]) : hb' = [hb EXCEPT ![w] = flushed]
    OBVIOUS
  <2>2. flushed \in Seq(Heartbeat)
    BY PrefixType
  <2>3. QED
    BY <2>1, <2>2
<1>2. res' \in [Worker -> Seq(Result)]
  <2>1. PICK flushed \in Prefixes(res[w]) : res' = [res EXCEPT ![w] = flushed]
    OBVIOUS
  <2>2. flushed \in Seq(Result)
    BY PrefixType
  <2>3. QED
    BY <2>1, <2>2
<1>3. QED
  BY <1>1, <1>2 DEF BusyHasTask

LEMMA FaultType ==
    ASSUME TypeInv, NEW kind, Fault(kind)
    PROVE  faults' \in [count : 0..MaxFaults, blind : SUBSET FaultKind]
<1>1. kind \in FaultKind /\ MaxFaults \in Nat
  BY PoolAssumption DEF Fault, PoolAssumption
<1>2. faults.count \in 0..MaxFaults /\ faults.blind \subseteq FaultKind
  BY DEF TypeInv, TypeOK
<1>3. faults.count + 1 \in 0..MaxFaults
  BY <1>1, <1>2 DEF Fault
<1>4. faults.blind \union ({kind} \ Attributable) \subseteq FaultKind
  BY <1>1, <1>2
<1>5. QED
  BY <1>3, <1>4 DEF Fault

LEMMA TypeInit == Init => TypeInv
  BY PoolAssumption DEF PoolAssumption, Init, TypeInv, TypeOK, BusyHasTask, SupState, Idle

LEMMA TypeNext == TypeInv /\ [Next]_vars => TypeInv'
<1> SUFFICES ASSUME TypeInv, [Next]_vars PROVE TypeInv'
  OBVIOUS
<1> DEFINE PC == {"loading", "getting", "running", "hung", "dead", "exited"}
           Types ==
             /\ taskQ \in Seq(Task \union {Poison})
             /\ lock \in Worker \union {Free, Lost}
             /\ pc \in [Worker -> PC]
             /\ cur \in [Worker -> Task \union {NoTask}]
             /\ hb \in [Worker -> Seq(Heartbeat)]
             /\ res \in [Worker -> Seq(Result)]
             /\ inFlight \in [Worker -> Task \union {NoTask}]
             /\ age \in [Worker -> 0..2]
             /\ pending \subseteq Task
             /\ fut \in [Task -> {"new", "waiting", "ok", "error", "aborted"}]
             /\ callbacks \subseteq Result
             /\ sup \in SupState
             /\ mode \in {"running", "stopping", "failing", "stopped", "raised"}
             /\ reading \in BOOLEAN
             /\ joining \subseteq Worker
             /\ faults \in [count : 0..MaxFaults, blind : SUBSET FaultKind]
             /\ BusyHasTask
<1>a. Types
  BY DEF TypeInv, TypeOK, Heartbeat, Result
<1>b. SUFFICES Types'
  BY DEF TypeInv, TypeOK, Heartbeat, Result
<1> USE <1>a DEF BusyHasTask, vars, workerVars, channelVars, supVars, loopVars, stopVars
<1>1. ASSUME NEW w \in Worker, Load(w) PROVE Types'
  BY <1>1 DEF Load
<1>2. ASSUME NEW w \in Worker, AcquireReaderLock(w) PROVE Types'
  BY <1>2 DEF AcquireReaderLock
<1>3. ASSUME NEW w \in Worker, GetTask(w) PROVE Types'
  <2>1. Head(taskQ) \in Task \union {Poison} /\ Tail(taskQ) \in Seq(Task \union {Poison})
    BY <1>3, HeadTailProperties DEF GetTask
  <2>2. CASE Head(taskQ) = Poison
    BY <1>3, <2>1, <2>2 DEF GetTask
  <2>3. CASE Head(taskQ) # Poison
    <3>1. Head(taskQ) \in Task
      BY <2>1, <2>3
    <3>2. Append(hb[w], [task |-> Head(taskQ), phase |-> "start"]) \in Seq(Heartbeat)
      <4>1. [task |-> Head(taskQ), phase |-> "start"] \in Heartbeat
        BY ONLY <3>1 DEF Heartbeat
      <4>2. hb[w] \in Seq(Heartbeat)
        BY ONLY <1>a, w \in Worker
      <4>3. QED
        BY ONLY <4>1, <4>2, AppendProperties
    <3>3. hb' \in [Worker -> Seq(Heartbeat)]
      <4>1. hb' = [hb EXCEPT ![w] = Append(@, [task |-> Head(taskQ), phase |-> "start"])]
        BY ONLY <1>3, <2>3 DEF GetTask
      <4>2. hb \in [Worker -> Seq(Heartbeat)]
        BY ONLY <1>a
      <4>3. QED
        BY ONLY <3>2, <4>1, <4>2
    <3>4. /\ pc' = [pc EXCEPT ![w] = "running"] /\ cur' = [cur EXCEPT ![w] = Head(taskQ)]
          /\ lock' = Free /\ taskQ' = Tail(taskQ)
          /\ UNCHANGED <<res, supVars, loopVars, stopVars, faults>>
      BY <1>3, <2>3 DEF GetTask
    <3>5. QED
      BY <2>1, <3>1, <3>3, <3>4 DEF Heartbeat
  <2>4. QED
    BY <2>2, <2>3
<1>4. ASSUME NEW w \in Worker, FinishTask(w) PROVE Types'
  <2>1. cur[w] \in Task
    BY <1>4 DEF FinishTask
  <2>2. hb' \in [Worker -> Seq(Heartbeat)]
    <3>1. Append(hb[w], [task |-> cur[w], phase |-> "end"]) \in Seq(Heartbeat)
      BY <2>1, AppendProperties DEF Heartbeat
    <3>2. QED
      BY <1>4, <3>1 DEF FinishTask
  <2>3. res' \in [Worker -> Seq(Result)]
    <3>1. PICK ok \in BOOLEAN : res' = [res EXCEPT ![w] = Append(@, [task |-> cur[w], ok |-> ok])]
      BY <1>4 DEF FinishTask
    <3>2. Append(res[w], [task |-> cur[w], ok |-> ok]) \in Seq(Result)
      BY <2>1, AppendProperties DEF Result
    <3>3. QED
      BY <3>1, <3>2 DEF Result
  <2>4. QED
    BY <1>4, <2>1, <2>2, <2>3 DEF FinishTask
<1>5. ASSUME NEW w \in Worker, Crash(w) PROVE Types'
  <2>1. Die(w)
    BY <1>5 DEF Crash
  <2>2. faults' \in [count : 0..MaxFaults, blind : SUBSET FaultKind]
    BY <1>5, FaultType DEF Crash
  <2>3. QED
    BY <1>5, <2>1, <2>2, DieType DEF Crash
<1>6. ASSUME NEW w \in Worker, Hang(w) PROVE Types'
  <2>1. /\ pc[w] = "running" /\ pc' = [pc EXCEPT ![w] = "hung"]
        /\ UNCHANGED <<taskQ, lock, cur, channelVars, supVars, loopVars, stopVars>>
    BY <1>6 DEF Hang
  <2>2. faults' \in [count : 0..MaxFaults, blind : SUBSET FaultKind]
    BY <1>6, FaultType DEF Hang
  <2>3. QED
    BY <2>1, <2>2
<1>7. ASSUME NEW w \in Worker, ReadResult(w) PROVE Types'
  <2>1. Head(res[w]) \in Result /\ Tail(res[w]) \in Seq(Result)
    BY <1>7, HeadTailProperties DEF ReadResult
  <2>2. QED
    BY <1>7, <2>1 DEF ReadResult
<1>8. ASSUME NEW w \in Worker, ReadHeartbeat(w) PROVE Types'
  <2>1. Head(hb[w]) \in Heartbeat /\ Tail(hb[w]) \in Seq(Heartbeat)
    BY <1>8, HeadTailProperties DEF ReadHeartbeat
  <2>2. hb' \in [Worker -> Seq(Heartbeat)] /\ age' \in [Worker -> 0..2]
    BY <1>8, <2>1 DEF ReadHeartbeat
  <2>3. inFlight' \in [Worker -> Task \union {NoTask}]
    BY <1>8, <2>1 DEF ReadHeartbeat, Heartbeat
  <2>4. QED
    BY <1>8, <2>2, <2>3 DEF ReadHeartbeat
<1>9. ASSUME NEW w \in Worker, Tick(w) PROVE Types'
  <2>1. age' \in [Worker -> 0..2]
    <3>1. age[w] \in 0..2 /\ age[w] < 2
      BY <1>9 DEF Tick
    <3>2. age[w] + 1 \in 0..2
      BY <3>1
    <3>3. age' = [age EXCEPT ![w] = age[w] + 1]
      BY <1>9 DEF Tick
    <3>4. QED
      BY <3>2, <3>3
  <2>2. UNCHANGED <<taskQ, workerVars, channelVars, inFlight, sup, loopVars, stopVars, faults>>
    BY <1>9 DEF Tick
  <2>3. QED
    BY <2>1, <2>2
<1>10. ASSUME NEW w \in Worker, CheckWorker(w) PROVE Types'
  BY <1>10 DEF CheckWorker, Alive, SupState
<1>11. ASSUME NEW w \in Worker, StopJoin(w) PROVE Types'
  <2>1. CASE Alive(w)
    BY <1>11, <2>1, DieType DEF StopJoin
  <2>2. CASE ~Alive(w)
    BY <1>11, <2>2 DEF StopJoin
  <2>3. QED
    BY <2>1, <2>2
<1>12. ASSUME NEW t \in Task, Submit(t) PROVE Types'
  BY <1>12 DEF Submit
<1>13. CASE Resolve
  BY <1>13 DEF Resolve
<1>14. CASE KillWorker
  <2>1. sup \in [at : {"kill"}, worker : Worker, crashed : BOOLEAN]
    BY <1>14 DEF KillWorker, SupState, Idle
  <2>2. sup' \in SupState
    BY <1>14, <2>1 DEF KillWorker, SupState
  <2>3. CASE sup.crashed
    BY <1>14, <2>2, <2>3 DEF KillWorker
  <2>4. CASE ~sup.crashed
    BY <1>14, <2>1, <2>2, <2>4, DieType DEF KillWorker
  <2>5. QED
    BY <2>3, <2>4
<1>15. CASE RespawnWorker
  <2>1. sup \in [at : {"respawn"}, worker : Worker, task : Task \union {NoTask}]
    BY <1>15 DEF RespawnWorker, SupState, Idle
  <2>2. taskQ' \in Seq(Task \union {Poison})
    BY <1>15, <2>1, AppendProperties DEF RespawnWorker
  <2>3. /\ pc' = [pc EXCEPT ![sup.worker] = "loading"]
        /\ inFlight' = [inFlight EXCEPT ![sup.worker] = NoTask]
        /\ age' = [age EXCEPT ![sup.worker] = 0]
        /\ sup' = Idle
        /\ UNCHANGED <<lock, cur, channelVars, loopVars, stopVars, faults>>
    BY <1>15 DEF RespawnWorker, Spawn
  <2>4. QED
    BY <2>1, <2>2, <2>3 DEF SupState
<1>16. CASE StopBegin
  <2>1. Cardinality(Worker) \in Nat
    BY FS_CardinalityType, PoolAssumption DEF PoolAssumption
  <2>2. [i \in 1..Cardinality(Worker) |-> Poison] \in Seq(Task \union {Poison})
    BY <2>1
  <2>3. taskQ' \in Seq(Task \union {Poison})
    BY <1>16, <2>2, ConcatProperties DEF StopBegin
  <2>4. QED
    BY <1>16, <2>3 DEF StopBegin
<1>17. CASE StopFail
  BY <1>17 DEF StopFail
<1>18. CASE ReaderExits
  BY <1>18 DEF ReaderExits
<1>19. CASE UNCHANGED vars
  BY <1>19
<1>20. QED
  BY <1>1, <1>2, <1>3, <1>4, <1>5, <1>6, <1>7, <1>8, <1>9, <1>10, <1>11, <1>12, <1>13,
     <1>14, <1>15, <1>16, <1>17, <1>18, <1>19
     DEF Next, WorkerNext, ParentNext

\* Every variable of the pool stays in its type, whatever dies or stalls when.
THEOREM AsrPoolTypeOK == Spec => []TypeOK
<1>1. TypeInv => TypeOK
  BY DEF TypeInv
<1>2. QED
  BY <1>1, TypeInit, TypeNext, PTL DEF Spec

-----------------------------------------------------------------------------
(* What callers see. *)

\* The one-step relations of the abstract service, as a step of the pool.
LEMMA ServiceNext == TypeInv /\ [Next]_vars => [Service!Next]_(Service!vars)
<1> SUFFICES ASSUME TypeInv, [Next]_vars PROVE [Service!Next]_(Service!vars)
  OBVIOUS
<1>0. /\ callbacks \subseteq Result /\ pending \subseteq Task
      /\ fut \in [Task -> {"new", "waiting", "ok", "error", "aborted"}]
  BY DEF TypeInv, TypeOK, Result
<1> USE DEF Service!vars, Service!Next, vars, loopVars, stopVars
<1>1. ASSUME NEW t \in Task, Submit(t) PROVE Service!Accept(t)
  BY <1>1 DEF Submit, Service!Accept, stopVars
<1>2. CASE Resolve
  <2>1. PICK item \in callbacks :
          fut' = IF fut[item.task] = "waiting"
                 THEN [fut EXCEPT ![item.task] = IF item.ok THEN "ok" ELSE "error"]
                 ELSE fut
    BY <1>2 DEF Resolve
  <2>2. item.task \in Task /\ UNCHANGED mode
    BY <1>0, <1>2, <2>1 DEF Resolve, Result
  <2>3. CASE fut[item.task] = "waiting"
    <3>1. Service!Answer(item.task)
      BY <2>1, <2>2, <2>3 DEF Service!Answer
    <3>2. QED
      BY <2>2, <3>1
  <2>4. CASE fut[item.task] # "waiting"
    BY <2>1, <2>2, <2>4
  <2>5. QED
    BY <2>3, <2>4
<1>3. CASE StopBegin
  <2>1. Service!Close
    BY <1>3 DEF StopBegin, Service!Close
  <2>2. QED
    BY <2>1
<1>4. CASE StopFail
  <2>1. CASE \E t \in pending : fut[t] = "waiting" /\ fut' = [fut EXCEPT ![t] = "aborted"]
                                  /\ UNCHANGED mode
    <3>1. PICK t \in Task : fut[t] = "waiting" /\ fut' = [fut EXCEPT ![t] = "aborted"]
                              /\ UNCHANGED mode
      BY <1>0, <2>1
    <3>2. Service!Abort(t)
      BY <1>4, <3>1 DEF StopFail, Service!Abort
    <3>3. QED
      BY <3>2
  <2>2. CASE mode' = "stopped" /\ UNCHANGED fut
    BY <1>4, <2>2 DEF StopFail
  <2>3. QED
    BY <1>4, <2>1, <2>2 DEF StopFail
<1>5. ASSUME NEW w \in Worker, ReadResult(w) PROVE UNCHANGED Service!vars
  BY <1>5 DEF ReadResult
<1>6. ASSUME NEW w \in Worker, StopJoin(w) PROVE UNCHANGED Service!vars
  BY <1>6 DEF StopJoin
<1>7. ASSUME NEW w \in Worker, WorkerNext(w) PROVE UNCHANGED Service!vars
  BY <1>7 DEF WorkerNext, Load, AcquireReaderLock, GetTask, FinishTask, Crash, Hang
<1>8. ASSUME NEW w \in Worker, ReadHeartbeat(w) \/ Tick(w) \/ CheckWorker(w)
      PROVE  UNCHANGED Service!vars
  BY <1>8 DEF ReadHeartbeat, Tick, CheckWorker
<1>9. CASE KillWorker \/ RespawnWorker \/ ReaderExits \/ UNCHANGED vars
  BY <1>9 DEF KillWorker, RespawnWorker, ReaderExits
<1>10. QED
  BY <1>1, <1>2, <1>3, <1>4, <1>5, <1>6, <1>7, <1>8, <1>9 DEF Next, ParentNext

\* With crashed workers, lost messages and requeued tasks underneath, callers
\* see the abstract service.
THEOREM AsrPoolImplementsService == Spec => ImplementsService
<1>1. Init => Service!Init
  BY DEF Init, Service!Init
<1>2. QED
  BY <1>1, TypeInit, TypeNext, ServiceNext, PTL DEF Spec, ImplementsService, Service!Spec

\* A task that was requeued may be answered twice, its future is settled once.
THEOREM AsrPoolSettledOnce == Spec => SettledOnce
<1>1. TypeInv /\ [Next]_vars =>
        [\A t \in Task : fut[t] \in {"ok", "error", "aborted"} => fut'[t] = fut[t]]_vars
  <2> SUFFICES ASSUME TypeInv, [Next]_vars, NEW t \in Task,
                      fut[t] \in {"ok", "error", "aborted"}
               PROVE  fut'[t] = fut[t]
    OBVIOUS
  <2>1. [Service!Next]_(Service!vars) /\ fut \in [Task -> {"new", "waiting", "ok", "error", "aborted"}]
    BY ServiceNext DEF TypeInv, TypeOK
  <2>2. QED
    BY <2>1 DEF Service!Next, Service!vars, Service!Accept, Service!Answer, Service!Close,
                Service!Abort
<1>2. QED
  BY <1>1, TypeInit, TypeNext, PTL DEF Spec, SettledOnce

-----------------------------------------------------------------------------
(* stop() *)

\* Whoever awaits a task is in the table of the pool, or its answer is
\* scheduled; only submit() adds to them, and not after stop() began.
WaiterKnown ==
    \A t \in Task : fut[t] = "waiting" =>
        t \in pending \/ \E item \in callbacks : item.task = t

StoppedIsSwept == mode = "stopped" => \A t \in pending : fut[t] # "waiting"

StopInv == TypeInv /\ WaiterKnown /\ StoppedIsSwept

LEMMA StopNext == StopInv /\ [Next]_vars => StopInv'
<1> SUFFICES ASSUME StopInv, [Next]_vars PROVE (WaiterKnown /\ StoppedIsSwept)'
  BY TypeNext DEF StopInv
<1>0. /\ callbacks \subseteq Result /\ pending \subseteq Task
      /\ fut \in [Task -> {"new", "waiting", "ok", "error", "aborted"}]
      /\ WaiterKnown /\ StoppedIsSwept
  BY DEF StopInv, TypeInv, TypeOK, Result
<1> USE <1>0 DEF WaiterKnown, StoppedIsSwept, vars, loopVars, stopVars
<1>1. ASSUME NEW t \in Task, Submit(t) PROVE (WaiterKnown /\ StoppedIsSwept)'
  BY <1>1 DEF Submit
<1>2. CASE Resolve
  <2>1. PICK item \in callbacks :
          /\ callbacks' = callbacks \ {item}
          /\ fut' = IF fut[item.task] = "waiting"
                    THEN [fut EXCEPT ![item.task] = IF item.ok THEN "ok" ELSE "error"]
                    ELSE fut
    BY <1>2 DEF Resolve
  <2>2. item.task \in Task
    BY DEF Result
  <2>3. fut'[item.task] # "waiting" /\ \A t \in Task : fut'[t] = "waiting" => fut[t] = "waiting"
    BY <2>1, <2>2
  <2>4. QED
    BY <1>2, <2>1, <2>3 DEF Resolve
<1>3. CASE StopBegin
  BY <1>3 DEF StopBegin
<1>4. CASE StopFail
  BY <1>4 DEF StopFail
<1>5. ASSUME NEW w \in Worker, ReadResult(w) PROVE (WaiterKnown /\ StoppedIsSwept)'
  <2>1. /\ callbacks' = IF Head(res[w]).task \in pending
                        THEN callbacks \union {Head(res[w])} ELSE callbacks
        /\ pending' = pending \ {Head(res[w]).task}
        /\ UNCHANGED fut /\ (mode' = mode \/ mode' = "raised")
    BY <1>5 DEF ReadResult
  <2>2. QED
    BY <2>1
<1>6. ASSUME NEW w \in Worker, StopJoin(w) PROVE (WaiterKnown /\ StoppedIsSwept)'
  BY <1>6 DEF StopJoin
<1>7. ASSUME NEW w \in Worker, WorkerNext(w) PROVE (WaiterKnown /\ StoppedIsSwept)'
  BY <1>7 DEF WorkerNext, Load, AcquireReaderLock, GetTask, FinishTask, Crash, Hang
<1>8. ASSUME NEW w \in Worker, ReadHeartbeat(w) \/ Tick(w) \/ CheckWorker(w)
      PROVE  (WaiterKnown /\ StoppedIsSwept)'
  BY <1>8 DEF ReadHeartbeat, Tick, CheckWorker
<1>9. CASE KillWorker \/ RespawnWorker \/ ReaderExits \/ UNCHANGED vars
  BY <1>9 DEF KillWorker, RespawnWorker, ReaderExits
<1>10. QED
  BY <1>1, <1>2, <1>3, <1>4, <1>5, <1>6, <1>7, <1>8, <1>9 DEF Next, ParentNext

\* When stop() returns, every task it did not fail has its answer scheduled,
\* whatever the reader thread did while stop() went through the table.
THEOREM AsrPoolStopLeavesNoWaiter == Spec => []StopLeavesNoWaiter
<1>1. Init => StopInv
  BY TypeInit DEF Init, StopInv, WaiterKnown, StoppedIsSwept
<1>2. StopInv => StopLeavesNoWaiter
  BY DEF StopInv, TypeInv, TypeOK, WaiterKnown, StoppedIsSwept, StopLeavesNoWaiter
<1>3. QED
  BY <1>1, <1>2, StopNext, PTL DEF Spec

-----------------------------------------------------------------------------
(***************************************************************************)
(* No task that somebody awaits is ever worked on by two live processes,   *)
(* whatever dies, stalls or is requeued.  The argument follows a task      *)
(* around: it is in the queue, or announced by one worker (in flight, or   *)
(* a start heartbeat not read yet), or in the hands of the supervisor, and *)
(* in no two of these at once.                                             *)
(***************************************************************************)

Start(t) == [task |-> t, phase |-> "start"]

Occurs(s, e) == \E i \in 1..Len(s) : s[i] = e
AtMostOnce(s, e) == \A i, j \in 1..Len(s) : s[i] = e /\ s[j] = e => i = j

Claims(w, t) == inFlight[w] = t \/ Occurs(hb[w], Start(t))
Handed(t) == sup.at = "respawn" /\ sup.task = t

\* A task that was not submitted yet is nowhere.
NewIsNowhere ==
    \A t \in Task : fut[t] = "new" =>
        /\ ~Occurs(taskQ, t) /\ ~Handed(t)
        /\ \A w \in Worker : ~Claims(w, t)

\* The latest heartbeat of a process in a task, read or not, is the start of it.
ExecutesAnnounced ==
    \A w \in Worker : pc[w] \in {"running", "hung"} =>
        /\ hb[w] = <<>> => inFlight[w] = cur[w]
        /\ hb[w] # <<>> => hb[w][Len(hb[w])] = Start(cur[w])

QueuedOnce ==
    \A t \in pending :
        /\ AtMostOnce(taskQ, t)
        /\ Occurs(taskQ, t) => ~Handed(t) /\ \A w \in Worker : ~Claims(w, t)

ClaimedOnce ==
    \A t \in pending : \A w \in Worker :
        /\ \A v \in Worker : Claims(v, t) /\ Claims(w, t) => v = w
        /\ AtMostOnce(hb[w], Start(t))
        /\ inFlight[w] = t => ~Occurs(hb[w], Start(t))

\* What the supervisor is about to requeue is only in flight, and nowhere but
\* with the worker it replaces.
HandedOnce ==
    \A t \in pending : Handed(t) => \A w \in Worker :
        /\ ~Occurs(hb[w], Start(t))
        /\ inFlight[w] = t => w = sup.worker

Placed == NewIsNowhere /\ ExecutesAnnounced /\ QueuedOnce /\ ClaimedOnce /\ HandedOnce

PlacedInv == TypeInv /\ Placed

-----------------------------------------------------------------------------
(* What the operations on queues do to the places of an element. *)

LEMMA StartInjective == \A t, u : Start(t) = Start(u) => t = u
<1> TAKE t, u
<1>1. Start(t).task = t /\ Start(u).task = u
  BY DEF Start
<1>2. QED
  BY <1>1

LEMMA OccursAppend ==
    ASSUME NEW S, NEW s \in Seq(S), NEW x \in S, NEW e
    PROVE  /\ Occurs(Append(s, x), e) <=> Occurs(s, e) \/ x = e
           /\ AtMostOnce(s, e) /\ (x = e => ~Occurs(s, e)) => AtMostOnce(Append(s, x), e)
<1>1. /\ Len(s) \in Nat /\ Len(Append(s, x)) = Len(s) + 1
      /\ \A i \in 1..Len(s) : Append(s, x)[i] = s[i]
      /\ Append(s, x)[Len(s) + 1] = x
  BY AppendProperties, LenProperties
<1>2. \A i : i \in 1..Len(s) + 1 <=> i \in 1..Len(s) \/ i = Len(s) + 1
  BY <1>1
<1>3. Occurs(Append(s, x), e) <=> Occurs(s, e) \/ x = e
  BY <1>1, <1>2 DEF Occurs
<1>4. ASSUME AtMostOnce(s, e), x = e => ~Occurs(s, e) PROVE AtMostOnce(Append(s, x), e)
  BY <1>1, <1>2, <1>4 DEF AtMostOnce, Occurs
<1>5. QED
  BY <1>3, <1>4

LEMMA OccursTail ==
    ASSUME NEW S, NEW s \in Seq(S), s # <<>>, NEW e
    PROVE  /\ Occurs(Tail(s), e) => Occurs(s, e)
           /\ AtMostOnce(s, e) => AtMostOnce(Tail(s), e)
           /\ AtMostOnce(s, e) /\ Head(s) = e => ~Occurs(Tail(s), e)
           /\ Occurs(s, Head(s))
<1>1. /\ Len(s) \in Nat \ {0} /\ Len(Tail(s)) = Len(s) - 1 /\ Head(s) = s[1]
      /\ \A i \in 1..Len(s) - 1 : Tail(s)[i] = s[i + 1]
  BY HeadTailProperties, LenProperties, EmptySeq
<1>2. \A i \in 1..Len(s) - 1 : i + 1 \in 1..Len(s) /\ i + 1 # 1
  BY <1>1
<1>3. Occurs(Tail(s), e) => Occurs(s, e)
  BY <1>1, <1>2 DEF Occurs
<1>4. AtMostOnce(s, e) => AtMostOnce(Tail(s), e)
  BY <1>1, <1>2 DEF AtMostOnce
<1>5. AtMostOnce(s, e) /\ Head(s) = e => ~Occurs(Tail(s), e)
  BY <1>1, <1>2 DEF AtMostOnce, Occurs
<1>6. Occurs(s, Head(s))
  BY <1>1 DEF Occurs
<1>7. QED
  BY <1>3, <1>4, <1>5, <1>6

LEMMA OccursPrefix ==
    ASSUME NEW S, NEW s \in Seq(S), NEW p \in Prefixes(s), NEW e
    PROVE  /\ Occurs(p, e) => Occurs(s, e)
           /\ AtMostOnce(s, e) => AtMostOnce(p, e)
<1>1. PICK l \in 0..Len(s) : p = SubSeq(s, 1, l)
  BY DEF Prefixes
<1>2. Len(s) \in Nat /\ \A i \in 1..l : s[i] \in S
  BY <1>1, ElementOfSeq, LenProperties
<1>3. Len(p) = l /\ \A i \in 1..l : p[i] = s[i] /\ i \in 1..Len(s)
  BY <1>1, <1>2, SubSeqProperties
<1>4. QED
  BY <1>3 DEF Occurs, AtMostOnce

LEMMA LastOfAppend ==
    ASSUME NEW S, NEW s \in Seq(S), NEW x \in S
    PROVE  Append(s, x) # <<>> /\ Append(s, x)[Len(Append(s, x))] = x
  BY AppendProperties

LEMMA LastAnnounced ==
    \A s \in Seq(Heartbeat), x \in Heartbeat :
        Append(s, x) # <<>> /\ Append(s, x)[Len(Append(s, x))] = x
  BY LastOfAppend

LEMMA TailOfOne ==
    ASSUME NEW S, NEW s \in Seq(S), s # <<>>, Tail(s) = <<>>
    PROVE  Len(s) = 1
<1>1. Len(Tail(s)) = Len(s) - 1 /\ Len(s) \in Nat
  BY HeadTailProperties, LenProperties
<1>2. Len(Tail(s)) = 0
  BY EmptySeq
<1>3. QED
  BY <1>1, <1>2

\* Sentinels queued behind the tasks.
LEMMA OccursConcat ==
    ASSUME NEW S, NEW s \in Seq(S), NEW r \in Seq(S), NEW e, \A i \in 1..Len(r) : r[i] # e
    PROVE  /\ Occurs(s \o r, e) => Occurs(s, e)
           /\ AtMostOnce(s, e) => AtMostOnce(s \o r, e)
<1>1. /\ Len(s) \in Nat /\ Len(r) \in Nat /\ Len(s \o r) = Len(s) + Len(r)
      /\ \A i \in 1..Len(s) + Len(r) : (s \o r)[i] = IF i <= Len(s) THEN s[i] ELSE r[i - Len(s)]
  BY ConcatProperties, LenProperties
<1>2. \A i \in 1..Len(s) + Len(r) : (s \o r)[i] = e => i \in 1..Len(s) /\ s[i] = e
  <2> SUFFICES ASSUME NEW i \in 1..Len(s) + Len(r), (s \o r)[i] = e, i \notin 1..Len(s)
               PROVE  FALSE
    BY <1>1
  <2>1. i - Len(s) \in 1..Len(r) /\ (s \o r)[i] = r[i - Len(s)]
    BY <1>1
  <2>2. QED
    BY <2>1
<1>3. QED
  BY <1>1, <1>2 DEF Occurs, AtMostOnce

-----------------------------------------------------------------------------
(* The invariant. *)

OncePlaced == NewIsNowhere /\ QueuedOnce /\ ClaimedOnce /\ HandedOnce

\* Most steps only make the places of a task fewer.
LEMMA FewerPlaces ==
    ASSUME OncePlaced, pending' \subseteq pending, pending \subseteq Task,
           \A t \in Task : fut'[t] = "new" => fut[t] = "new",
           \A t \in Task : /\ Occurs(taskQ', t) => Occurs(taskQ, t)
                           /\ AtMostOnce(taskQ, t) => AtMostOnce(taskQ', t),
           \A w \in Worker : \A t \in Task :
                           /\ Occurs(hb'[w], Start(t)) => Occurs(hb[w], Start(t))
                           /\ AtMostOnce(hb[w], Start(t)) => AtMostOnce(hb'[w], Start(t)),
           inFlight' = inFlight,
           sup' = sup \/ sup'.at # "respawn"
    PROVE  OncePlaced'
<1>1. /\ \A t : Handed(t)' => Handed(t) /\ sup' = sup
      /\ \A w \in Worker : \A t \in Task : Claims(w, t)' => Claims(w, t)
  BY DEF Handed, Claims
<1>2. NewIsNowhere'
  BY <1>1 DEF OncePlaced, NewIsNowhere
<1>3. QueuedOnce'
  BY <1>1 DEF OncePlaced, QueuedOnce
<1>4. ClaimedOnce'
  BY <1>1 DEF OncePlaced, ClaimedOnce
<1>5. HandedOnce'
  BY <1>1 DEF OncePlaced, HandedOnce
<1>6. QED
  BY <1>2, <1>3, <1>4, <1>5 DEF OncePlaced

LEMMA DieFewer ==
    ASSUME TypeInv, NEW w \in Worker, Die(w), NEW v \in Worker, NEW t
    PROVE  /\ Occurs(hb'[v], Start(t)) => Occurs(hb[v], Start(t))
           /\ AtMostOnce(hb[v], Start(t)) => AtMostOnce(hb'[v], Start(t))
<1>1. PICK flushed \in Prefixes(hb[w]) : hb' = [hb EXCEPT ![w] = flushed]
  BY DEF Die
<1>2. hb \in [Worker -> Seq(Heartbeat)]
  BY DEF TypeInv, TypeOK, Heartbeat
<1>3. /\ Occurs(flushed, Start(t)) => Occurs(hb[w], Start(t))
      /\ AtMostOnce(hb[w], Start(t)) => AtMostOnce(flushed, Start(t))
  BY <1>2, OccursPrefix
<1>4. QED
  BY <1>1, <1>2, <1>3

LEMMA DieExecutes ==
    ASSUME TypeInv, NEW w \in Worker, Die(w), ExecutesAnnounced, inFlight' = inFlight
    PROVE  ExecutesAnnounced'
  BY DEF Die, ExecutesAnnounced, TypeInv, TypeOK

LEMMA PlacedInit == Init => PlacedInv
  BY TypeInit, PoolAssumption
     DEF Init, PlacedInv, Placed, NewIsNowhere, ExecutesAnnounced, QueuedOnce, ClaimedOnce,
         HandedOnce, Claims, Handed, Occurs, Idle, PoolAssumption

LEMMA PlacedNext == PlacedInv /\ [Next]_vars => PlacedInv'
<1> SUFFICES ASSUME PlacedInv, [Next]_vars PROVE (OncePlaced /\ ExecutesAnnounced)'
  BY TypeNext DEF PlacedInv, Placed, OncePlaced
<1>0. /\ TypeInv /\ OncePlaced /\ ExecutesAnnounced
      /\ hb \in [Worker -> Seq(Heartbeat)] /\ taskQ \in Seq(Task \union {Poison})
      /\ inFlight \in [Worker -> Task \union {NoTask}] /\ pending \subseteq Task
      /\ pc \in [Worker -> {"loading", "getting", "running", "hung", "dead", "exited"}]
      /\ cur \in [Worker -> Task \union {NoTask}]
      /\ fut \in [Task -> {"new", "waiting", "ok", "error", "aborted"}]
      /\ callbacks \subseteq Result /\ sup \in SupState /\ BusyHasTask
      /\ NoTask \notin Task /\ Poison \notin Task
  BY PoolAssumption DEF PlacedInv, Placed, OncePlaced, TypeInv, TypeOK, Heartbeat, Result, PoolAssumption
<1> USE <1>0 DEF vars, workerVars, channelVars, supVars, loopVars, stopVars
<1>1. ASSUME NEW w \in Worker, Load(w) \/ AcquireReaderLock(w) \/ Hang(w) \/ Tick(w)
      PROVE  (OncePlaced /\ ExecutesAnnounced)'
  <2>1. UNCHANGED <<taskQ, cur, hb, inFlight, pending, fut, sup>>
    BY <1>1 DEF Load, AcquireReaderLock, Hang, Tick
  <2>2. OncePlaced'
    BY <2>1, FewerPlaces
  <2>3. \A v \in Worker : pc'[v] \in {"running", "hung"} => pc[v] \in {"running", "hung"}
    BY <1>1 DEF Load, AcquireReaderLock, Hang, Tick
  <2>4. QED
    BY <2>1, <2>2, <2>3 DEF ExecutesAnnounced
<1>2. ASSUME NEW w \in Worker, GetTask(w) PROVE (OncePlaced /\ ExecutesAnnounced)'
  <2> DEFINE t == Head(taskQ)
  <2>0. UNCHANGED <<inFlight, pending, fut, sup>> /\ taskQ' = Tail(taskQ) /\ taskQ # <<>>
    BY <1>2 DEF GetTask
  <2>1. \A u : /\ Occurs(taskQ', u) => Occurs(taskQ, u)
               /\ AtMostOnce(taskQ, u) => AtMostOnce(taskQ', u)
               /\ AtMostOnce(taskQ, u) /\ t = u => ~Occurs(taskQ', u)
    BY <2>0, OccursTail
  <2>2. t \in Task \union {Poison} /\ Occurs(taskQ, t)
    BY <2>0, OccursTail, HeadTailProperties
  <2>3. CASE t = Poison
    <3>1. UNCHANGED <<cur, hb>> /\ pc' = [pc EXCEPT ![w] = "exited"]
      BY <1>2, <2>3, <2>2 DEF GetTask
    <3>2. OncePlaced'
      BY <2>0, <2>1, <3>1, FewerPlaces
    <3>3. QED
      BY <2>0, <3>1, <3>2 DEF ExecutesAnnounced
  <2>4. CASE t # Poison
    <3>0. t \in Task
      BY <2>2, <2>4
    <3>1. /\ hb' = [hb EXCEPT ![w] = Append(hb[w], Start(t))]
          /\ pc' = [pc EXCEPT ![w] = "running"] /\ cur' = [cur EXCEPT ![w] = t]
      BY <1>2, <2>4 DEF GetTask, Start
    <3> HIDE DEF t
    <3>2. Start(t) \in Heartbeat
      BY <3>0 DEF Start, Heartbeat
    <3>3. \A u \in Task :
            /\ Occurs(hb'[w], Start(u)) <=> Occurs(hb[w], Start(u)) \/ t = u
            /\ AtMostOnce(hb[w], Start(u)) /\ (t = u => ~Occurs(hb[w], Start(u)))
                 => AtMostOnce(hb'[w], Start(u))
      BY <3>1, <3>2, OccursAppend, StartInjective
    <3>4. \A v \in Worker : v # w => hb'[v] = hb[v]
      BY <3>1
    <3>5. /\ \A u : Handed(u)' = Handed(u)
          /\ \A v \in Worker : \A u \in Task : Claims(v, u)' <=> Claims(v, u) \/ (v = w /\ u = t)
      BY <2>0, <3>3, <3>4 DEF Handed, Claims
    <3>6. fut[t] # "new"
      BY <2>2, <3>0 DEF OncePlaced, NewIsNowhere
    <3>7. NewIsNowhere'
      BY <2>0, <2>1, <3>5, <3>6 DEF OncePlaced, NewIsNowhere
    <3>8. t \in pending => /\ ~Handed(t) /\ \A v \in Worker : ~Claims(v, t)
                           /\ ~Occurs(taskQ', t)
      BY <2>1, <2>2 DEF OncePlaced, QueuedOnce
    <3>9. QueuedOnce'
      BY <2>0, <2>1, <3>5, <3>8 DEF OncePlaced, QueuedOnce
    <3>10. ClaimedOnce'
      BY <2>0, <3>3, <3>4, <3>5, <3>8 DEF OncePlaced, ClaimedOnce, Claims
    <3>11. HandedOnce'
      BY <2>0, <3>3, <3>4, <3>5, <3>8 DEF OncePlaced, HandedOnce
    <3>12. ExecutesAnnounced'
      <4>1. /\ hb'[w] # <<>> /\ hb'[w][Len(hb'[w])] = Start(t)
        <5>1. hb'[w] = Append(hb[w], Start(t)) /\ hb[w] \in Seq(Heartbeat)
          BY <3>1
        <5>2. /\ Append(hb[w], Start(t)) # <<>>
              /\ Append(hb[w], Start(t))[Len(Append(hb[w], Start(t)))] = Start(t)
          BY ONLY <3>2, <5>1, LastAnnounced
        <5>3. QED
          BY <5>1, <5>2
      <4>2. QED
        BY <2>0, <3>1, <3>4, <4>1 DEF ExecutesAnnounced
    <3>13. QED
      BY <3>7, <3>9, <3>10, <3>11, <3>12 DEF OncePlaced
  <2>5. QED
    BY <2>3, <2>4
<1>3. ASSUME NEW w \in Worker, FinishTask(w) PROVE (OncePlaced /\ ExecutesAnnounced)'
  <2> DEFINE end == [task |-> cur[w], phase |-> "end"]
  <2>1. /\ hb' = [hb EXCEPT ![w] = Append(hb[w], end)] /\ pc' = [pc EXCEPT ![w] = "getting"]
        /\ cur' = [cur EXCEPT ![w] = NoTask]
        /\ UNCHANGED <<taskQ, inFlight, pending, fut, sup>>
    BY <1>3 DEF FinishTask
  <2>2. end \in Heartbeat
    BY <1>3 DEF FinishTask, BusyHasTask, Heartbeat
  <2>3. \A u : end # Start(u)
    <3>1. \A u : end.phase = "end" /\ Start(u).phase = "start"
      BY DEF Start
    <3>2. QED
      BY <3>1
  <2> HIDE DEF end
  <2>4. \A u : /\ Occurs(hb'[w], Start(u)) => Occurs(hb[w], Start(u))
               /\ AtMostOnce(hb[w], Start(u)) => AtMostOnce(hb'[w], Start(u))
    BY <2>1, <2>2, <2>3, OccursAppend
  <2>5. OncePlaced'
    BY <2>1, <2>4, FewerPlaces
  <2>6. QED
    BY <2>1, <2>5 DEF ExecutesAnnounced
<1>4. ASSUME NEW w \in Worker, Crash(w) PROVE (OncePlaced /\ ExecutesAnnounced)'
  <2>1. Die(w) /\ UNCHANGED <<taskQ, inFlight, pending, fut, sup>>
    BY <1>4 DEF Crash
  <2>2. OncePlaced'
    BY <2>1, DieFewer, FewerPlaces
  <2>3. QED
    BY <2>1, <2>2, DieExecutes
<1>5. ASSUME NEW w \in Worker, ReadResult(w) PROVE (OncePlaced /\ ExecutesAnnounced)'
  <2>1. pending' \subseteq pending /\ UNCHANGED <<taskQ, workerVars, hb, inFlight, fut, sup>>
    BY <1>5 DEF ReadResult
  <2>2. OncePlaced'
    BY <2>1, FewerPlaces
  <2>3. QED
    BY <2>1, <2>2 DEF ExecutesAnnounced
<1>6. ASSUME NEW w \in Worker, ReadHeartbeat(w) PROVE (OncePlaced /\ ExecutesAnnounced)'
  <2> DEFINE beat == Head(hb[w])
  <2>1. /\ hb[w] # <<>> /\ hb' = [hb EXCEPT ![w] = Tail(hb[w])]
        /\ inFlight' = [inFlight EXCEPT ![w] = IF beat.phase = "start" THEN beat.task ELSE NoTask]
        /\ UNCHANGED <<taskQ, pc, cur, pending, fut, sup>>
    BY <1>6 DEF ReadHeartbeat
  <2>2. beat \in Heartbeat /\ Occurs(hb[w], beat)
    BY <2>1, HeadTailProperties, OccursTail
  <2>3. \A u \in Task : inFlight'[w] = u => beat = Start(u)
    BY <2>1, <2>2 DEF Heartbeat, Start
  <2>4. \A u : /\ Occurs(hb'[w], Start(u)) => Occurs(hb[w], Start(u))
               /\ AtMostOnce(hb[w], Start(u)) => AtMostOnce(hb'[w], Start(u))
               /\ AtMostOnce(hb[w], Start(u)) /\ beat = Start(u) => ~Occurs(hb'[w], Start(u))
    BY <2>1, OccursTail
  <2>5. \A v \in Worker : v # w => hb'[v] = hb[v] /\ inFlight'[v] = inFlight[v]
    BY <2>1
  <2>6. \A u \in Task : inFlight'[w] = u => Occurs(hb[w], Start(u))
    BY <2>2, <2>3
  <2> HIDE DEF beat
  <2>7. /\ \A u : Handed(u)' = Handed(u)
        /\ \A v \in Worker : \A u \in Task : Claims(v, u)' => Claims(v, u)
    BY <2>1, <2>4, <2>5, <2>6 DEF Handed, Claims
  <2>8. NewIsNowhere' /\ QueuedOnce'
    BY <2>1, <2>7 DEF OncePlaced, NewIsNowhere, QueuedOnce
  <2>9. ClaimedOnce'
    BY <2>1, <2>3, <2>4, <2>5, <2>7 DEF OncePlaced, ClaimedOnce
  <2>10. HandedOnce'
    BY <2>1, <2>4, <2>5, <2>6, <2>7 DEF OncePlaced, HandedOnce
  <2>11. ExecutesAnnounced'
    <3>1. ASSUME pc[w] \in {"running", "hung"}, hb'[w] = <<>> PROVE inFlight'[w] = cur[w]
      <4>0. hb[w] \in Seq(Heartbeat) /\ Tail(hb[w]) = <<>> /\ hb[w][1] = beat
        BY <2>1, <3>1 DEF beat
      <4>1. Len(hb[w]) = 1 /\ hb[w][1] = beat
        BY <2>1, <4>0, TailOfOne
      <4>2. beat = Start(cur[w])
        BY <2>1, <3>1, <4>1 DEF ExecutesAnnounced
      <4>3. QED
        BY <2>1, <4>2 DEF Start
    <3>2. ASSUME pc[w] \in {"running", "hung"}, hb'[w] # <<>>
          PROVE  hb'[w][Len(hb'[w])] = Start(cur[w])
      <4>1. /\ Len(hb'[w]) = Len(hb[w]) - 1 /\ Len(hb'[w]) \in 1..Len(hb'[w])
            /\ hb'[w][Len(hb'[w])] = hb[w][Len(hb'[w]) + 1] /\ Len(hb[w]) \in Nat
        BY <2>1, <3>2, HeadTailProperties, LenProperties, EmptySeq
      <4>2. hb[w][Len(hb[w])] = Start(cur[w])
        BY <2>1, <3>2 DEF ExecutesAnnounced
      <4>3. Len(hb'[w]) + 1 = Len(hb[w])
        BY <4>1
      <4>4. QED
        BY <4>1, <4>2, <4>3
    <3>3. QED
      BY <2>1, <2>5, <3>1, <3>2 DEF ExecutesAnnounced
  <2>12. QED
    BY <2>8, <2>9, <2>10, <2>11 DEF OncePlaced
<1>7. ASSUME NEW w \in Worker, CheckWorker(w) PROVE (OncePlaced /\ ExecutesAnnounced)'
  <2>1. sup'.at # "respawn" /\ UNCHANGED <<taskQ, workerVars, hb, inFlight, pending, fut>>
    BY <1>7 DEF CheckWorker
  <2>2. OncePlaced'
    BY <2>1, FewerPlaces
  <2>3. QED
    BY <2>1, <2>2 DEF ExecutesAnnounced
<1>8. ASSUME NEW w \in Worker, StopJoin(w) PROVE (OncePlaced /\ ExecutesAnnounced)'
  <2>1. UNCHANGED <<taskQ, inFlight, pending, fut, sup>> /\ (Die(w) \/ UNCHANGED <<pc, cur, hb>>)
    BY <1>8 DEF StopJoin
  <2>2. OncePlaced'
    BY <2>1, DieFewer, FewerPlaces
  <2>3. QED
    BY <2>1, <2>2, DieExecutes DEF ExecutesAnnounced
<1>9. ASSUME NEW t \in Task, Submit(t) PROVE (OncePlaced /\ ExecutesAnnounced)'
  <2>1. /\ fut[t] = "new" /\ fut' = [fut EXCEPT ![t] = "waiting"] /\ pending' = pending \union {t}
        /\ taskQ' = Append(taskQ, t) /\ UNCHANGED <<workerVars, hb, inFlight, sup>>
    BY <1>9 DEF Submit
  <2>2. ~Occurs(taskQ, t) /\ ~Handed(t) /\ \A w \in Worker : ~Claims(w, t)
    BY <2>1 DEF OncePlaced, NewIsNowhere
  <2>3. \A u : /\ Occurs(taskQ', u) <=> Occurs(taskQ, u) \/ t = u
               /\ AtMostOnce(taskQ, u) /\ (t = u => ~Occurs(taskQ, u)) => AtMostOnce(taskQ', u)
    <3>1. t \in Task \union {Poison} /\ taskQ' = Append(taskQ, t)
      BY <2>1
    <3>2. \A u : Occurs(Append(taskQ, t), u) <=> Occurs(taskQ, u) \/ t = u
      BY <3>1, OccursAppend
    <3>3. \A u : AtMostOnce(taskQ, u) /\ (t = u => ~Occurs(taskQ, u))
                   => AtMostOnce(Append(taskQ, t), u)
      BY <3>1, OccursAppend
    <3>4. QED
      BY <3>1, <3>2, <3>3
  <2>4. /\ \A u : Handed(u)' = Handed(u)
        /\ \A w \in Worker : \A u \in Task : Claims(w, u)' = Claims(w, u)
    BY <2>1 DEF Handed, Claims
  <2>5. AtMostOnce(taskQ, t)
    BY <2>2 DEF AtMostOnce, Occurs
  <2>6. NewIsNowhere'
    BY <2>1, <2>3, <2>4 DEF OncePlaced, NewIsNowhere
  <2>7. QueuedOnce'
    BY <2>1, <2>2, <2>3, <2>4, <2>5 DEF OncePlaced, QueuedOnce
  <2>8. \A w \in Worker : ~Occurs(hb[w], Start(t)) /\ inFlight[w] # t /\ AtMostOnce(hb[w], Start(t))
    BY <2>2 DEF Claims, Occurs, AtMostOnce
  <2>9. ClaimedOnce'
    BY <2>1, <2>2, <2>4, <2>8 DEF OncePlaced, ClaimedOnce
  <2>10. HandedOnce'
    BY <2>1, <2>2, <2>4 DEF OncePlaced, HandedOnce
  <2>11. QED
    BY <2>1, <2>6, <2>7, <2>9, <2>10 DEF OncePlaced, ExecutesAnnounced
<1>10. CASE Resolve \/ StopFail \/ ReaderExits \/ UNCHANGED vars
  <2>1. UNCHANGED <<taskQ, pc, cur, hb, inFlight, pending, sup>>
    BY <1>10 DEF Resolve, StopFail, ReaderExits
  <2>2. \A t \in Task : fut'[t] = "new" => fut[t] = "new"
    BY <1>10 DEF Resolve, StopFail, ReaderExits, Result
  <2>3. OncePlaced'
    BY <2>1, <2>2, FewerPlaces
  <2>4. QED
    BY <2>1, <2>3 DEF ExecutesAnnounced
<1>11. CASE KillWorker
  <2> DEFINE w == sup.worker
  <2>1. sup \in [at : {"kill"}, worker : Worker, crashed : BOOLEAN]
    BY <1>11 DEF KillWorker, SupState, Idle
  <2>2. /\ sup' = [at |-> "respawn", worker |-> w, task |-> inFlight[w]]
        /\ UNCHANGED <<taskQ, inFlight, pending, fut>> /\ (Die(w) \/ UNCHANGED <<pc, cur, hb>>)
    BY <1>11 DEF KillWorker
  <2>3. w \in Worker
    BY <2>1
  <2>4. \A v \in Worker : \A u :
          /\ Occurs(hb'[v], Start(u)) => Occurs(hb[v], Start(u))
          /\ AtMostOnce(hb[v], Start(u)) => AtMostOnce(hb'[v], Start(u))
    BY <2>2, <2>3, DieFewer
  <2>5. \A v \in Worker : \A u \in Task : Claims(v, u)' => Claims(v, u)
    BY <2>2, <2>4 DEF Claims
  <2>6. \A u \in Task : Handed(u)' => Claims(w, u) /\ inFlight[w] = u
    BY <2>2 DEF Handed, Claims
  <2>7. NewIsNowhere' /\ QueuedOnce'
    BY <2>2, <2>3, <2>5, <2>6 DEF OncePlaced, NewIsNowhere, QueuedOnce
  <2>8. ClaimedOnce'
    BY <2>2, <2>4, <2>5 DEF OncePlaced, ClaimedOnce
  <2>9. sup'.worker = w
    BY <2>2
  <2>10. HandedOnce'
    <3> SUFFICES ASSUME NEW u \in pending, Handed(u)', NEW v \in Worker
                 PROVE  ~Occurs(hb'[v], Start(u)) /\ (inFlight[v] = u => v = w)
      BY <2>2, <2>9 DEF HandedOnce
    <3>1. Claims(w, u) /\ inFlight[w] = u
      BY <2>6
    <3>2. Claims(v, u) => v = w
      BY <2>3, <3>1 DEF OncePlaced, ClaimedOnce
    <3>3. ~Occurs(hb[w], Start(u))
      BY <2>3, <3>1 DEF OncePlaced, ClaimedOnce
    <3>4. QED
      BY <2>4, <3>2, <3>3 DEF Claims
  <2>11. ExecutesAnnounced'
    BY <2>2, <2>3, DieExecutes DEF ExecutesAnnounced
  <2>12. QED
    BY <2>7, <2>8, <2>10, <2>11 DEF OncePlaced
<1>12. CASE RespawnWorker
  <2>0. sup \in [at : {"respawn"}, worker : Worker, task : Task \union {NoTask}]
    BY <1>12 DEF RespawnWorker, SupState, Idle
  <2>1. PICK w \in Worker, t \in Task \union {NoTask} : sup.worker = w /\ sup.task = t
    BY <2>0
  <2>2. /\ Handed(t) /\ pc' = [pc EXCEPT ![w] = "loading"]
        /\ inFlight' = [inFlight EXCEPT ![w] = NoTask]
        /\ taskQ' = IF t \in pending THEN Append(taskQ, t) ELSE taskQ
        /\ sup' = Idle /\ UNCHANGED <<cur, hb, pending, fut>>
    BY <1>12, <2>1 DEF RespawnWorker, Spawn, Handed
  <2>3. /\ \A u : ~Handed(u)'
        /\ \A v \in Worker : \A u \in Task : Claims(v, u)' => Claims(v, u)
    BY <2>2 DEF Handed, Idle, Claims
  <2>4. ASSUME t \in pending
        PROVE  /\ ~Occurs(taskQ, t) /\ fut[t] # "new"
               /\ \A v \in Worker : ~Claims(v, t)'
    <3>1. ~Occurs(taskQ, t) /\ fut[t] # "new"
      BY <2>2, <2>4 DEF OncePlaced, QueuedOnce, NewIsNowhere
    <3>2. \A v \in Worker : ~Occurs(hb[v], Start(t)) /\ (inFlight[v] = t => v = w)
      BY <2>1, <2>2, <2>4 DEF OncePlaced, HandedOnce
    <3>3. \A v \in Worker : inFlight'[v] # t
      BY <2>2, <2>4, <3>2
    <3>4. QED
      BY <2>2, <3>1, <3>2, <3>3 DEF Claims
  <2>5. \A u : /\ Occurs(taskQ', u) => Occurs(taskQ, u) \/ (t = u /\ t \in pending)
               /\ AtMostOnce(taskQ, u) /\ (t = u => ~Occurs(taskQ, u)) => AtMostOnce(taskQ', u)
    <3>1. CASE t \in pending
      <4>1. t \in Task \union {Poison} /\ taskQ' = Append(taskQ, t)
        BY <2>2, <3>1
      <4>2. QED
        BY <3>1, <4>1, OccursAppend
    <3>2. CASE t \notin pending
      BY <2>2, <3>2
    <3>3. QED
      BY <3>1, <3>2
  <2>6. NewIsNowhere'
    BY <2>2, <2>3, <2>4, <2>5 DEF OncePlaced, NewIsNowhere
  <2>7. QueuedOnce'
    <3> SUFFICES ASSUME NEW u \in pending
                 PROVE  /\ AtMostOnce(taskQ', u)
                        /\ Occurs(taskQ', u) => \A v \in Worker : ~Claims(v, u)'
      BY <2>2, <2>3 DEF QueuedOnce
    <3>1. AtMostOnce(taskQ, u) /\ (Occurs(taskQ, u) => \A v \in Worker : ~Claims(v, u))
      BY DEF OncePlaced, QueuedOnce
    <3>2. QED
      BY <2>3, <2>4, <2>5, <3>1
  <2>8. ClaimedOnce'
    <3>1. \A v \in Worker : \A u \in Task : inFlight'[v] = u => inFlight[v] = u
      BY <2>2
    <3>2. QED
      BY <2>2, <2>3, <3>1 DEF OncePlaced, ClaimedOnce
  <2>9. HandedOnce'
    BY <2>3 DEF HandedOnce
  <2>10. ExecutesAnnounced'
    BY <2>2 DEF ExecutesAnnounced
  <2>11. QED
    BY <2>6, <2>7, <2>8, <2>9, <2>10 DEF OncePlaced
<1>13. CASE StopBegin
  <2> DEFINE poisons == [i \in 1..Cardinality(Worker) |-> Poison]
  <2>1. taskQ' = taskQ \o poisons /\ UNCHANGED <<workerVars, hb, inFlight, pending, fut, sup>>
    BY <1>13 DEF StopBegin
  <2>2. poisons \in Seq({Poison}) /\ \A i \in 1..Len(poisons) : poisons[i] = Poison
    <3>1. Cardinality(Worker) \in Nat
      BY FS_CardinalityType, PoolAssumption DEF PoolAssumption
    <3>2. QED
      BY <3>1
  <2>3. poisons \in Seq(Task \union {Poison})
    BY <2>2, SeqMonotonic
  <2> HIDE DEF poisons
  <2>4. \A u \in Task : /\ Occurs(taskQ', u) => Occurs(taskQ, u)
                        /\ AtMostOnce(taskQ, u) => AtMostOnce(taskQ', u)
    BY <2>1, <2>2, <2>3, OccursConcat
  <2>5. OncePlaced'
    BY <2>1, <2>4, FewerPlaces
  <2>6. QED
    BY <2>1, <2>5 DEF ExecutesAnnounced
<1>14. QED
  BY <1>1, <1>2, <1>3, <1>4, <1>5, <1>6, <1>7, <1>8, <1>9, <1>10, <1>11, <1>12, <1>13
     DEF Next, WorkerNext, ParentNext

\* Terminating, replacing and requeuing never make two live processes work on
\* a task that is awaited: for every kind and number of faults.
THEOREM AsrPoolExclusiveExecution == Spec => []ExclusiveExecution
<1>1. Init => PlacedInv
  BY PlacedInit
<1>2. PlacedInv => ExclusiveExecution
  <2> SUFFICES ASSUME PlacedInv, NEW t \in pending, NEW v \in Worker, NEW w \in Worker,
                      Executes(v, t), Executes(w, t)
               PROVE  v = w
    BY DEF ExclusiveExecution
  <2>1. hb \in [Worker -> Seq(Heartbeat)] /\ ExecutesAnnounced /\ ClaimedOnce
    BY DEF PlacedInv, Placed, TypeInv, TypeOK, Heartbeat
  <2>2. ASSUME NEW u \in Worker, Executes(u, t) PROVE Claims(u, t)
    <3>1. CASE hb[u] = <<>>
      BY <2>1, <2>2, <3>1 DEF Executes, ExecutesAnnounced, Claims
    <3>2. CASE hb[u] # <<>>
      <4>1. Len(hb[u]) \in 1..Len(hb[u])
        BY <2>1, <3>2, LenProperties, EmptySeq
      <4>2. QED
        BY <2>1, <2>2, <3>2, <4>1 DEF Executes, ExecutesAnnounced, Claims, Occurs
    <3>3. QED
      BY <3>1, <3>2
  <2>3. QED
    BY <2>1, <2>2 DEF ClaimedOnce
<1>3. QED
  BY <1>1, <1>2, PlacedNext, PTL DEF Spec

-----------------------------------------------------------------------------
(***************************************************************************)
(* As long as a process only dies or hangs in a task it has reported       *)
(* (AllAttributed), and the supervisor does not take a live process for    *)
(* stalled before its heartbeats are read (Timely), the pool loses no      *)
(* task, for any number of workers, tasks and faults.                      *)
(*                                                                         *)
(* The argument follows the heartbeats of a process: whoever is not in a   *)
(* task is known not to be (or an end heartbeat is on its way), so only a  *)
(* process that hangs or is dead can outlast the allowance of its task.    *)
(* The allowance is that of the task as long as it is awaited, which it is *)
(* as long as a process is in it (Unanswered).                             *)
(***************************************************************************)

HasResult(w, t) == \E ok \in BOOLEAN : Occurs(res[w], [task |-> t, ok |-> ok])

\* The worker answers for t: it runs it, has a result of it, or died in it.
Keeps(w, t) == Executes(w, t) \/ HasResult(w, t) \/ (pc[w] = "dead" /\ inFlight[w] = t)

Located == \A t \in pending : Occurs(taskQ, t) \/ Handed(t) \/ \E w \in Worker : Keeps(w, t)

LongestAge(t) == IF t \in Diarize THEN 2 ELSE 1

Quiet(w) == hb[w] = <<>> /\ res[w] = <<>>

Overdue(w) == inFlight[w] # NoTask /\ age[w] >= LongestAge(inFlight[w])

LoadingShape(w) == pc[w] = "loading" => Quiet(w) /\ inFlight[w] = NoTask

GettingShape(w) ==
    pc[w] = "getting" =>
        /\ hb[w] = <<>> => inFlight[w] = NoTask
        /\ hb[w] # <<>> => hb[w][Len(hb[w])].phase = "end"

DeadShape(w) == pc[w] = "dead" => Quiet(w) /\ inFlight[w] # NoTask

OverdueShape(w) == Overdue(w) => pc[w] \in {"hung", "dead"} /\ Quiet(w)

\* What the supervisor decided about w still holds while it acts on it.
CheckedShape(w) ==
    /\ sup.at = "kill" /\ sup.worker = w => /\ pc[w] \in {"hung", "dead"} /\ Quiet(w)
                                            /\ sup.crashed => pc[w] = "dead"
    /\ sup.at = "respawn" /\ sup.worker = w => pc[w] = "dead" /\ sup.task = inFlight[w]

WorkerShape(w) ==
    /\ pc[w] # "exited"
    /\ LoadingShape(w) /\ GettingShape(w) /\ DeadShape(w) /\ OverdueShape(w) /\ CheckedShape(w)

OnlyTasks == \A i \in 1..Len(taskQ) : taskQ[i] # Poison

Faithful == OnlyTasks /\ Located /\ \A w \in Worker : WorkerShape(w)

\* A task of which there is a result is nowhere else.
Over(t) ==
    /\ fut[t] # "new" /\ ~Occurs(taskQ, t)
    /\ \A v \in Worker : ~Executes(v, t) /\ ~(pc[v] = "dead" /\ inFlight[v] = t)

\* Whatever is queued or run is awaited: no task is worked on after its answer.
Unanswered ==
    /\ \A t \in Task : Occurs(taskQ, t) => t \in pending
    /\ \A w \in Worker, t \in Task : Executes(w, t) => t \in pending
    /\ \A t \in pending : fut[t] # "new"
    /\ \A w \in Worker, t \in Task : HasResult(w, t) => Over(t)

NoLossInv == PlacedInv /\ (mode = "running" /\ AllAttributed => Faithful /\ Unanswered)

-----------------------------------------------------------------------------

\* Taking the first element loses no other.
LEMMA OccursRest ==
    ASSUME NEW S, NEW s \in Seq(S), s # <<>>, NEW e, Occurs(s, e)
    PROVE  Head(s) = e \/ Occurs(Tail(s), e)
<1>1. /\ Len(s) \in Nat \ {0} /\ Len(Tail(s)) = Len(s) - 1 /\ Head(s) = s[1]
      /\ \A i \in 1..Len(s) - 1 : Tail(s)[i] = s[i + 1]
  BY HeadTailProperties, LenProperties, EmptySeq
<1>2. PICK i \in 1..Len(s) : s[i] = e
  BY DEF Occurs
<1>3. CASE i = 1
  BY <1>1, <1>2, <1>3
<1>4. CASE i # 1
  <2>1. i - 1 \in 1..Len(Tail(s)) /\ Tail(s)[i - 1] = s[i - 1 + 1]
    BY <1>1, <1>4
  <2>2. i - 1 + 1 = i
    BY <1>1
  <2>3. QED
    BY <1>2, <2>1, <2>2 DEF Occurs
<1>5. QED
  BY <1>3, <1>4

\* A process with nothing unread leaves nothing when it dies.
LEMMA QuietDeath ==
    ASSUME TypeInv, NEW w \in Worker, Quiet(w), Die(w)
    PROVE  /\ hb' = hb /\ res' = res
           /\ pc' = [pc EXCEPT ![w] = "dead"] /\ cur' = [cur EXCEPT ![w] = NoTask]
<1>1. \A p \in Prefixes(<<>>) : p = <<>>
  <2> SUFFICES ASSUME NEW p \in Prefixes(<<>>) PROVE p = <<>>
    OBVIOUS
  <2>1. PICK l \in 0..Len(<<>>) : p = SubSeq(<<>>, 1, l)
    BY DEF Prefixes
  <2>2. QED
    BY <2>1
<1>2. /\ hb \in [Worker -> Seq(Heartbeat)] /\ res \in [Worker -> Seq(Result)]
      /\ hb[w] = <<>> /\ res[w] = <<>>
  BY DEF TypeInv, TypeOK, Heartbeat, Result, Quiet
<1>3. hb' = [hb EXCEPT ![w] = <<>>] /\ res' = [res EXCEPT ![w] = <<>>]
  BY <1>1, <1>2 DEF Die
<1>4. QED
  BY <1>2, <1>3 DEF Die

\* What the supervisor needs to find a process that is overdue.
LEMMA ExecutesReported ==
    ASSUME PlacedInv, NEW w \in Worker, pc[w] \in {"running", "hung"}, hb[w] = <<>>
    PROVE  inFlight[w] = cur[w] /\ cur[w] \in Task /\ inFlight[w] # NoTask
  BY PoolAssumption
     DEF PlacedInv, Placed, ExecutesAnnounced, TypeInv, BusyHasTask, PoolAssumption

\* The supervisor only takes a live process for stalled when it hangs.
LEMMA StalledHangs ==
    ASSUME NoLossInv, mode = "running", AllAttributed, NEW w \in Worker, CheckWorker(w), Timely
    PROVE  /\ Quiet(w) /\ pc[w] \in {"hung", "dead"}
           /\ ~Alive(w) => pc[w] = "dead"
           /\ Alive(w) => pc[w] = "hung"
<1>1. WorkerShape(w) /\ TypeOK /\ PlacedInv /\ Unanswered
  BY DEF NoLossInv, Faithful, PlacedInv, TypeInv
<1>2. CASE ~Alive(w)
  BY <1>1, <1>2 DEF TypeOK, Alive, WorkerShape, DeadShape
<1>3. CASE Alive(w)
  <2>1. Stalled(w) /\ sup = Idle
    BY <1>3 DEF CheckWorker, LoopFree
  <2>2. sup' = [at |-> "kill", worker |-> w, crashed |-> FALSE]
    <3>1. sup' = [at |-> "kill", worker |-> w, crashed |-> ~Alive(w)]
      BY DEF CheckWorker
    <3>2. QED
      BY <1>3, <3>1, Zenon
  <2>3. hb[w] = <<>> /\ inFlight[w] # NoTask
    BY <2>1, <2>2 DEF Timely, Stalled
  <2>4. pc[w] \in {"running", "hung"}
    BY <1>1, <1>3, <2>3 DEF Alive, WorkerShape, LoadingShape, GettingShape
  <2>5. inFlight[w] = cur[w] /\ cur[w] \in Task
    BY <1>1, <2>3, <2>4, ExecutesReported
  <2>6. inFlight[w] \in pending
    BY <1>1, <2>4, <2>5 DEF Unanswered, Executes
  <2>7. Overdue(w)
    BY <2>1, <2>6 DEF Stalled, Allowance, Overdue, LongestAge
  <2>8. QED
    BY <1>1, <1>3, <2>7 DEF WorkerShape, OverdueShape, Alive
<1>4. QED
  BY <1>2, <1>3

\* A fault that can be attributed was of such a kind, and so were all before it.
LEMMA FaultAttributed ==
    ASSUME NEW kind, Fault(kind), AllAttributed'
    PROVE  AllAttributed /\ kind \in Attributable
<1>1. faults'.blind = faults.blind \union ({kind} \ Attributable)
  BY DEF Fault
<1>2. QED
  BY <1>1 DEF AllAttributed

-----------------------------------------------------------------------------
(* Every step keeps it while the pool runs. *)

LEMMA AttributedBefore ==
    ASSUME [Next]_vars, AllAttributed'
    PROVE  AllAttributed
<1>1. ASSUME faults' = faults PROVE AllAttributed
  BY <1>1 DEF AllAttributed
<1>2. ASSUME NEW w \in Worker, Crash(w) \/ Hang(w) PROVE AllAttributed
  <2>1. PICK kind \in FaultKind : Fault(kind)
    BY <1>2, PoolAssumption DEF Crash, Hang, Fault, PoolAssumption
  <2>2. QED
    BY <2>1, FaultAttributed
<1>3. (\E w \in Worker : Crash(w) \/ Hang(w)) \/ faults' = faults
  BY DEF Next, WorkerNext, ParentNext, Load, AcquireReaderLock, GetTask, FinishTask,
         Submit, ReadResult, ReadHeartbeat, Tick, CheckWorker, StopJoin, Resolve, KillWorker,
         RespawnWorker, StopBegin, StopFail, ReaderExits, vars
<1>4. QED
  BY <1>1, <1>2, <1>3

LEMMA NoLossNext ==
    ASSUME NoLossInv, [Next /\ Timely]_vars, mode' = "running", AllAttributed'
    PROVE  mode = "running" /\ AllAttributed /\ Faithful'
<1>n. [Next]_vars
  OBVIOUS
<1>t. AllAttributed
  BY <1>n, AttributedBefore
<1>0. mode = "running"
  BY <1>n DEF Next, WorkerNext, ParentNext, Load, AcquireReaderLock, GetTask, FinishTask, Crash, Hang,
         Submit, ReadResult, ReadHeartbeat, Tick, CheckWorker, StopJoin, Resolve, KillWorker,
         RespawnWorker, StopBegin, StopFail, ReaderExits, NoLossInv, PlacedInv, TypeInv, TypeOK,
         vars, stopVars
<1> SUFFICES Faithful'
  BY <1>0, <1>t
<1>a. /\ OnlyTasks /\ Located /\ \A w \in Worker : WorkerShape(w)
      /\ PlacedInv /\ TypeInv
  BY <1>0, <1>t DEF NoLossInv, Faithful, PlacedInv
<1>b. /\ hb \in [Worker -> Seq(Heartbeat)] /\ res \in [Worker -> Seq(Result)]
      /\ taskQ \in Seq(Task \union {Poison})
      /\ pc \in [Worker -> {"loading", "getting", "running", "hung", "dead", "exited"}]
      /\ cur \in [Worker -> Task \union {NoTask}] /\ inFlight \in [Worker -> Task \union {NoTask}]
      /\ age \in [Worker -> 0..2] /\ pending \subseteq Task /\ sup \in SupState
  BY <1>a DEF TypeInv, TypeOK, Heartbeat, Result
<1>c. ASSUME NEW v \in Worker, UNCHANGED <<pc, hb, res, inFlight, age, sup>>
      PROVE  WorkerShape(v)'
  <2>1. WorkerShape(v)
    BY <1>a
  <2>2. QED
    BY <1>c, <2>1 DEF WorkerShape, LoadingShape, GettingShape, DeadShape, OverdueShape,
                      CheckedShape, Quiet, Overdue
\* A step of one worker leaves the others as they are.
<1>d. ASSUME NEW v \in Worker, UNCHANGED sup,
             pc'[v] = pc[v], hb'[v] = hb[v], res'[v] = res[v], inFlight'[v] = inFlight[v],
             age'[v] = age[v]
      PROVE  WorkerShape(v)'
  <2>1. WorkerShape(v)
    BY <1>a
  <2>2. QED
    BY <1>d, <2>1 DEF WorkerShape, LoadingShape, GettingShape, DeadShape, OverdueShape,
                      CheckedShape, Quiet, Overdue
\* A task that stays where it is stays located.
<1>e. ASSUME pending' \subseteq pending, UNCHANGED sup,
             \A t \in pending' : Occurs(taskQ, t) => Occurs(taskQ', t),
             \A t \in pending', w \in Worker : Keeps(w, t) => Keeps(w, t)'
      PROVE  Located'
  BY <1>a, <1>e DEF Located, Handed
<1>1. ASSUME NEW w \in Worker, Load(w) PROVE Faithful'
  <2>1. /\ pc[w] = "loading" /\ pc' = [pc EXCEPT ![w] = "getting"]
        /\ UNCHANGED <<taskQ, cur, hb, res, inFlight, age, pending, sup>>
    BY <1>1 DEF Load, channelVars, supVars, loopVars
  <2>2. WorkerShape(w)'
    <3>1. WorkerShape(w)
      BY <1>a
    <3>2. QED
      BY <1>b, <2>1, <3>1 DEF WorkerShape, LoadingShape, GettingShape, DeadShape, OverdueShape,
                        CheckedShape, Quiet, Overdue
  <2>3. \A v \in Worker : WorkerShape(v)'
    BY <1>b, <1>d, <2>1, <2>2
  <2>4. Located'
    BY <1>b, <1>e, <2>1 DEF Keeps, Executes, HasResult
  <2>5. QED
    BY <1>a, <2>1, <2>3, <2>4 DEF Faithful, OnlyTasks
<1>2. ASSUME NEW w \in Worker, GetTask(w) PROVE Faithful'
  <2>0. pc[w] = "getting" /\ taskQ # <<>> /\ taskQ' = Tail(taskQ)
    BY <1>2 DEF GetTask
  <2>1. /\ Len(taskQ) \in Nat \ {0} /\ Len(taskQ') = Len(taskQ) - 1 /\ Head(taskQ) = taskQ[1]
        /\ \A i \in 1..Len(taskQ) - 1 : taskQ'[i] = taskQ[i + 1]
    BY <1>b, <2>0, HeadTailProperties, LenProperties, EmptySeq
  <2>2. Head(taskQ) # Poison /\ OnlyTasks'
    <3>1. \A i \in 1..Len(taskQ) - 1 : i + 1 \in 1..Len(taskQ)
      BY <2>1
    <3>2. QED
      BY <1>a, <2>1, <3>1 DEF OnlyTasks
  <2>3. /\ pc' = [pc EXCEPT ![w] = "running"] /\ cur' = [cur EXCEPT ![w] = Head(taskQ)]
        /\ hb' = [hb EXCEPT ![w] = Append(@, [task |-> Head(taskQ), phase |-> "start"])]
        /\ UNCHANGED <<res, inFlight, age, pending, sup>>
    BY <1>2, <2>2 DEF GetTask, supVars, loopVars
  <2>4. WorkerShape(w)'
    <3>1. WorkerShape(w)
      BY <1>a
    <3>2. QED
      BY <1>b, <2>0, <2>3, <3>1 DEF WorkerShape, LoadingShape, GettingShape, DeadShape,
                                    OverdueShape, CheckedShape, Quiet, Overdue
  <2>5. \A v \in Worker : WorkerShape(v)'
    BY <1>b, <1>d, <2>3, <2>4
  <2>6. Located'
    <3> SUFFICES ASSUME NEW t \in pending PROVE
                 Occurs(taskQ', t) \/ Handed(t) \/ \E v \in Worker : Keeps(v, t)'
      BY <2>3 DEF Located, Handed
    <3>1. ASSUME NEW v \in Worker, Keeps(v, t) PROVE Keeps(v, t)'
      BY <1>b, <2>0, <2>3, <3>1 DEF Keeps, Executes, HasResult
    <3>2. ASSUME Occurs(taskQ, t) PROVE Occurs(taskQ', t) \/ Keeps(w, t)'
      <4>1. Head(taskQ) = t \/ Occurs(taskQ', t)
        BY <1>b, <2>0, <3>2, OccursRest
      <4>2. QED
        BY <1>b, <2>3, <4>1 DEF Keeps, Executes
    <3>3. QED
      BY <1>a, <3>1, <3>2 DEF Located
  <2>7. QED
    BY <2>2, <2>5, <2>6 DEF Faithful
<1>3. ASSUME NEW w \in Worker, FinishTask(w) PROVE Faithful'
  <2>1. /\ pc[w] = "running" /\ cur[w] \in Task
        /\ hb' = [hb EXCEPT ![w] = Append(hb[w], [task |-> cur[w], phase |-> "end"])]
        /\ pc' = [pc EXCEPT ![w] = "getting"] /\ cur' = [cur EXCEPT ![w] = NoTask]
        /\ UNCHANGED <<taskQ, inFlight, age, pending, sup>>
    <3>1. faults.blind = {}
      BY <1>t DEF AllAttributed
    <3>2. QED
      BY <1>3, <1>a, <3>1 DEF FinishTask, supVars, loopVars, TypeInv, BusyHasTask
  <2>2. PICK ok \in BOOLEAN : res' = [res EXCEPT ![w] = Append(res[w], [task |-> cur[w], ok |-> ok])]
    BY <1>3 DEF FinishTask
  <2>3. /\ hb'[w] # <<>>
        /\ hb'[w][Len(hb'[w])] = [task |-> cur[w], phase |-> "end"]
    <3>1. hb[w] \in Seq(Heartbeat) /\ [task |-> cur[w], phase |-> "end"] \in Heartbeat
      BY <1>b, <2>1 DEF Heartbeat
    <3>2. QED
      BY <1>b, <2>1, <3>1, LastAnnounced
  <2>4. WorkerShape(w)'
    <3>1. WorkerShape(w)
      BY <1>a
    <3>2. QED
      BY <1>b, <2>1, <2>3, <3>1 DEF WorkerShape, LoadingShape, GettingShape, DeadShape,
                                    OverdueShape, CheckedShape, Quiet, Overdue
  <2>5. \A v \in Worker : WorkerShape(v)'
    BY <1>b, <1>d, <2>1, <2>2, <2>4
  <2>6. \A e : Occurs(res'[w], e) <=> Occurs(res[w], e) \/ [task |-> cur[w], ok |-> ok] = e
    <3>1. [task |-> cur[w], ok |-> ok] \in Result
      BY <2>1 DEF Result
    <3>2. QED
      BY <1>b, <2>2, <3>1, OccursAppend
  <2>7. ASSUME NEW t \in pending, NEW v \in Worker, Keeps(v, t) PROVE Keeps(v, t)'
    <3>1. CASE v # w
      BY <1>b, <2>1, <2>2, <2>7, <3>1 DEF Keeps, Executes, HasResult
    <3>2. CASE v = w /\ Executes(w, t)
      BY <2>6, <3>2 DEF Keeps, Executes, HasResult
    <3>3. CASE v = w /\ HasResult(w, t)
      BY <2>6, <3>3 DEF Keeps, HasResult
    <3>4. QED
      BY <2>1, <2>7, <3>1, <3>2, <3>3 DEF Keeps
  <2>8. Located'
    BY <1>e, <2>1, <2>7
  <2>9. QED
    BY <1>a, <2>1, <2>5, <2>8 DEF Faithful, OnlyTasks
<1>4. ASSUME NEW w \in Worker, Crash(w) PROVE Faithful'
  <2>1. /\ pc[w] \in {"running", "hung"} /\ Quiet(w) /\ inFlight[w] = cur[w] /\ cur[w] \in Task
        /\ Die(w) /\ UNCHANGED <<taskQ, inFlight, age, pending, sup>>
    <3>1. \A kind : Fault(kind) => kind \in {"crash_reported", "hang"}
      BY FaultAttributed DEF Attributable
    <3>2. pc[w] \in {"running", "hung"} /\ Reported(w)
      BY <1>4, <3>1 DEF Crash
    <3>3. Die(w) /\ UNCHANGED <<taskQ, inFlight, age, pending, sup>>
      BY <1>4 DEF Crash, supVars, loopVars
    <3>4. QED
      BY <1>a, <3>2, <3>3 DEF Reported, Quiet, TypeInv, BusyHasTask
  <2>2. /\ hb' = hb /\ res' = res
        /\ pc' = [pc EXCEPT ![w] = "dead"] /\ cur' = [cur EXCEPT ![w] = NoTask]
    BY <1>a, <2>1, QuietDeath
  <2>3. WorkerShape(w)'
    <3>1. WorkerShape(w) /\ inFlight[w] # NoTask
      BY <1>a, <2>1, PoolAssumption DEF PoolAssumption
    <3>2. QED
      BY <1>b, <2>1, <2>2, <3>1 DEF WorkerShape, LoadingShape, GettingShape, DeadShape,
                                    OverdueShape, CheckedShape, Quiet, Overdue
  <2>4. \A v \in Worker : WorkerShape(v)'
    BY <1>b, <1>d, <2>1, <2>2, <2>3
  <2>5. Located'
    BY <1>b, <1>e, <2>1, <2>2 DEF Keeps, Executes, HasResult
  <2>6. QED
    BY <1>a, <2>1, <2>4, <2>5 DEF Faithful, OnlyTasks
<1>5. ASSUME NEW w \in Worker, Hang(w) PROVE Faithful'
  <2>1. /\ pc[w] = "running" /\ pc' = [pc EXCEPT ![w] = "hung"]
        /\ UNCHANGED <<taskQ, cur, hb, res, inFlight, age, pending, sup>>
    BY <1>5 DEF Hang, channelVars, supVars, loopVars
  <2>2. WorkerShape(w)'
    <3>1. WorkerShape(w)
      BY <1>a
    <3>2. QED
      BY <1>b, <2>1, <3>1 DEF WorkerShape, LoadingShape, GettingShape, DeadShape, OverdueShape,
                              CheckedShape, Quiet, Overdue
  <2>3. \A v \in Worker : WorkerShape(v)'
    BY <1>b, <1>d, <2>1, <2>2
  <2>4. Located'
    BY <1>b, <1>e, <2>1 DEF Keeps, Executes, HasResult
  <2>5. QED
    BY <1>a, <2>1, <2>3, <2>4 DEF Faithful, OnlyTasks
<1>6. ASSUME NEW t \in Task, Submit(t) PROVE Faithful'
  <2>1. /\ taskQ' = Append(taskQ, t) /\ pending' = pending \union {t}
        /\ UNCHANGED <<pc, cur, hb, res, inFlight, age, sup>>
    BY <1>6 DEF Submit, workerVars, channelVars, supVars
  <2>2. /\ Len(taskQ) \in Nat /\ Len(taskQ') = Len(taskQ) + 1
        /\ \A i \in 1..Len(taskQ) : taskQ'[i] = taskQ[i]
        /\ taskQ'[Len(taskQ) + 1] = t
    BY <1>b, <2>1, AppendProperties, LenProperties
  <2>3. OnlyTasks'
    <3>1. t # Poison /\ \A i \in 1..Len(taskQ) + 1 : i \in 1..Len(taskQ) \/ i = Len(taskQ) + 1
      BY <2>2, PoolAssumption DEF PoolAssumption
    <3>2. QED
      BY <1>a, <2>2, <3>1 DEF OnlyTasks
  <2>4. \A e : Occurs(taskQ', e) <=> Occurs(taskQ, e) \/ t = e
    <3>1. t \in Task \union {Poison}
      OBVIOUS
    <3>2. \A e : Occurs(Append(taskQ, t), e) <=> Occurs(taskQ, e) \/ t = e
      BY <1>b, <3>1, OccursAppend
    <3>3. QED
      BY <2>1, <3>2
  <2>5. Located'
    <3>1. \A v \in Worker, u \in pending : Keeps(v, u) => Keeps(v, u)'
      BY <2>1 DEF Keeps, Executes, HasResult
    <3>2. QED
      BY <1>a, <2>1, <2>4, <3>1 DEF Located, Handed
  <2>6. \A v \in Worker : WorkerShape(v)'
    BY <1>c, <2>1
  <2>7. QED
    BY <2>3, <2>5, <2>6 DEF Faithful
<1>7. ASSUME NEW w \in Worker, ReadResult(w) PROVE Faithful'
  <2>1. /\ res[w] # <<>> /\ res' = [res EXCEPT ![w] = Tail(res[w])]
        /\ pending' = pending \ {Head(res[w]).task}
        /\ UNCHANGED <<taskQ, pc, cur, hb, inFlight, age, sup>>
    BY <1>7 DEF ReadResult, workerVars, supVars
  <2>2. WorkerShape(w)'
    <3>1. WorkerShape(w)
      BY <1>a
    <3>2. QED
      BY <1>b, <2>1, <3>1 DEF WorkerShape, LoadingShape, GettingShape, DeadShape, OverdueShape,
                              CheckedShape, Quiet, Overdue
  <2>3. \A v \in Worker : WorkerShape(v)'
    BY <1>b, <1>d, <2>1, <2>2
  <2>4. ASSUME NEW t \in pending', NEW v \in Worker, Keeps(v, t) PROVE Keeps(v, t)'
    <3>1. ASSUME v = w, HasResult(w, t) PROVE HasResult(w, t)'
      <4>1. PICK ok \in BOOLEAN : Occurs(res[w], [task |-> t, ok |-> ok])
        BY <3>1 DEF HasResult
      <4>2. Head(res[w]) = [task |-> t, ok |-> ok] \/ Occurs(Tail(res[w]), [task |-> t, ok |-> ok])
        BY <1>b, <2>1, <4>1, OccursRest
      <4>3. Head(res[w]) # [task |-> t, ok |-> ok]
        BY <2>1
      <4>4. QED
        BY <1>b, <2>1, <4>2, <4>3 DEF HasResult
    <3>2. QED
      BY <1>b, <2>1, <2>4, <3>1 DEF Keeps, Executes, HasResult
  <2>5. Located'
    BY <1>e, <2>1, <2>4
  <2>6. QED
    BY <1>a, <2>1, <2>3, <2>5 DEF Faithful, OnlyTasks
<1>8. ASSUME NEW w \in Worker, ReadHeartbeat(w) PROVE Faithful'
  <2> DEFINE beat == Head(hb[w])
  <2>1. /\ hb[w] # <<>> /\ hb' = [hb EXCEPT ![w] = Tail(hb[w])]
        /\ age' = [age EXCEPT ![w] = 0]
        /\ inFlight' = [inFlight EXCEPT ![w] = IF beat.phase = "start" THEN beat.task ELSE NoTask]
        /\ UNCHANGED <<taskQ, pc, cur, res, pending, sup>>
    BY <1>8 DEF ReadHeartbeat, workerVars, loopVars
  <2>2. /\ Len(hb[w]) \in Nat \ {0} /\ Len(hb'[w]) = Len(hb[w]) - 1 /\ beat = hb[w][1]
        /\ \A i \in 1..Len(hb[w]) - 1 : hb'[w][i] = hb[w][i + 1]
    BY <1>b, <2>1, HeadTailProperties, LenProperties, EmptySeq
  <2>3. pc[w] \notin {"loading", "dead"}
    BY <1>a, <2>1 DEF WorkerShape, LoadingShape, DeadShape, Quiet
  <2>4. GettingShape(w)'
    <3>1. ASSUME pc[w] = "getting" PROVE hb[w][Len(hb[w])].phase = "end"
      BY <1>a, <2>1, <3>1 DEF WorkerShape, GettingShape
    <3>2. ASSUME hb'[w] = <<>> PROVE Len(hb[w]) = 1
      BY <2>2, <3>2
    <3>3. ASSUME pc[w] = "getting", hb'[w] = <<>> PROVE inFlight'[w] = NoTask
      BY <1>b, <2>1, <2>2, <3>1, <3>2, <3>3
    <3>4. ASSUME pc[w] = "getting", hb'[w] # <<>> PROVE hb'[w][Len(hb'[w])].phase = "end"
      <4>1. Len(hb'[w]) # 0
        BY <1>b, <2>1, <3>4, EmptySeq, HeadTailProperties
      <4>2. Len(hb'[w]) \in 1..Len(hb[w]) - 1 /\ Len(hb'[w]) + 1 = Len(hb[w])
        <5>1. \A m, n : n \in Nat \ {0} /\ m = n - 1 /\ m # 0 => m \in 1..n - 1 /\ m + 1 = n
          OBVIOUS
        <5>2. QED
          BY <2>2, <4>1, <5>1
      <4>3. QED
        BY <2>2, <3>1, <3>4, <4>2
    <3>5. QED
      BY <2>1, <3>3, <3>4 DEF GettingShape
  <2>5. WorkerShape(w)'
    <3>1. WorkerShape(w) /\ age'[w] = 0 /\ ~Quiet(w)
      BY <1>a, <1>b, <2>1 DEF Quiet
    <3>2. ~Overdue(w)'
      BY <3>1 DEF Overdue, LongestAge
    <3>3. ~(sup.at \in {"kill", "respawn"} /\ sup.worker = w)
      BY <2>3, <3>1 DEF WorkerShape, CheckedShape
    <3>4. QED
      BY <2>1, <2>3, <2>4, <3>1, <3>2, <3>3
         DEF WorkerShape, LoadingShape, DeadShape, OverdueShape, CheckedShape
  <2>6. \A v \in Worker : WorkerShape(v)'
    BY <1>b, <1>d, <2>1, <2>5
  <2>7. \A v \in Worker, t \in pending : Keeps(v, t) => Keeps(v, t)'
    BY <1>b, <2>1, <2>3 DEF Keeps, Executes, HasResult
  <2>8. Located'
    BY <1>e, <2>1, <2>7
  <2>9. QED
    BY <1>a, <2>1, <2>6, <2>8 DEF Faithful, OnlyTasks
<1>9. ASSUME NEW w \in Worker, Tick(w) PROVE Faithful'
  <2>1. /\ inFlight[w] # NoTask /\ Quiet(w)
        /\ pc[w] = "running" => age[w] + 1 < LongestAge(cur[w])
        /\ age' = [age EXCEPT ![w] = @ + 1]
        /\ UNCHANGED <<taskQ, pc, cur, hb, res, inFlight, pending, sup>>
    BY <1>9 DEF Tick, workerVars, channelVars, loopVars, Quiet, LongestAge
  <2>2. WorkerShape(w) /\ age'[w] = age[w] + 1
    BY <1>a, <1>b, <2>1
  <2>3. pc[w] = "running" => ~Overdue(w)'
    <3>1. ASSUME pc[w] = "running" PROVE age[w] + 1 < LongestAge(inFlight[w])
      BY <1>a, <2>1, <3>1, ExecutesReported DEF Quiet
    <3>2. age[w] \in Nat /\ LongestAge(inFlight[w]) \in {1, 2}
      <4>1. age[w] \in 0..2
        BY <1>b
      <4>2. LongestAge(inFlight[w]) \in {1, 2}
        BY DEF LongestAge
      <4>3. QED
        BY <4>1, <4>2
    <3>3. Overdue(w)' <=> inFlight[w] # NoTask /\ age'[w] >= LongestAge(inFlight[w])
      BY <2>1 DEF Overdue, LongestAge
    <3>4. QED
      BY <2>2, <3>1, <3>2, <3>3
  <2>4. pc[w] \in {"running", "hung", "dead"}
    BY <1>b, <2>1, <2>2 DEF WorkerShape, LoadingShape, GettingShape, Quiet
  <2>5. WorkerShape(w)'
    BY <2>1, <2>2, <2>3, <2>4 DEF WorkerShape, LoadingShape, GettingShape, DeadShape,
                                  OverdueShape, CheckedShape, Quiet
  <2>6. \A v \in Worker : WorkerShape(v)'
    BY <1>b, <1>d, <2>1, <2>5
  <2>7. Located'
    BY <1>e, <2>1 DEF Keeps, Executes, HasResult
  <2>8. QED
    BY <1>a, <2>1, <2>6, <2>7 DEF Faithful, OnlyTasks
<1>10. ASSUME NEW w \in Worker, CheckWorker(w) PROVE Faithful'
  <2>1. /\ sup = Idle /\ sup' = [at |-> "kill", worker |-> w, crashed |-> ~Alive(w)]
        /\ UNCHANGED <<taskQ, pc, cur, hb, res, inFlight, age, pending>>
    BY <1>10 DEF CheckWorker, LoopFree, workerVars, channelVars, loopVars
  <2>2. /\ Quiet(w) /\ pc[w] \in {"hung", "dead"}
        /\ ~Alive(w) => pc[w] = "dead"
    <3>1. Timely
      <4>1. CASE vars' = vars
        BY <4>1, <2>1 DEF vars, supVars, Idle
      <4>2. QED
        BY <4>1
    <3>2. QED
      BY <1>0, <1>t, <1>10, <3>1, StalledHangs
  <2>3. sup'.at = "kill" /\ sup'.worker = w /\ (sup'.crashed => ~Alive(w))
    BY <2>1
  <2>4. ASSUME NEW v \in Worker PROVE WorkerShape(v)'
    <3>1. WorkerShape(v)
      BY <1>a
    <3>2. CheckedShape(v)'
      BY <2>1, <2>2, <2>3 DEF CheckedShape, Quiet
    <3>3. QED
      BY <2>1, <3>1, <3>2 DEF WorkerShape, LoadingShape, GettingShape, DeadShape, OverdueShape,
                              Quiet, Overdue
  <2>5. Located'
    <3>1. \A t : ~Handed(t)
      BY <2>1 DEF Handed, Idle
    <3>2. QED
      BY <1>a, <2>1, <3>1 DEF Located, Keeps, Executes, HasResult
  <2>6. QED
    BY <1>a, <2>1, <2>4, <2>5 DEF Faithful, OnlyTasks
<1>11. CASE KillWorker
  <2> DEFINE w == sup.worker
  <2>1. sup \in [at : {"kill"}, worker : Worker, crashed : BOOLEAN]
    BY <1>11, <1>b DEF KillWorker, SupState, Idle
  <2>2. /\ w \in Worker /\ sup' = [at |-> "respawn", worker |-> w, task |-> inFlight[w]]
        /\ UNCHANGED <<taskQ, inFlight, age, pending>>
        /\ IF sup.crashed THEN UNCHANGED <<pc, cur, hb, res>> ELSE Die(w)
    BY <1>11, <2>1 DEF KillWorker, workerVars, channelVars, loopVars
  <2>3. pc[w] \in {"hung", "dead"} /\ Quiet(w) /\ (sup.crashed => pc[w] = "dead")
    BY <1>a, <2>1, <2>2 DEF WorkerShape, CheckedShape
  <2>4. /\ hb' = hb /\ res' = res /\ pc' = [pc EXCEPT ![w] = "dead"]
        /\ \A v \in Worker : v # w => cur'[v] = cur[v]
    <3>1. CASE sup.crashed
      BY <1>b, <2>2, <2>3, <3>1
    <3>2. CASE ~sup.crashed
      <4>1. Die(w)
        BY <2>2, <3>2
      <4>2. QED
        BY <1>a, <1>b, <2>2, <2>3, <4>1, QuietDeath
    <3>3. QED
      BY <3>1, <3>2
  <2>5. inFlight[w] # NoTask /\ (pc[w] = "hung" => inFlight[w] = cur[w])
    <3>1. CASE pc[w] = "hung"
      BY <1>a, <2>2, <2>3, <3>1, ExecutesReported DEF Quiet
    <3>2. CASE pc[w] = "dead"
      BY <1>a, <2>2, <3>2 DEF WorkerShape, DeadShape
    <3>3. QED
      BY <2>3, <3>1, <3>2
  <2>6. sup'.at = "respawn" /\ sup'.worker = w /\ sup'.task = inFlight[w]
    BY <2>2
  <2> HIDE DEF w
  <2>7. ASSUME NEW v \in Worker PROVE WorkerShape(v)'
    <3>1. WorkerShape(v)
      BY <1>a
    <3>2. CheckedShape(v)'
      BY <1>b, <2>2, <2>4, <2>6 DEF CheckedShape
    <3>3. QED
      BY <1>b, <2>2, <2>3, <2>4, <2>5, <3>1, <3>2
         DEF WorkerShape, LoadingShape, GettingShape, DeadShape, OverdueShape, Quiet, Overdue
  <2>8. Located'
    <3>1. \A t \in pending, v \in Worker : Keeps(v, t) => Keeps(v, t)'
      BY <1>b, <2>2, <2>3, <2>4, <2>5 DEF Keeps, Executes, HasResult
    <3>2. \A t : ~Handed(t)
      BY <2>1 DEF Handed
    <3>3. QED
      BY <1>a, <2>2, <3>1, <3>2 DEF Located
  <2>9. QED
    BY <1>0, <1>a, <2>2, <2>7, <2>8 DEF Faithful, OnlyTasks
<1>12. CASE RespawnWorker
  <2>0. sup \in [at : {"respawn"}, worker : Worker, task : Task \union {NoTask}]
    BY <1>12, <1>b DEF RespawnWorker, SupState, Idle
  <2>1. PICK w \in Worker, t \in Task \union {NoTask} : sup.worker = w /\ sup.task = t
    BY <2>0
  <2>2. /\ sup.at = "respawn" /\ pc' = [pc EXCEPT ![w] = "loading"]
        /\ inFlight' = [inFlight EXCEPT ![w] = NoTask] /\ age' = [age EXCEPT ![w] = 0]
        /\ taskQ' = IF t \in pending THEN Append(taskQ, t) ELSE taskQ
        /\ sup' = Idle /\ UNCHANGED <<cur, hb, res, pending>>
    BY <1>12, <2>1 DEF RespawnWorker, Spawn, channelVars, loopVars
  <2>3. pc[w] = "dead" /\ inFlight[w] = t /\ Quiet(w)
    BY <1>a, <2>1, <2>2 DEF WorkerShape, CheckedShape, DeadShape
  <2>4. \A e : Occurs(taskQ', e) <=> Occurs(taskQ, e) \/ (t \in pending /\ t = e)
    <3>1. CASE t \in pending
      <4>1. t \in Task \union {Poison} /\ taskQ \in Seq(Task \union {Poison})
        BY <1>b, <3>1
      <4>2. \A e : Occurs(Append(taskQ, t), e) <=> Occurs(taskQ, e) \/ t = e
        BY ONLY <4>1, OccursAppend
      <4>3. QED
        BY <2>2, <3>1, <4>2
    <3>2. CASE t \notin pending
      BY <2>2, <3>2
    <3>3. QED
      BY <3>1, <3>2
  <2>5. OnlyTasks'
    <3>1. OnlyTasks <=> ~Occurs(taskQ, Poison)
      BY DEF OnlyTasks, Occurs
    <3>2. OnlyTasks' <=> ~Occurs(taskQ', Poison)
      BY DEF OnlyTasks, Occurs
    <3>3. Poison \notin pending
      BY <1>b, PoolAssumption DEF PoolAssumption
    <3>4. QED
      BY <1>a, <2>4, <3>1, <3>2, <3>3
  <2>6. ASSUME NEW v \in Worker PROVE WorkerShape(v)'
    <3>1. WorkerShape(v) /\ CheckedShape(v)'
      BY <1>a, <2>2 DEF CheckedShape, Idle
    <3>2. QED
      BY <1>b, <2>2, <2>3, <3>1
         DEF WorkerShape, LoadingShape, GettingShape, DeadShape, OverdueShape, Quiet, Overdue
  <2>7. Located'
    <3>1. \A u \in pending, v \in Worker : u # t /\ Keeps(v, u) => Keeps(v, u)'
      BY <1>b, <2>2, <2>3 DEF Keeps, Executes, HasResult
    <3>2. \A u \in pending : u # t => ~Handed(u)
      BY <2>1 DEF Handed
    <3>3. QED
      BY <1>a, <2>2, <2>4, <3>1, <3>2 DEF Located
  <2>8. QED
    BY <1>0, <2>5, <2>6, <2>7 DEF Faithful
<1>13. CASE Resolve \/ \E w \in Worker : AcquireReaderLock(w)
  <2>1. UNCHANGED <<taskQ, pc, cur, hb, res, inFlight, age, pending, sup>>
    BY <1>13 DEF Resolve, AcquireReaderLock, workerVars, channelVars, supVars, loopVars
  <2>2. Located'
    BY <1>e, <2>1 DEF Keeps, Executes, HasResult
  <2>3. QED
    BY <1>0, <1>a, <1>c, <2>1, <2>2 DEF Faithful, OnlyTasks
<1>14. CASE UNCHANGED vars
  <2>1. UNCHANGED <<taskQ, pc, cur, hb, res, inFlight, age, pending, sup>>
    BY <1>14 DEF vars, workerVars, channelVars, supVars, loopVars
  <2>2. Located'
    BY <1>e, <2>1 DEF Keeps, Executes, HasResult
  <2>3. QED
    BY <1>0, <1>a, <1>c, <2>1, <2>2 DEF Faithful, OnlyTasks
<1>15. ~StopBegin /\ ~StopFail /\ ~ReaderExits /\ \A w \in Worker : ~StopJoin(w)
  BY <1>0 DEF StopBegin, StopFail, ReaderExits, StopJoin
<1>16. QED
  BY <1>n, <1>t, <1>0, <1>1, <1>2, <1>3, <1>4, <1>5, <1>6, <1>7, <1>8, <1>9, <1>10, <1>11, <1>12,
     <1>13, <1>14, <1>15 DEF Next, WorkerNext, ParentNext

\* Most steps bring no task anywhere new.
LEMMA StillUnanswered ==
    ASSUME Unanswered, pending' = pending, pending \subseteq Task,
           \A t : Occurs(taskQ', t) => Occurs(taskQ, t),
           \A t \in Task : fut'[t] = "new" => fut[t] = "new",
           \A w \in Worker, t \in Task : /\ Executes(w, t)' => Executes(w, t)
                                         /\ HasResult(w, t)' => HasResult(w, t),
           \A w \in Worker, t \in Task :
             pc'[w] = "dead" /\ inFlight'[w] = t =>
                 (pc[w] = "dead" /\ inFlight[w] = t) \/ Executes(w, t)
    PROVE  Unanswered'
<1>1. ASSUME NEW w \in Worker, NEW t \in Task, HasResult(w, t)' PROVE Over(t)'
  <2>1. Over(t)
    BY <1>1 DEF Unanswered
  <2>2. QED
    BY <2>1 DEF Over
<1>2. QED
  BY <1>1 DEF Unanswered

\* A process that dies in a task it has reported still accounts for it.
LEMMA DeathUnanswered ==
    ASSUME TypeInv, Unanswered, NEW w \in Worker, pc[w] \in {"running", "hung"}, Quiet(w),
           inFlight[w] = cur[w], Die(w), UNCHANGED <<taskQ, inFlight, pending, fut>>
    PROVE  Unanswered'
<1>1. /\ res' = res /\ pc' = [pc EXCEPT ![w] = "dead"] /\ cur' = [cur EXCEPT ![w] = NoTask]
  BY QuietDeath
<1>2. /\ pc \in [Worker -> {"loading", "getting", "running", "hung", "dead", "exited"}]
      /\ cur \in [Worker -> Task \union {NoTask}] /\ pending \subseteq Task
  BY DEF TypeInv, TypeOK
<1>3. \A v \in Worker, t \in Task :
        /\ Executes(v, t)' => Executes(v, t)
        /\ HasResult(v, t)' => HasResult(v, t)
        /\ pc'[v] = "dead" /\ inFlight'[v] = t => (pc[v] = "dead" /\ inFlight[v] = t) \/ Executes(v, t)
  BY <1>1, <1>2 DEF Executes, HasResult
<1>4. QED
  BY <1>2, <1>3, StillUnanswered

\* Whoever is in a task has claimed it.
LEMMA ExecutesClaims ==
    ASSUME PlacedInv, NEW w \in Worker, NEW t, Executes(w, t)
    PROVE  Claims(w, t)
<1>1. hb \in [Worker -> Seq(Heartbeat)] /\ ExecutesAnnounced
  BY DEF PlacedInv, Placed, TypeInv, TypeOK, Heartbeat
<1>2. CASE hb[w] = <<>>
  BY <1>1, <1>2 DEF Executes, ExecutesAnnounced, Claims
<1>3. CASE hb[w] # <<>>
  <2>1. Len(hb[w]) \in 1..Len(hb[w])
    BY <1>1, <1>3, LenProperties, EmptySeq
  <2>2. QED
    BY <1>1, <1>3, <2>1 DEF Executes, ExecutesAnnounced, Claims, Occurs
<1>4. QED
  BY <1>2, <1>3

LEMMA UnansweredNext ==
    ASSUME NoLossInv, [Next /\ Timely]_vars, mode' = "running", AllAttributed'
    PROVE  Unanswered'
<1>n. [Next]_vars
  OBVIOUS
<1>0. mode = "running" /\ AllAttributed /\ PlacedInv
  BY NoLossNext DEF NoLossInv
<1>a. /\ OnlyTasks /\ Located /\ \A w \in Worker : WorkerShape(w)
      /\ Unanswered /\ TypeInv /\ Placed
  BY <1>0 DEF NoLossInv, Faithful, PlacedInv
<1>b. /\ hb \in [Worker -> Seq(Heartbeat)] /\ res \in [Worker -> Seq(Result)]
      /\ taskQ \in Seq(Task \union {Poison})
      /\ pc \in [Worker -> {"loading", "getting", "running", "hung", "dead", "exited"}]
      /\ cur \in [Worker -> Task \union {NoTask}] /\ inFlight \in [Worker -> Task \union {NoTask}]
      /\ pending \subseteq Task /\ sup \in SupState /\ callbacks \subseteq Result
      /\ fut \in [Task -> {"new", "waiting", "ok", "error", "aborted"}] /\ NoTask \notin Task
  BY <1>a, PoolAssumption DEF TypeInv, TypeOK, Heartbeat, Result, PoolAssumption
<1>1. ASSUME NEW w \in Worker, Load(w) \/ Hang(w) PROVE Unanswered'
  <2>1. /\ UNCHANGED <<taskQ, pending, fut, cur, res, inFlight>>
        /\ (pc[w] = "loading" /\ pc' = [pc EXCEPT ![w] = "getting"])
           \/ (pc[w] = "running" /\ pc' = [pc EXCEPT ![w] = "hung"])
    BY <1>1 DEF Load, Hang, channelVars, supVars, loopVars
  <2>2. \A v \in Worker, t \in Task :
          /\ Executes(v, t)' => Executes(v, t)
          /\ HasResult(v, t)' => HasResult(v, t)
          /\ pc'[v] = "dead" => pc[v] = "dead"
    BY <1>b, <2>1 DEF Executes, HasResult
  <2>3. QED
    BY <1>a, <1>b, <2>1, <2>2, StillUnanswered
<1>2. ASSUME NEW w \in Worker, GetTask(w) PROVE Unanswered'
  <2> DEFINE t == Head(taskQ)
  <2>0. /\ pc[w] = "getting" /\ taskQ # <<>> /\ taskQ' = Tail(taskQ)
        /\ UNCHANGED <<pending, fut, res, inFlight>>
    BY <1>2 DEF GetTask, supVars, loopVars
  <2>1. \A u : Occurs(taskQ', u) => Occurs(taskQ, u)
    BY <1>b, <2>0, OccursTail
  <2>2. Occurs(taskQ, t) /\ t # Poison /\ t \in Task
    <3>1. t \in Task \union {Poison} /\ t = taskQ[1] /\ 1 \in 1..Len(taskQ)
      BY <1>b, <2>0, HeadTailProperties, LenProperties, EmptySeq
    <3>2. QED
      BY <1>a, <3>1 DEF OnlyTasks, Occurs
  <2>3. pc' = [pc EXCEPT ![w] = "running"] /\ cur' = [cur EXCEPT ![w] = t]
    BY <1>2, <2>2 DEF GetTask
  <2> HIDE DEF t
  <2>4. t \in pending
    BY <1>a, <2>2 DEF Unanswered
  <2>5. AtMostOnce(taskQ, t)
    BY <1>a, <2>4 DEF Placed, QueuedOnce
  <2>6. ~Occurs(taskQ', t)
    BY <1>b, <2>0, <2>5, OccursTail DEF t
  <2>7. \A v \in Worker, u \in Task :
          /\ Executes(v, u)' => Executes(v, u) \/ u = t
          /\ HasResult(v, u)' <=> HasResult(v, u)
          /\ pc'[v] = "dead" => pc[v] = "dead"
    BY <1>b, <2>0, <2>3 DEF Executes, HasResult
  <2>8. \A v \in Worker : ~HasResult(v, t)
    BY <1>a, <2>2 DEF Unanswered, Over
  <2>9. ASSUME NEW v \in Worker, NEW u \in Task, HasResult(v, u)' PROVE Over(u)'
    <3>1. HasResult(v, u) /\ u # t
      BY <2>7, <2>8, <2>9
    <3>2. Over(u)
      BY <1>a, <3>1 DEF Unanswered
    <3>3. QED
      BY <2>0, <2>1, <2>7, <3>1, <3>2 DEF Over
  <2>10. QED
    BY <1>a, <2>0, <2>1, <2>4, <2>7, <2>9 DEF Unanswered
<1>3. ASSUME NEW w \in Worker, FinishTask(w) PROVE Unanswered'
  <2>t. PICK t \in Task : t = cur[w]
    BY <1>3, <1>a DEF FinishTask, TypeInv, BusyHasTask
  <2>1. /\ Executes(w, t) /\ pc' = [pc EXCEPT ![w] = "getting"]
        /\ UNCHANGED <<taskQ, inFlight, pending, fut>>
    BY <1>3, <2>t DEF FinishTask, Executes, supVars, loopVars
  <2>2. PICK ok \in BOOLEAN : res' = [res EXCEPT ![w] = Append(res[w], [task |-> t, ok |-> ok])]
    BY <1>3, <2>t DEF FinishTask
  <2>3. cur' = [cur EXCEPT ![w] = NoTask]
    BY <1>3 DEF FinishTask
  <2>4. t \in pending /\ fut[t] # "new"
    BY <1>a, <2>1 DEF Unanswered
  <2>5. Claims(w, t)
    BY <1>0, <2>1, ExecutesClaims
  <2>6. ~Occurs(taskQ, t)
    BY <1>a, <2>4, <2>5 DEF Placed, QueuedOnce
  <2>7. \A v \in Worker : Claims(v, t) => v = w
    BY <1>a, <2>4, <2>5 DEF Placed, ClaimedOnce
  <2>8. \A v \in Worker, u \in Task :
          /\ Executes(v, u)' => Executes(v, u) /\ v # w
          /\ pc'[v] = "dead" => pc[v] = "dead" /\ v # w
    BY <1>b, <2>1, <2>3 DEF Executes
  <2>9. Over(t)'
    <3>1. \A v \in Worker : ~Executes(v, t)'
      <4>1. \A v \in Worker : Executes(v, t) => Claims(v, t)
        BY <1>0, ExecutesClaims
      <4>2. QED
        BY <2>1, <2>7, <2>8, <4>1
    <3>2. \A v \in Worker : ~(pc'[v] = "dead" /\ inFlight'[v] = t)
      BY <2>1, <2>7, <2>8 DEF Claims
    <3>3. fut'[t] # "new" /\ ~Occurs(taskQ', t)
      BY <2>1, <2>4, <2>6
    <3>4. Over(t)' <=> /\ fut'[t] # "new" /\ ~Occurs(taskQ', t)
                       /\ \A v \in Worker : ~Executes(v, t)' /\ ~(pc'[v] = "dead" /\ inFlight'[v] = t)
      BY DEF Over
    <3>5. QED
      BY <3>1, <3>2, <3>3, <3>4
  <2>10. ASSUME NEW v \in Worker, NEW u \in Task, HasResult(v, u)' PROVE Over(u)'
    <3>1. CASE u = t
      BY <2>9, <3>1
    <3>2. CASE u # t
      <4>1. HasResult(v, u)
        <5>1. CASE v # w
          BY <1>b, <2>2, <2>10, <5>1 DEF HasResult
        <5>2. CASE v = w
          <6>1. [task |-> t, ok |-> ok] \in Result /\ res[w] \in Seq(Result)
            BY <1>b, <2>1 DEF Result
          <6>2. res'[w] = Append(res[w], [task |-> t, ok |-> ok])
            BY <1>b, <2>2
          <6>3. PICK k \in BOOLEAN : Occurs(res'[w], [task |-> u, ok |-> k])
            BY <2>10, <5>2 DEF HasResult
          <6>4. Occurs(res[w], [task |-> u, ok |-> k]) \/ [task |-> t, ok |-> ok] = [task |-> u, ok |-> k]
            BY <6>1, <6>2, <6>3, OccursAppend
          <6>5. [task |-> t, ok |-> ok] # [task |-> u, ok |-> k]
            BY <3>2
          <6>6. QED
            BY <5>2, <6>4, <6>5 DEF HasResult
        <5>3. QED
          BY <5>1, <5>2
      <4>2. Over(u)
        BY <1>a, <4>1 DEF Unanswered
      <4>3. QED
        BY <2>1, <2>8, <4>2 DEF Over
    <3>3. QED
      BY <3>1, <3>2
  <2>11. QED
    BY <1>a, <2>1, <2>8, <2>10 DEF Unanswered
<1>4. ASSUME NEW w \in Worker, Crash(w) PROVE Unanswered'
  <2>1. /\ pc[w] \in {"running", "hung"} /\ Quiet(w) /\ inFlight[w] = cur[w]
        /\ Die(w) /\ UNCHANGED <<taskQ, inFlight, pending, fut>>
    <3>1. \A kind : Fault(kind) => kind \in {"crash_reported", "hang"}
      BY FaultAttributed DEF Attributable
    <3>2. pc[w] \in {"running", "hung"} /\ Reported(w)
      BY <1>4, <3>1 DEF Crash
    <3>3. Die(w) /\ UNCHANGED <<taskQ, inFlight, pending, fut>>
      BY <1>4 DEF Crash, supVars, loopVars
    <3>4. QED
      BY <3>2, <3>3 DEF Reported, Quiet
  <2>2. QED
    BY <1>a, <1>b, <2>1, DeathUnanswered
<1>5. CASE KillWorker
  <2>1. sup \in [at : {"kill"}, worker : Worker, crashed : BOOLEAN]
    BY <1>5, <1>b DEF KillWorker, SupState, Idle
  <2>2. PICK w \in Worker : sup.worker = w
    BY <2>1
  <2>3. /\ UNCHANGED <<taskQ, inFlight, pending, fut>>
        /\ IF sup.crashed THEN UNCHANGED <<pc, cur, hb, res>> ELSE Die(w)
    BY <1>5, <2>2 DEF KillWorker, workerVars, channelVars, loopVars
  <2>4. pc[w] \in {"hung", "dead"} /\ Quiet(w) /\ (sup.crashed => pc[w] = "dead")
    BY <1>a, <2>1, <2>2 DEF WorkerShape, CheckedShape
  <2>5. CASE sup.crashed
    <3>1. UNCHANGED <<taskQ, pending, fut, pc, cur, res, inFlight>>
      BY <2>3, <2>5
    <3>2. QED
      BY <1>a, <1>b, <3>1, StillUnanswered DEF Executes, HasResult
  <2>6. CASE ~sup.crashed
    <3>1. Die(w)
      BY <2>3, <2>6
    <3>2. CASE pc[w] = "hung"
      <4>1. inFlight[w] = cur[w]
        BY <1>0, <2>4, <3>2, ExecutesReported DEF Quiet
      <4>2. QED
        BY <1>a, <1>b, <2>3, <2>4, <3>1, <3>2, <4>1, DeathUnanswered
    <3>3. CASE pc[w] = "dead"
      <4>1. /\ res' = res /\ pc' = [pc EXCEPT ![w] = "dead"] /\ cur' = [cur EXCEPT ![w] = NoTask]
        BY <1>a, <2>4, <3>1, QuietDeath
      <4>2. \A v \in Worker, t \in Task :
              /\ Executes(v, t)' => Executes(v, t)
              /\ HasResult(v, t)' => HasResult(v, t)
              /\ pc'[v] = "dead" => pc[v] = "dead"
        BY <1>b, <3>3, <4>1 DEF Executes, HasResult
      <4>3. QED
        BY <1>a, <1>b, <2>3, <4>2, StillUnanswered
    <3>4. QED
      BY <2>4, <3>2, <3>3
  <2>7. QED
    BY <2>5, <2>6
<1>6. ASSUME NEW t \in Task, Submit(t) PROVE Unanswered'
  <2>1. /\ fut[t] = "new" /\ fut' = [fut EXCEPT ![t] = "waiting"] /\ pending' = pending \union {t}
        /\ taskQ' = Append(taskQ, t) /\ UNCHANGED <<pc, cur, res, inFlight>>
    BY <1>6 DEF Submit, workerVars, channelVars, supVars
  <2>2. \A u : Occurs(taskQ', u) <=> Occurs(taskQ, u) \/ t = u
    <3>1. t \in Task \union {Poison} /\ taskQ \in Seq(Task \union {Poison})
      BY <1>b
    <3>2. \A u : Occurs(Append(taskQ, t), u) <=> Occurs(taskQ, u) \/ t = u
      BY ONLY <3>1, OccursAppend
    <3>3. QED
      BY <2>1, <3>2
  <2>3. \A v \in Worker, u \in Task : /\ Executes(v, u)' <=> Executes(v, u)
                                      /\ HasResult(v, u)' <=> HasResult(v, u)
    BY <2>1 DEF Executes, HasResult
  <2>4. ASSUME NEW v \in Worker, NEW u \in Task, HasResult(v, u)' PROVE Over(u)'
    <3>1. Over(u)
      BY <1>a, <2>3, <2>4 DEF Unanswered
    <3>2. u # t /\ fut'[u] = fut[u]
      BY <1>b, <2>1, <3>1 DEF Over
    <3>3. QED
      BY <2>1, <2>2, <2>3, <3>1, <3>2 DEF Over
  <2>5. \A u \in pending' : fut'[u] # "new"
    BY <1>a, <1>b, <2>1 DEF Unanswered
  <2>6. QED
    BY <1>a, <2>1, <2>2, <2>3, <2>4, <2>5 DEF Unanswered
<1>7. ASSUME NEW w \in Worker, ReadResult(w) PROVE Unanswered'
  <2> DEFINE item == Head(res[w])
  <2>1. /\ res[w] # <<>> /\ res' = [res EXCEPT ![w] = Tail(res[w])]
        /\ pending' = pending \ {item.task}
        /\ UNCHANGED <<taskQ, pc, cur, inFlight, fut>>
    BY <1>7 DEF ReadResult, workerVars, supVars
  <2>2. item \in Result /\ Occurs(res[w], item)
    BY <1>b, <2>1, OccursTail, HeadTailProperties
  <2> HIDE DEF item
  <2>3. item.task \in Task /\ HasResult(w, item.task)
    <3>1. item.task \in Task /\ item.ok \in BOOLEAN /\ item = [task |-> item.task, ok |-> item.ok]
      BY <2>2 DEF Result
    <3>2. QED
      BY <2>2, <3>1 DEF HasResult
  <2>4. Over(item.task)
    BY <1>a, <2>3 DEF Unanswered
  <2>5. \A v \in Worker, u \in Task : /\ Executes(v, u)' <=> Executes(v, u)
                                      /\ HasResult(v, u)' => HasResult(v, u)
    <3>1. \A e : Occurs(Tail(res[w]), e) => Occurs(res[w], e)
      BY <1>b, <2>1, OccursTail
    <3>2. \A v \in Worker : res'[v] = IF v = w THEN Tail(res[w]) ELSE res[v]
      BY <1>b, <2>1
    <3>3. QED
      BY <2>1, <3>1, <3>2 DEF Executes, HasResult
  <2>6. ASSUME NEW v \in Worker, NEW u \in Task, HasResult(v, u)' PROVE Over(u)'
    <3>1. Over(u)
      BY <1>a, <2>5, <2>6 DEF Unanswered
    <3>2. QED
      BY <2>1, <2>5, <3>1 DEF Over
  <2>7. QED
    BY <1>a, <2>1, <2>4, <2>5, <2>6 DEF Unanswered, Over
<1>8. ASSUME NEW w \in Worker, ReadHeartbeat(w) PROVE Unanswered'
  <2>1. /\ hb[w] # <<>> /\ UNCHANGED <<taskQ, pc, cur, res, pending, fut>>
        /\ \A v \in Worker : v # w => inFlight'[v] = inFlight[v]
    BY <1>8 DEF ReadHeartbeat, workerVars, loopVars
  <2>2. pc[w] # "dead"
    BY <1>a, <2>1 DEF WorkerShape, DeadShape, Quiet
  <2>3. QED
    BY <1>a, <1>b, <2>1, <2>2, StillUnanswered DEF Executes, HasResult
<1>9. CASE RespawnWorker
  <2>0. sup \in [at : {"respawn"}, worker : Worker, task : Task \union {NoTask}]
    BY <1>9, <1>b DEF RespawnWorker, SupState, Idle
  <2>1. PICK w \in Worker, t \in Task \union {NoTask} : sup.worker = w /\ sup.task = t
    BY <2>0
  <2>2. /\ sup.at = "respawn" /\ pc' = [pc EXCEPT ![w] = "loading"]
        /\ inFlight' = [inFlight EXCEPT ![w] = NoTask]
        /\ taskQ' = IF t \in pending THEN Append(taskQ, t) ELSE taskQ
        /\ UNCHANGED <<cur, res, pending, fut>>
    BY <1>9, <2>1 DEF RespawnWorker, Spawn, channelVars, loopVars
  <2>3. pc[w] = "dead" /\ inFlight[w] = t
    BY <1>a, <2>1, <2>2 DEF WorkerShape, CheckedShape
  <2>4. \A v \in Worker, u \in Task : /\ Executes(v, u)' <=> Executes(v, u)
                                      /\ HasResult(v, u)' <=> HasResult(v, u)
                                      /\ pc'[v] = "dead" => pc[v] = "dead" /\ inFlight'[v] = inFlight[v]
    BY <1>b, <2>2, <2>3 DEF Executes, HasResult
  <2>5. \A u : Occurs(taskQ', u) => Occurs(taskQ, u) \/ (u = t /\ t \in pending)
    <3>1. CASE t \in pending
      <4>1. t \in Task \union {Poison} /\ taskQ \in Seq(Task \union {Poison})
        BY <1>b, <3>1
      <4>2. \A u : Occurs(Append(taskQ, t), u) <=> Occurs(taskQ, u) \/ t = u
        BY ONLY <4>1, OccursAppend
      <4>3. QED
        BY <2>2, <3>1, <4>2
    <3>2. CASE t \notin pending
      BY <2>2, <3>2
    <3>3. QED
      BY <3>1, <3>2
  <2>6. ASSUME NEW v \in Worker, NEW u \in Task, HasResult(v, u)' PROVE Over(u)'
    <3>1. Over(u)
      BY <1>a, <2>4, <2>6 DEF Unanswered
    <3>2. u # t
      BY <2>3, <3>1 DEF Over
    <3>3. QED
      BY <2>2, <2>4, <2>5, <3>1, <3>2 DEF Over
  <2>7. QED
    BY <1>a, <2>2, <2>4, <2>5, <2>6 DEF Unanswered
<1>10. CASE Resolve
  <2>1. UNCHANGED <<taskQ, pending, pc, cur, res, inFlight>>
    BY <1>10 DEF Resolve, workerVars, channelVars, supVars
  <2>2. \A t \in Task : fut'[t] = "new" => fut[t] = "new"
    BY <1>10, <1>b DEF Resolve, Result
  <2>3. QED
    BY <1>a, <1>b, <2>1, <2>2, StillUnanswered DEF Executes, HasResult
<1>11. CASE UNCHANGED vars \/ \E w \in Worker : AcquireReaderLock(w) \/ Tick(w) \/ CheckWorker(w)
  <2>1. UNCHANGED <<taskQ, pending, fut, pc, cur, res, inFlight>>
    BY <1>11 DEF AcquireReaderLock, Tick, CheckWorker, vars, workerVars, channelVars, supVars, loopVars
  <2>2. QED
    BY <1>a, <1>b, <2>1, StillUnanswered DEF Executes, HasResult
<1>12. ~StopBegin /\ ~StopFail /\ ~ReaderExits /\ \A w \in Worker : ~StopJoin(w)
  BY <1>0 DEF StopBegin, StopFail, ReaderExits, StopJoin
<1>13. QED
  BY <1>n, <1>1, <1>2, <1>3, <1>4, <1>5, <1>6, <1>7, <1>8, <1>9, <1>10, <1>11, <1>12
     DEF Next, WorkerNext, ParentNext

LEMMA NoLossInvariant == TimelySpec => []NoLossInv
<1>1. Init => NoLossInv
  <2> SUFFICES ASSUME Init PROVE NoLossInv
    OBVIOUS
  <2>1. PlacedInv
    BY PlacedInit
  <2>2. Faithful
    BY DEF Init, Faithful, OnlyTasks, Located, WorkerShape, LoadingShape, GettingShape, DeadShape,
           OverdueShape, CheckedShape, Quiet, Overdue, Idle
  <2>3. Unanswered
    BY DEF Init, Unanswered, Executes, HasResult, Occurs
  <2>4. QED
    BY <2>1, <2>2, <2>3 DEF NoLossInv
<1>2. NoLossInv /\ [Next /\ Timely]_vars => NoLossInv'
  <2> SUFFICES ASSUME NoLossInv, [Next /\ Timely]_vars PROVE NoLossInv'
    OBVIOUS
  <2>1. [Next]_vars
    OBVIOUS
  <2>2. PlacedInv'
    BY <2>1, PlacedNext DEF NoLossInv
  <2>3. ASSUME mode' = "running", AllAttributed' PROVE Faithful' /\ Unanswered'
    BY <2>3, NoLossNext, UnansweredNext
  <2>4. QED
    BY <2>2, <2>3 DEF NoLossInv
<1>3. QED
  BY <1>1, <1>2, PTL DEF TimelySpec

\* Whoever awaits a task can point to where it is, as long as the parent can tell
\* which task a fault hit and reads heartbeats before it acts on their absence.
THEOREM AsrPoolNoTaskLost == TimelySpec => []NoTaskLost
<1>1. NoLossInv => NoTaskLost
  <2> SUFFICES ASSUME NoLossInv, mode = "running", AllAttributed, NEW t \in pending
               PROVE  \/ Contains(taskQ, t)
                      \/ \E w \in Worker :
                           \/ Executes(w, t)
                           \/ \E i \in DOMAIN res[w] : res[w][i].task = t
                           \/ pc[w] = "dead" /\ inFlight[w] = t
                      \/ sup.at = "respawn" /\ sup.task = t
    BY DEF NoTaskLost
  <2>1. Occurs(taskQ, t) \/ Handed(t) \/ \E w \in Worker : Keeps(w, t)
    BY DEF NoLossInv, Faithful, Located
  <2>2. ASSUME Occurs(taskQ, t) PROVE Contains(taskQ, t)
    BY <2>2 DEF Occurs, Contains
  <2>3. ASSUME NEW w \in Worker, HasResult(w, t)
        PROVE  \E i \in DOMAIN res[w] : res[w][i].task = t
    <3>1. DOMAIN res[w] = 1..Len(res[w])
      BY LenProperties DEF NoLossInv, PlacedInv, TypeInv, TypeOK
    <3>2. PICK ok \in BOOLEAN : Occurs(res[w], [task |-> t, ok |-> ok])
      BY <2>3 DEF HasResult
    <3>3. QED
      BY <3>1, <3>2 DEF Occurs
  <2>4. QED
    BY <2>1, <2>2, <2>3 DEF Keeps, Handed
<1>2. QED
  BY <1>1, NoLossInvariant, PTL

-----------------------------------------------------------------------------
(* The supervisor spares healthy work. *)

\* A task of which the start has been read, and nothing of its worker is unread,
\* has not outlasted its allowance.
InTime ==
    \A w \in Worker : pc[w] = "running" /\ hb[w] = <<>> => age[w] < LongestAge(cur[w])

LEMMA InTimeNext ==
    ASSUME PlacedInv, InTime, [Next]_vars
    PROVE  InTime'
<1>0. /\ hb \in [Worker -> Seq(Heartbeat)] /\ age \in [Worker -> 0..2] /\ sup \in SupState
      /\ pc \in [Worker -> {"loading", "getting", "running", "hung", "dead", "exited"}]
      /\ cur \in [Worker -> Task \union {NoTask}] /\ taskQ \in Seq(Task \union {Poison})
      /\ TypeInv
  BY DEF PlacedInv, TypeInv, TypeOK, Heartbeat
<1>a. \A t : 0 < LongestAge(t)
  BY DEF LongestAge
\* Whoever does not enter a task keeps the age it had in it.
<1>b. ASSUME \A v \in Worker : pc'[v] = "running" /\ hb'[v] = <<>> =>
                 /\ pc[v] = "running" /\ cur'[v] = cur[v]
                 /\ (hb[v] = <<>> /\ age'[v] = age[v]) \/ age'[v] = 0
      PROVE  InTime'
  BY <1>a, <1>b DEF InTime, LongestAge
<1>1. ASSUME NEW w \in Worker, GetTask(w) PROVE InTime'
  <2>1. pc[w] = "getting" /\ UNCHANGED age
    BY <1>1 DEF GetTask, supVars
  <2>2. CASE Head(taskQ) = Poison
    <3>1. UNCHANGED <<cur, hb>> /\ pc' = [pc EXCEPT ![w] = "exited"]
      BY <1>1, <2>2 DEF GetTask
    <3>2. QED
      BY <1>0, <1>b, <2>1, <3>1
  <2>3. CASE Head(taskQ) # Poison
    <3>1. /\ hb' = [hb EXCEPT ![w] = Append(hb[w], [task |-> Head(taskQ), phase |-> "start"])]
          /\ pc' = [pc EXCEPT ![w] = "running"] /\ cur' = [cur EXCEPT ![w] = Head(taskQ)]
      BY <1>1, <2>3 DEF GetTask
    <3>2. hb'[w] # <<>>
      <4>1. Head(taskQ) \in Task
        BY <1>0, <1>1, <2>3, HeadTailProperties DEF GetTask
      <4>2. [task |-> Head(taskQ), phase |-> "start"] \in Heartbeat
        BY ONLY <4>1 DEF Heartbeat
      <4>3. QED
        BY <1>0, <3>1, <4>2, LastAnnounced
    <3>3. QED
      BY <1>0, <1>b, <2>1, <3>1, <3>2
  <2>4. QED
    BY <2>2, <2>3
<1>2. ASSUME NEW w \in Worker, Tick(w) PROVE InTime'
  <2>1. /\ pc[w] = "running" => age[w] + 1 < LongestAge(cur[w])
        /\ age' = [age EXCEPT ![w] = age[w] + 1] /\ UNCHANGED <<pc, cur, hb>>
    BY <1>2 DEF Tick, workerVars, channelVars, LongestAge
  <2>2. QED
    BY <1>0, <2>1 DEF InTime, LongestAge
<1>3. ASSUME NEW w \in Worker, ReadHeartbeat(w) PROVE InTime'
  <2>1. age' = [age EXCEPT ![w] = 0] /\ hb' = [hb EXCEPT ![w] = Tail(@)] /\ UNCHANGED <<pc, cur>>
    BY <1>3 DEF ReadHeartbeat, workerVars
  <2>2. QED
    BY <1>0, <1>b, <2>1
<1>4. ASSUME NEW w \in Worker, Die(w), UNCHANGED age PROVE InTime'
  <2>1. /\ pc' = [pc EXCEPT ![w] = "dead"] /\ cur' = [cur EXCEPT ![w] = NoTask]
        /\ \A v \in Worker : v # w => hb'[v] = hb[v]
    BY <1>0, <1>4 DEF Die
  <2>2. QED
    BY <1>0, <1>4, <1>b, <2>1
<1>5. ASSUME NEW w \in Worker, FinishTask(w) \/ Load(w) \/ Hang(w) PROVE InTime'
  <2>1. /\ pc'[w] # "running" /\ UNCHANGED age
        /\ \A v \in Worker : v # w => pc'[v] = pc[v] /\ cur'[v] = cur[v] /\ hb'[v] = hb[v]
    BY <1>0, <1>5 DEF FinishTask, Load, Hang, supVars, channelVars
  <2>2. QED
    BY <1>b, <2>1
<1>6. ASSUME NEW w \in Worker, StopJoin(w) PROVE InTime'
  <2>1. UNCHANGED age /\ (Die(w) \/ UNCHANGED <<pc, cur, hb>>)
    BY <1>6 DEF StopJoin, supVars, workerVars, channelVars
  <2>2. QED
    BY <1>4, <1>b, <2>1
<1>7. CASE KillWorker
  <2>1. sup.worker \in Worker
    BY <1>0, <1>7 DEF KillWorker, SupState, Idle
  <2>2. UNCHANGED age /\ (Die(sup.worker) \/ UNCHANGED <<pc, cur, hb>>)
    BY <1>7 DEF KillWorker, workerVars, channelVars
  <2>3. QED
    BY <1>4, <1>b, <2>1, <2>2
<1>8. CASE RespawnWorker
  <2>1. sup.worker \in Worker
    BY <1>0, <1>8 DEF RespawnWorker, SupState, Idle
  <2>2. /\ pc' = [pc EXCEPT ![sup.worker] = "loading"]
        /\ age' = [age EXCEPT ![sup.worker] = 0] /\ UNCHANGED <<cur, hb>>
    BY <1>8 DEF RespawnWorker, Spawn, channelVars
  <2>3. QED
    BY <1>0, <1>b, <2>1, <2>2
<1>9. ASSUME NEW w \in Worker, Crash(w) PROVE InTime'
  BY <1>4, <1>9 DEF Crash, supVars
<1>10. ASSUME UNCHANGED <<pc, cur, hb, age>> PROVE InTime'
  BY <1>10, <1>b
<1>11. CASE UNCHANGED vars
  BY <1>10, <1>11 DEF vars, workerVars, channelVars, supVars
<1>12. ASSUME NEW w \in Worker, AcquireReaderLock(w) \/ ReadResult(w) \/ CheckWorker(w) PROVE InTime'
  BY <1>10, <1>12 DEF AcquireReaderLock, ReadResult, CheckWorker, workerVars, channelVars, supVars
<1>13. CASE Resolve \/ StopBegin \/ StopFail \/ ReaderExits \/ \E t \in Task : Submit(t)
  BY <1>10, <1>13 DEF Resolve, StopBegin, StopFail, ReaderExits, Submit, workerVars, channelVars,
                      supVars
<1>14. QED
  BY <1>1, <1>2, <1>3, <1>5, <1>6, <1>7, <1>8, <1>9, <1>11, <1>12, <1>13
     DEF Next, WorkerNext, ParentNext

\* Whatever the faults: a process is never terminated in a task that is awaited,
\* that goes on as it should and of which the start heartbeat has been read.
THEOREM AsrPoolHealthyWorkIsSpared == Spec => HealthyWorkIsSpared
<1>1. Init => PlacedInv /\ InTime
  BY PlacedInit DEF Init, InTime
<1>2. PlacedInv /\ InTime /\ [Next]_vars => (PlacedInv /\ InTime)'
  BY PlacedNext, InTimeNext
<1>3. ASSUME PlacedInv, InTime, [Next]_vars
      PROVE  [\A w \in Worker :
                /\ sup' = [at |-> "kill", worker |-> w, crashed |-> FALSE]
                /\ pc[w] = "running" /\ hb[w] = <<>>
                => cur[w] \notin pending]_sup
  <2> SUFFICES ASSUME NEW w \in Worker, sup' # sup, pc[w] = "running", hb[w] = <<>>,
                      sup' = [at |-> "kill", worker |-> w, crashed |-> FALSE],
                      cur[w] \in pending
               PROVE  FALSE
    OBVIOUS
  <2>1. sup'.at = "kill" /\ sup'.worker = w
    OBVIOUS
  <2>2. PICK v \in Worker : CheckWorker(v)
    BY <1>3, <2>1 DEF Next, WorkerNext, ParentNext, Load, AcquireReaderLock, GetTask, FinishTask,
           Crash, Hang, Submit, ReadResult, ReadHeartbeat, Tick, StopJoin, Resolve, KillWorker,
           RespawnWorker, StopBegin, StopFail, ReaderExits, Idle, vars, supVars
  <2>3. v = w
    BY <2>1, <2>2 DEF CheckWorker
  <2>4. Stalled(w)
    BY <2>2, <2>3 DEF CheckWorker, Alive
  <2>5. inFlight[w] = cur[w]
    BY <1>3, ExecutesReported
  <2>6. Allowance(w) = LongestAge(cur[w])
    BY <2>5 DEF Allowance, LongestAge
  <2>7. age[w] \in 0..2 /\ LongestAge(cur[w]) \in {1, 2} /\ age[w] < LongestAge(cur[w])
    BY <1>3 DEF InTime, PlacedInv, TypeInv, TypeOK, LongestAge
  <2>8. QED
    BY <2>4, <2>6, <2>7 DEF Stalled
<1>4. QED
  BY <1>1, <1>2, <1>3, PTL DEF Spec, HealthyWorkIsSpared

=============================================================================
