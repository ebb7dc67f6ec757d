------------------------------ MODULE Download ------------------------------
(***************************************************************************)
(* The front of the pipeline (download.py download_all, the loop of        *)
(* run_pipeline_async that consumes it, and the ad-hoc part of discover.py *)
(* that feeds it): a feeder coroutine, a bounded work queue, a fixed pool  *)
(* of download workers, an unbounded result queue, the sentinels that end  *)
(* it all, and the coroutines spawned for what was downloaded.             *)
(*                                                                         *)
(* What is downloaded, and the retries inside yt-dlp, are left out; the    *)
(* order of the two queues is kept.  Videos are yielded in any order.      *)
(***************************************************************************)
EXTENDS Naturals, FiniteSets, Sequences, SequencesExt

CONSTANTS
    Video,          \* what the source may yield
    Worker,         \* max(1, max_concurrency) download workers
    QueueMax,       \* queue_maxsize of the work queue
    Sentinel,
    NoVideo,
    SourceRaises    \* whether the source may raise (a video_urls entry without an id)

ASSUME DownloadAssumption ==
    /\ IsFiniteSet(Worker) /\ Worker # {}
    /\ QueueMax \in Nat \ {0}
    /\ Sentinel \notin Video /\ NoVideo \notin Video
    /\ SourceRaises \in BOOLEAN

VARIABLES
    unseen,         \* videos the source has not yielded
    feeder,         \* where the feeder is: yielding, then sentinels, then done
    sentinels,      \* sentinels the feeder has still to put
    workQ, resultQ,
    busy,           \* the video each worker downloads
    gone,           \* workers that have left their loop
    stream,         \* the consumer's async for: open or ended
    answered,       \* how often each video was handed to the consumer
    raw             \* downloaded videos whose coroutine has not ended

vars == <<unseen, feeder, sentinels, workQ, resultQ, busy, gone, stream, answered, raw>>

Outcome == [video : Video, ok : BOOLEAN]

TypeOK ==
    /\ unseen \subseteq Video
    /\ feeder \in {"yielding", "closing", "done", "raised"}
    /\ sentinels \in 0..Cardinality(Worker)
    /\ workQ \in Seq(Video \union {Sentinel})
    /\ resultQ \in Seq(Outcome \union {Sentinel})
    /\ busy \in [Worker -> Video \union {NoVideo}]
    /\ gone \subseteq Worker
    /\ stream \in {"open", "ended"}
    /\ answered \in [Video -> Nat]
    /\ raw \subseteq Video

Init ==
    /\ unseen = Video
    /\ feeder = "yielding"
    /\ sentinels = 0
    /\ workQ = <<>> /\ resultQ = <<>>
    /\ busy = [w \in Worker |-> NoVideo]
    /\ gone = {}
    /\ stream = "open"
    /\ answered = [v \in Video |-> 0]
    /\ raw = {}

Full == Len(workQ) >= QueueMax

\* feeder: await work_queue.put(item).
PutItem(v) ==
    /\ feeder = "yielding"
    /\ ~Full
    /\ unseen' = unseen \ {v}
    /\ workQ' = Append(workQ, v)
    /\ UNCHANGED <<feeder, sentinels, resultQ, busy, gone, stream, answered, raw>>

\* The source yields one item that it has not yielded before.
FeederPut(v) ==
    /\ v \in unseen
    /\ PutItem(v)

\* The source is exhausted, whatever it left out (a channel may have failed).
FeederEnds ==
    /\ feeder = "yielding"
    /\ feeder' = "closing"
    /\ sentinels' = Cardinality(Worker)
    /\ UNCHANGED <<unseen, workQ, resultQ, busy, gone, stream, answered, raw>>

FeederRaises ==
    /\ SourceRaises
    /\ feeder = "yielding"
    /\ feeder' = "raised"
    /\ UNCHANGED <<unseen, sentinels, workQ, resultQ, busy, gone, stream, answered, raw>>

FeederPutsSentinel ==
    /\ feeder = "closing"
    /\ ~Full
    /\ workQ' = Append(workQ, Sentinel)
    /\ sentinels' = sentinels - 1
    /\ feeder' = IF sentinels = 1 THEN "done" ELSE feeder
    /\ UNCHANGED <<unseen, resultQ, busy, gone, stream, answered, raw>>

\* worker: get an item; a sentinel ends the worker.
WorkerGets(w) ==
    /\ w \notin gone
    /\ busy[w] = NoVideo
    /\ workQ # <<>>
    /\ workQ' = Tail(workQ)
    /\ \/ /\ Head(workQ) = Sentinel
          /\ gone' = gone \union {w}
          /\ UNCHANGED busy
       \/ /\ Head(workQ) # Sentinel
          /\ busy' = [busy EXCEPT ![w] = Head(workQ)]
          /\ UNCHANGED gone
    /\ UNCHANGED <<unseen, feeder, sentinels, resultQ, stream, answered, raw>>

\* download_audio returned a result, or raised.
DownloadOutcome(v) == [video : {v}, ok : BOOLEAN]

\* The download returned or raised: a result either way.
WorkerReports(w) ==
    /\ busy[w] # NoVideo
    /\ \E result \in DownloadOutcome(busy[w]) : resultQ' = Append(resultQ, result)
    /\ busy' = [busy EXCEPT ![w] = NoVideo]
    /\ UNCHANGED <<unseen, feeder, sentinels, workQ, gone, stream, answered, raw>>

\* closer: feeder_task, then every worker, then the sentinel; once.
Closer ==
    /\ feeder = "done"
    /\ gone = Worker
    /\ ~Contains(resultQ, Sentinel) /\ stream = "open"
    /\ resultQ' = Append(resultQ, Sentinel)
    /\ UNCHANGED <<unseen, feeder, sentinels, workQ, busy, gone, stream, answered, raw>>

\* The consumer's next iteration.  A downloaded video gets a coroutine of its
\* own, without limit; the sentinel ends the loop.
Consume ==
    /\ stream = "open"
    /\ resultQ # <<>>
    /\ resultQ' = Tail(resultQ)
    /\ IF Head(resultQ) = Sentinel
       THEN stream' = "ended" /\ UNCHANGED <<answered, raw>>
       ELSE LET result == Head(resultQ) IN
            /\ answered' = [answered EXCEPT ![result.video] = @ + 1]
            /\ raw' = IF result.ok THEN raw \union {result.video} ELSE raw
            /\ UNCHANGED stream
    /\ UNCHANGED <<unseen, feeder, sentinels, workQ, busy, gone>>

\* A video's coroutine ends: standardize to packaging are behind it.
Process(v) ==
    /\ v \in raw
    /\ raw' = raw \ {v}
    /\ UNCHANGED <<unseen, feeder, sentinels, workQ, resultQ, busy, gone, stream, answered>>

Next ==
    \/ \E v \in Video : FeederPut(v) \/ Process(v)
    \/ FeederEnds \/ FeederRaises \/ FeederPutsSentinel
    \/ \E w \in Worker : WorkerGets(w) \/ WorkerReports(w)
    \/ Closer \/ Consume

\* Every coroutine that can go on does; every download ends (timeout_s); the
\* source ends one way or the other.
Fairness ==
    /\ WF_vars(\/ FeederEnds
               \/ FeederRaises
               \/ \E v \in Video : FeederPut(v))
    /\ WF_vars(FeederPutsSentinel)
    /\ \A w \in Worker : WF_vars(WorkerGets(w)) /\ WF_vars(WorkerReports(w))
    /\ WF_vars(Closer) /\ WF_vars(Consume)

Spec == Init /\ [][Next]_vars
FairSpec == Spec /\ Fairness

-----------------------------------------------------------------------------
(* Properties *)

\* Where a yielded video is, counted: it is never lost and never doubled.
Places(v) ==
    Cardinality({i \in DOMAIN workQ : workQ[i] = v})
    + Cardinality({w \in Worker : busy[w] = v})
    + Cardinality({i \in DOMAIN resultQ : resultQ[i] # Sentinel /\ resultQ[i].video = v})
    + answered[v]

\* The consumer's loop ends, unless the source raised: no full queue, no download
\* that is still running and no missing sentinel stops it.
StreamEndsUnlessRaised == <>(stream = "ended" \/ feeder = "raised")

\* download.py 124-128, 152: the loop over download_all ends, and errors are
\* reported through it.
StreamEnds == <>(stream = "ended")

=============================================================================
