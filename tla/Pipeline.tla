------------------------------ MODULE Pipeline ------------------------------
(***************************************************************************)
(* One job store, the output directory and the orchestrator that works     *)
(* through them (orchestrator.py, db.py, package.py, cli.py run / resume / *)
(* reset): the source and download loop, one coroutine per video, per      *)
(* super-chunk and per segment, the rechunk barrier between them, and the  *)
(* program killed at any commit and started again.                         *)
(*                                                                         *)
(* A coroutine runs until it awaits, and every JobStore call commits on    *)
(* its own.  The two places where several commits follow one another       *)
(* without an await are the stages "register" and "rechunk": their owner   *)
(* holds the event loop, so no other coroutine runs between those commits, *)
(* but the program can still be killed between them.                       *)
(*                                                                         *)
(* What a stage computes is abstracted to whether it succeeds; how a video *)
(* divides into super-chunks and segments is fixed by ChunksOf and         *)
(* SegmentsOf (VAD and rechunk are deterministic for one configuration).   *)
(* Waiting for ResourceGate, AsrPool and the process pool is part of the   *)
(* stage that waits.  The download queues are in module Download.          *)
(***************************************************************************)
EXTENDS Naturals, FiniteSets

CONSTANTS
    Video,
    ChunksOf,           \* the super-chunk indices of each video
    SegmentsOf,         \* the segment indices of each video
    MaxCrashes,         \* bounds on how often the program is killed, ...
    MaxStarts,          \* ... started, ...
    MaxResets,          \* ... and reset, and on how many packaging calls raise
    MaxPackageFaults

Chunk == UNION {{<<"chunk", v, i>> : i \in ChunksOf[v]} : v \in Video}
Segment == UNION {{<<"segment", v, i>> : i \in SegmentsOf[v]} : v \in Video}
Job == Video \union Chunk \union Segment

ChunkJobs(v) == {c \in Chunk : c[2] = v}
SegmentJobs(v) == {s \in Segment : s[2] = v}
VideoOf(j) == IF j \in Video THEN j ELSE j[2]

ASSUME PipelineAssumption ==
    /\ ChunksOf \in [Video -> SUBSET Nat]
    /\ SegmentsOf \in [Video -> SUBSET Nat]
    /\ Video \intersect (Chunk \union Segment) = {}
    /\ MaxCrashes \in Nat /\ MaxStarts \in Nat /\ MaxResets \in Nat /\ MaxPackageFaults \in Nat

VARIABLES
    status,             \* the three tables of the job store: the status of each row
    audio, json,        \* the segments with a file <id>.<format>, <id>.json in output_dir
    manifest,           \* the segments the last manifest.jsonl lists
    main,               \* where run_pipeline_async is; "down" when the program is not running
    listed,             \* PENDING rows of the snapshot not yielded yet
    fetching,           \* videos yielded to the download stage and not yet answered
    diarizing,          \* videos whose diarization has not returned
    co,                 \* the stage of each row's coroutine
    command,            \* the command the program was last started with
    clean,              \* the last run reached its end
    crashes, starts, resets, packageFaults

store == <<status>>
disk == <<audio, json, manifest>>
process == <<main, listed, fetching, diarizing, co, command, clean>>
counters == <<crashes, starts, resets, packageFaults>>
vars == <<store, disk, process, counters>>

Status == {"absent", "PENDING", "RUNNING", "DONE", "FAILED"}

VideoStage == {"none", "standardize", "segment", "turns", "register"}
ChunkStage == {"none", "new", "asr", "rechunk", "finalize"}
SegmentStage == {"none", "new", "slice", "filter", "package", "commit"}

TypeOK ==
    /\ status \in [Job -> Status]
    /\ audio \subseteq Segment /\ json \subseteq Segment /\ manifest \subseteq Segment
    /\ main \in {"down", "listing", "discovering", "draining"}
    /\ listed \subseteq Video /\ fetching \subseteq Video /\ diarizing \subseteq Video
    /\ co \in [Job -> VideoStage \union ChunkStage \union SegmentStage]
    /\ \A v \in Video : co[v] \in VideoStage
    /\ \A c \in Chunk : co[c] \in ChunkStage
    /\ \A s \in Segment : co[s] \in SegmentStage
    /\ command \in {"run", "resume"}
    /\ clean \in BOOLEAN
    /\ crashes \in 0..MaxCrashes /\ starts \in 0..MaxStarts
    /\ resets \in 0..MaxResets /\ packageFaults \in 0..MaxPackageFaults

Init ==
    /\ status = [j \in Job |-> "absent"]
    /\ audio = {} /\ json = {} /\ manifest = {}
    /\ main = "down"
    /\ listed = {} /\ fetching = {} /\ diarizing = {}
    /\ co = [j \in Job |-> "none"]
    /\ command = "run"
    /\ clean = FALSE
    /\ crashes = 0 /\ starts = 0 /\ resets = 0 /\ packageFaults = 0

Up == main # "down"

\* No coroutine is between two commits that no await separates.
LoopFree == Up /\ \A j \in Job : co[j] \notin {"register", "rechunk"}

Goto(j, stage) == co' = [co EXCEPT ![j] = stage]

\* The job store: an UPDATE of one row, INSERT OR IGNORE of one row, ...
Commit(j, s) == status' = [status EXCEPT ![j] = s]
Insert(j) == status[j] = "absent" /\ Commit(j, "PENDING")

\* ... recover_stale_running and the deletion of whole videos, each in one
\* transaction over the three tables, and a query.
RecoverStaleRunning ==
    status' = [j \in Job |-> IF status[j] = "RUNNING" THEN "PENDING" ELSE status[j]]
DeleteRows(videos) ==
    status' = [j \in Job |-> IF VideoOf(j) \in videos THEN "absent" ELSE status[j]]
PendingVideos == {v \in Video : status'[v] = "PENDING"}

-----------------------------------------------------------------------------
(* The commands.  None runs beside another. *)

\* Mutants of StartProgram: resume forgets the segments table; it retries FAILED rows.
StartProgramNoSegments(cmd) ==
    /\ ~Up
    /\ starts < MaxStarts
    /\ starts' = starts + 1
    /\ command' = cmd
    /\ status' = IF cmd = "resume"
                 THEN [j \in Job |-> IF status[j] = "RUNNING" /\ j \notin Segment
                                     THEN "PENDING" ELSE status[j]]
                 ELSE status
    /\ listed' = PendingVideos
    /\ main' = "listing"
    /\ clean' = FALSE
    /\ UNCHANGED <<disk, fetching, diarizing, co, crashes, resets, packageFaults>>

StartProgramRetries(cmd) ==
    /\ ~Up
    /\ starts < MaxStarts
    /\ starts' = starts + 1
    /\ command' = cmd
    /\ status' = IF cmd = "resume"
                 THEN [j \in Job |-> IF status[j] \in {"RUNNING", "FAILED"}
                                     THEN "PENDING" ELSE status[j]]
                 ELSE status
    /\ listed' = PendingVideos
    /\ main' = "listing"
    /\ clean' = FALSE
    /\ UNCHANGED <<disk, fetching, diarizing, co, crashes, resets, packageFaults>>

\* jinpipe run; jinpipe resume resets RUNNING rows first, in one transaction.
\* The source begins with a snapshot of the PENDING rows.
StartProgram(cmd) ==
    /\ ~Up
    /\ starts < MaxStarts
    /\ starts' = starts + 1
    /\ command' = cmd
    /\ IF cmd = "resume" THEN RecoverStaleRunning ELSE UNCHANGED status
    /\ listed' = PendingVideos
    /\ main' = "listing"
    /\ clean' = FALSE
    /\ UNCHANGED <<disk, fetching, diarizing, co, crashes, resets, packageFaults>>

\* jinpipe reset [--video-id]: rows are deleted, files are not.
ResetRows(videos) ==
    /\ ~Up
    /\ \E v \in videos : status[v] # "absent"
    /\ resets < MaxResets
    /\ resets' = resets + 1
    /\ DeleteRows(videos)
    /\ UNCHANGED <<disk, process, crashes, starts, packageFaults>>

Crash ==
    /\ Up
    /\ crashes < MaxCrashes
    /\ crashes' = crashes + 1
    /\ main' = "down"
    /\ listed' = {} /\ fetching' = {} /\ diarizing' = {}
    /\ co' = [j \in Job |-> "none"]
    /\ UNCHANGED <<store, disk, command, clean, starts, resets, packageFaults>>

-----------------------------------------------------------------------------
(* The source and the download loop. *)

YieldListed(v) ==
    /\ LoopFree /\ main = "listing"
    /\ v \in listed
    /\ listed' = listed \ {v}
    /\ fetching' = fetching \union {v}
    /\ UNCHANGED <<store, disk, main, diarizing, co, command, clean, counters>>

StartDiscovery ==
    /\ LoopFree /\ main = "listing"
    /\ listed = {}
    /\ main' = "discovering"
    /\ UNCHANGED <<store, disk, listed, fetching, diarizing, co, command, clean, counters>>

\* A source names a video; whatever already has a row is skipped.
Discover(v) ==
    /\ LoopFree /\ main = "discovering"
    /\ Insert(v)
    /\ fetching' = fetching \union {v}
    /\ UNCHANGED <<disk, main, listed, diarizing, co, command, clean, counters>>

\* The sources are exhausted; channels may have failed, so videos may be missing.
EndDiscovery ==
    /\ LoopFree /\ main = "discovering"
    /\ main' = "draining"
    /\ UNCHANGED <<store, disk, listed, fetching, diarizing, co, command, clean, counters>>

DownloadDone(v) ==
    /\ LoopFree
    /\ v \in fetching
    /\ fetching' = fetching \ {v}
    /\ Commit(v, "RUNNING")
    /\ Goto(v, "standardize")
    /\ UNCHANGED <<disk, main, listed, diarizing, command, clean, counters>>

DownloadFailed(v) ==
    /\ LoopFree
    /\ v \in fetching
    /\ fetching' = fetching \ {v}
    /\ Commit(v, "FAILED")
    /\ UNCHANGED <<disk, main, listed, diarizing, co, command, clean, counters>>

Idle == listed = {} /\ fetching = {} /\ \A j \in Job : co[j] = "none"

\* Mutant of EndRun: resume does not rebuild the manifest.
EndRunKeepsManifest ==
    /\ main = "draining"
    /\ Idle
    /\ main' = "down"
    /\ diarizing' = {}
    /\ clean' = TRUE
    /\ manifest' = IF command = "run" THEN json ELSE manifest
    /\ UNCHANGED <<store, audio, json, listed, fetching, co, command, counters>>

\* write_manifest: rebuilt from the JSON files on disk.
WriteManifest == manifest' = json

\* gather over everything spawned, then the manifest.  A diarization whose video
\* has failed is not waited for; stop() ends it.
EndRun ==
    /\ main = "draining"
    /\ Idle
    /\ main' = "down"
    /\ diarizing' = {}
    /\ clean' = TRUE
    /\ WriteManifest
    /\ UNCHANGED <<store, audio, json, listed, fetching, co, command, counters>>

-----------------------------------------------------------------------------
(* _process_video_to_superchunks *)

\* VAD and the diarization of the video begin side by side.
Standardize(v) ==
    /\ LoopFree
    /\ co[v] = "standardize"
    /\ Goto(v, "segment")
    /\ diarizing' = diarizing \union {v}
    /\ UNCHANGED <<store, disk, main, listed, fetching, command, clean, counters>>

\* Mutant of SegmentVideo: the two are not gathered.
SegmentVideoAlone(v) ==
    /\ LoopFree
    /\ co[v] = "segment"
    /\ Goto(v, "register")
    /\ UNCHANGED <<store, disk, main, listed, fetching, diarizing, command, clean, counters>>

\* VAD has returned; gather waits for the other.
SegmentVideo(v) ==
    /\ LoopFree
    /\ co[v] = "segment"
    /\ Goto(v, IF v \in diarizing THEN "turns" ELSE "register")
    /\ UNCHANGED <<store, disk, main, listed, fetching, diarizing, command, clean, counters>>

\* _maybe_diarize_video has returned turns, or None.
DiarizeVideo(v) ==
    /\ LoopFree
    /\ v \in diarizing
    /\ diarizing' = diarizing \ {v}
    /\ co' = IF co[v] = "turns" THEN [co EXCEPT ![v] = "register"] ELSE co
    /\ UNCHANGED <<store, disk, main, listed, fetching, command, clean, counters>>

\* Mutant of VideoFails: the exception is logged but not stored.
VideoFailsUnreported(v) ==
    /\ LoopFree
    /\ co[v] \in {"standardize", "segment"}
    /\ Goto(v, "none")
    /\ UNCHANGED <<store, disk, main, listed, fetching, diarizing, command, clean, counters>>

\* Standardization or VAD raised.  A diarization of the video goes on.
VideoFails(v) ==
    /\ LoopFree
    /\ co[v] \in {"standardize", "segment"}
    /\ Commit(v, "FAILED")
    /\ Goto(v, "none")
    /\ UNCHANGED <<disk, main, listed, fetching, diarizing, command, clean, counters>>

\* The rows of a video are inserted in the order of their index; the row of a
\* previous attempt stays as it is.
IsNext(j, jobs) == \A k \in jobs : status[k] = "absent" => j[3] <= k[3]

AddSuperchunk(v) ==
    /\ co[v] = "register"
    /\ \E c \in ChunkJobs(v) : IsNext(c, ChunkJobs(v)) /\ Insert(c)
    /\ UNCHANGED <<disk, process, counters>>

VideoDone(v) ==
    /\ co[v] = "register"
    /\ \A c \in ChunkJobs(v) : status[c] # "absent"
    /\ Commit(v, "DONE")
    /\ co' = [j \in Job |-> IF j = v THEN "none"
                            ELSE IF j \in ChunkJobs(v) THEN "new" ELSE co[j]]
    /\ UNCHANGED <<disk, main, listed, fetching, diarizing, command, clean, counters>>

-----------------------------------------------------------------------------
(* _process_superchunk_asr and _rechunk_and_finalize *)

StartChunk(c) ==
    /\ LoopFree
    /\ co[c] = "new"
    /\ Commit(c, "RUNNING")
    /\ Goto(c, "asr")
    /\ UNCHANGED <<disk, main, listed, fetching, diarizing, command, clean, counters>>

\* Mutant of ChunkFails: no return after the row is FAILED.
ChunkFailsNoReturn(c) ==
    /\ LoopFree
    /\ co[c] = "asr"
    /\ Commit(c, "FAILED")
    /\ UNCHANGED <<disk, process, counters>>

\* Slicing raised, the ASR pool raised, or the result is an error.
ChunkFails(c) ==
    /\ LoopFree
    /\ co[c] = "asr"
    /\ Commit(c, "FAILED")
    /\ Goto(c, "none")
    /\ UNCHANGED <<disk, main, listed, fetching, diarizing, command, clean, counters>>

\* Mutants of SuperchunksAllDone: FAILED counts as finished; any row will do.
SuperchunksNoneLeft(v) ==
    /\ \E c \in ChunkJobs(v) : status'[c] # "absent"
    /\ \A c \in ChunkJobs(v) : status'[c] \in {"absent", "DONE", "FAILED"}
SuperchunksAnyDone(v) == \E c \in ChunkJobs(v) : status'[c] = "DONE"

SuperchunksAllDone(v) ==
    /\ \E c \in ChunkJobs(v) : status'[c] # "absent"
    /\ \A c \in ChunkJobs(v) : status'[c] \in {"absent", "DONE"}

\* The words are committed and, before any await, all rows of the video are
\* looked at: whoever finds them all DONE goes on to rechunk.
ChunkDone(c) ==
    /\ LoopFree
    /\ co[c] = "asr"
    /\ Commit(c, "DONE")
    /\ Goto(c, IF SuperchunksAllDone(VideoOf(c)) THEN "rechunk" ELSE "none")
    /\ UNCHANGED <<disk, main, listed, fetching, diarizing, command, clean, counters>>

AddSegment(c) ==
    /\ co[c] = "rechunk"
    /\ \E s \in SegmentJobs(VideoOf(c)) :
         IsNext(s, SegmentJobs(VideoOf(c))) /\ Insert(s)
    /\ UNCHANGED <<disk, process, counters>>

SpawnSegments(c) ==
    /\ co[c] = "rechunk"
    /\ \A s \in SegmentJobs(VideoOf(c)) : status[s] # "absent"
    /\ co' = [j \in Job |-> IF j = c THEN "finalize"
                            ELSE IF j \in SegmentJobs(VideoOf(c)) THEN "new" ELSE co[j]]
    /\ UNCHANGED <<store, disk, main, listed, fetching, diarizing, command, clean, counters>>

\* Mutant of ChunkReturns: it waits for every segment to be DONE.
ChunkReturnsWhenDone(c) ==
    /\ LoopFree
    /\ co[c] = "finalize"
    /\ \A s \in SegmentJobs(VideoOf(c)) : status[s] = "DONE" /\ co[s] = "none"
    /\ Goto(c, "none")
    /\ UNCHANGED <<store, disk, main, listed, fetching, diarizing, command, clean, counters>>

\* gather over the segments returns, with or without exceptions.
ChunkReturns(c) ==
    /\ LoopFree
    /\ co[c] = "finalize"
    /\ \A s \in SegmentJobs(VideoOf(c)) : co[s] = "none"
    /\ Goto(c, "none")
    /\ UNCHANGED <<store, disk, main, listed, fetching, diarizing, command, clean, counters>>

-----------------------------------------------------------------------------
(* _finalize_segment *)

\* Mutant of StartSegment: the stage of a super-chunk.
StartSegmentAsChunk(s) ==
    /\ LoopFree
    /\ co[s] = "new"
    /\ Commit(s, "RUNNING")
    /\ Goto(s, "asr")
    /\ UNCHANGED <<disk, main, listed, fetching, diarizing, command, clean, counters>>

StartSegment(s) ==
    /\ LoopFree
    /\ co[s] = "new"
    /\ Commit(s, "RUNNING")
    /\ Goto(s, "slice")
    /\ UNCHANGED <<disk, main, listed, fetching, diarizing, command, clean, counters>>

\* slice_segment_audio: the finished slice is renamed into place.
SliceAudio(s) == audio' = audio \union {s}

\* A process of the pool slices the segment.
Slice(s) ==
    /\ LoopFree
    /\ co[s] = "slice"
    /\ SliceAudio(s)
    /\ Goto(s, "filter")
    /\ UNCHANGED <<store, json, manifest, main, listed, fetching, diarizing, command, clean, counters>>

\* Slicing or filtering raised: the slice, if there is one, stays.
SegmentFails(s) ==
    /\ LoopFree
    /\ co[s] \in {"slice", "filter"}
    /\ Commit(s, "FAILED")
    /\ Goto(s, "none")
    /\ UNCHANGED <<disk, main, listed, fetching, diarizing, command, clean, counters>>

\* Mutant of FilterPasses: DONE is committed before packaging.
FilterPassesCommits(s) ==
    /\ LoopFree
    /\ co[s] = "filter"
    /\ Commit(s, "DONE")
    /\ Goto(s, "package")
    /\ UNCHANGED <<disk, main, listed, fetching, diarizing, command, clean, counters>>

FilterPasses(s) ==
    /\ LoopFree
    /\ co[s] = "filter"
    /\ Goto(s, "package")
    /\ UNCHANGED <<store, disk, main, listed, fetching, diarizing, command, clean, counters>>

FilterRejects(s) ==
    /\ LoopFree
    /\ co[s] = "filter"
    /\ audio' = audio \ {s}
    /\ Commit(s, "FAILED")
    /\ Goto(s, "none")
    /\ UNCHANGED <<json, manifest, main, listed, fetching, diarizing, command, clean, counters>>

\* package_segment: the slice if it is missing, then the JSON by rename.
Package(s) ==
    /\ LoopFree
    /\ co[s] = "package"
    /\ IF s \in audio THEN UNCHANGED audio ELSE SliceAudio(s)
    /\ json' = json \union {s}
    /\ Goto(s, "commit")
    /\ UNCHANGED <<store, manifest, main, listed, fetching, diarizing, command, clean, counters>>

\* It raised: no handler, and gather swallows the exception.
PackageRaises(s) ==
    /\ LoopFree
    /\ co[s] = "package"
    /\ packageFaults < MaxPackageFaults
    /\ packageFaults' = packageFaults + 1
    /\ Goto(s, "none")
    /\ UNCHANGED <<store, disk, main, listed, fetching, diarizing, command, clean, crashes, starts, resets>>

SegmentDone(s) ==
    /\ LoopFree
    /\ co[s] = "commit"
    /\ Commit(s, "DONE")
    /\ Goto(s, "none")
    /\ UNCHANGED <<disk, main, listed, fetching, diarizing, command, clean, counters>>

-----------------------------------------------------------------------------

SourceNext(v) ==
    YieldListed(v) \/ Discover(v) \/ DownloadDone(v) \/ DownloadFailed(v)

VideoNext(v) ==
    \/ Standardize(v) \/ SegmentVideo(v) \/ DiarizeVideo(v) \/ VideoFails(v)
    \/ AddSuperchunk(v) \/ VideoDone(v)

ChunkNext(c) ==
    \/ StartChunk(c) \/ ChunkFails(c) \/ ChunkDone(c)
    \/ AddSegment(c) \/ SpawnSegments(c) \/ ChunkReturns(c)

SegmentNext(s) ==
    \/ StartSegment(s) \/ Slice(s) \/ SegmentFails(s) \/ FilterPasses(s) \/ FilterRejects(s)
    \/ Package(s) \/ PackageRaises(s) \/ SegmentDone(s)

Operator ==
    \/ \E cmd \in {"run", "resume"} : StartProgram(cmd)
    \/ \E v \in Video : ResetRows({v})
    \/ ResetRows(Video)

Next ==
    \/ Operator \/ Crash
    \/ \E v \in Video : SourceNext(v) \/ VideoNext(v)
    \/ \E c \in Chunk : ChunkNext(c)
    \/ \E s \in Segment : SegmentNext(s)
    \/ StartDiscovery \/ EndDiscovery \/ EndRun

\* A running program keeps running: every source, subprocess, model call and
\* admission it waits for eventually returns.  Commands and crashes are free.
Fairness ==
    /\ \A v \in Video :
         /\ WF_vars(YieldListed(v)) /\ WF_vars(DownloadDone(v) \/ DownloadFailed(v))
         /\ WF_vars(VideoNext(v)) /\ WF_vars(DiarizeVideo(v))
    /\ \A c \in Chunk : WF_vars(ChunkNext(c))
    /\ \A s \in Segment : WF_vars(SegmentNext(s))
    /\ WF_vars(StartDiscovery) /\ WF_vars(EndDiscovery) /\ WF_vars(EndRun)

Spec == Init /\ [][Next]_vars
FairSpec == Spec /\ Fairness

-----------------------------------------------------------------------------
(* Properties *)

\* Rechunking is the one synchronization point: a segment row exists only
\* when every super-chunk of its video, and not just those that were left
\* over after a crash, has been transcribed.
RechunkBarrier ==
    \A s \in Segment : status[s] # "absent" =>
        \A c \in ChunkJobs(VideoOf(s)) : status[c] = "DONE"

\* The chunk that finishes last, and no other, rechunks its video.
RechunkedOnce ==
    \A c, d \in Chunk :
        /\ co[c] \in {"rechunk", "finalize"} /\ co[d] \in {"rechunk", "finalize"}
        /\ VideoOf(c) = VideoOf(d)
        => c = d

\* After a resume every RUNNING row is some live coroutine's, so that nothing
\* is RUNNING once the run has ended, but for segments whose packaging raised:
\* those are sliced and have nobody left.
RunningIsOwned ==
    command = "resume" /\ (Up \/ clean) =>
        \A j \in Job : status[j] = "RUNNING" /\ co[j] = "none" =>
            packageFaults > 0 /\ j \in Segment /\ j \in audio

\* A coroutine never works on a row that is settled, or not there.
CoroutinesOwnTheirRows ==
    \A j \in Job : co[j] # "none" /\ co[j] # "finalize" /\ co[j] # "rechunk" =>
        status[j] = IF co[j] = "new" THEN "PENDING" ELSE "RUNNING"

\* A DONE segment is on disk, audio and metadata, whatever was killed or reset.
DoneIsPackaged == \A s \in Segment : status[s] = "DONE" => s \in audio /\ s \in json

\* A run that ends lists every DONE segment in its manifest.
ManifestListsDone == clean => \A s \in Segment : status[s] = "DONE" => s \in manifest

\* Every PENDING row found at the start is settled by the run, or the program
\* was killed on the way.
PendingIsSettled ==
    \A v \in Video :
        (main = "listing" /\ v \in listed)
            ~> (status[v] \in {"DONE", "FAILED"} \/ (~Up /\ ~clean))

\* A run comes to its end.
RunEnds == Up ~> ~Up

\* README 172-174: everything is resumable.  When a resume has run to its end
\* nothing that belongs to a finished video is still waiting to be worked on.
ResumeFinishesTheWork ==
    clean /\ command = "resume" =>
        \A j \in Chunk \union Segment :
            status[VideoOf(j)] = "DONE" => status[j] \notin {"PENDING", "RUNNING"}

\* orchestrator.py 222-227: no super-chunk is transcribed before the diarization of
\* its whole video has returned, and a diarization that is left behind belongs to a
\* video that has failed.
DiarizedFirst ==
    \A v \in diarizing :
        /\ status[v] = IF co[v] = "none" THEN "FAILED" ELSE "RUNNING"
        /\ \A c \in ChunkJobs(v) : co[c] = "none"

\* Refinement: the rows of the three tables are the ledger's jobs.
Needs == [j \in Job |->
    IF j \in Video THEN {} ELSE IF j \in Chunk THEN {VideoOf(j)} ELSE ChunkJobs(VideoOf(j))]

Ledger == INSTANCE JobLedger
ImplementsLedger == Ledger!Spec

=============================================================================
