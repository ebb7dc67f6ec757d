-------------------------- MODULE PipelineProofs --------------------------
(***************************************************************************)
(* Theorems about Pipeline, for every set of videos and every division of  *)
(* them into super-chunks and segments: type correctness, the rechunk      *)
(* barrier, whose inductive strengthening says who may hold which row, and *)
(* what the end of a run leaves behind.                                    *)
(***************************************************************************)
EXTENDS Pipeline, TLAPS

-----------------------------------------------------------------------------
(* The inductive invariant of the barrier. *)

\* Nothing runs while the program is down.
DownIsEmpty == ~Up => listed = {} /\ fetching = {} /\ co = [j \in Job |-> "none"]

\* A video that waits for its download is PENDING and has no coroutine.
FetchedOnce ==
    /\ listed \intersect fetching = {}
    /\ \A v \in listed \union fetching : status[v] = "PENDING" /\ co[v] = "none"

VideoRows == \A v \in Video : co[v] # "none" => status[v] = "RUNNING"

ChunkRows ==
    \A c \in Chunk :
        /\ co[c] = "new" => status[c] = "PENDING"
        /\ co[c] = "asr" => status[c] = "RUNNING"

SegmentRows == \A s \in Segment : co[s] # "none" => status[s] # "absent"

\* The coroutines of super-chunks are spawned when the video is DONE and every
\* row of it exists.
ChunksRegistered ==
    \A c \in Chunk : co[c] # "none" =>
        /\ status[VideoOf(c)] = "DONE"
        /\ \A d \in ChunkJobs(VideoOf(c)) : status[d] # "absent"

\* No super-chunk of an unfinished video was ever started.
StartedAfterVideo ==
    \A c \in Chunk : status[c] \in {"RUNNING", "DONE", "FAILED"} => status[VideoOf(c)] = "DONE"

RechunkAllDone ==
    \A c \in Chunk : co[c] = "rechunk" => \A d \in ChunkJobs(VideoOf(c)) : status[d] = "DONE"

BarrierInv ==
    /\ TypeOK
    /\ DownIsEmpty
    /\ FetchedOnce
    /\ VideoRows
    /\ ChunkRows
    /\ SegmentRows
    /\ ChunksRegistered
    /\ StartedAfterVideo
    /\ RechunkAllDone
    /\ RechunkBarrier



-----------------------------------------------------------------------------
(* The jobs: three disjoint tables, each row of one video. *)

LEMMA JobFacts ==
    /\ \A v \in Video : v \in Job /\ v \notin Chunk /\ v \notin Segment /\ VideoOf(v) = v
    /\ \A c \in Chunk : c \in Job /\ c \notin Video /\ c \notin Segment
                        /\ VideoOf(c) \in Video /\ c \in ChunkJobs(VideoOf(c))
    /\ \A s \in Segment : s \in Job /\ s \notin Video /\ s \notin Chunk
                        /\ VideoOf(s) \in Video /\ s \in SegmentJobs(VideoOf(s))
    /\ \A v \in Video : \A c \in ChunkJobs(v) : c \in Chunk /\ VideoOf(c) = v
    /\ \A v \in Video : \A s \in SegmentJobs(v) : s \in Segment /\ VideoOf(s) = v
    /\ \A j \in Job : j \in Video \/ j \in Chunk \/ j \in Segment
  BY PipelineAssumption DEF PipelineAssumption, Job, Chunk, Segment, ChunkJobs, SegmentJobs, VideoOf

-----------------------------------------------------------------------------
(* Type correctness. *)

LEMMA Bounds ==
    MaxCrashes \in Nat /\ MaxStarts \in Nat /\ MaxResets \in Nat /\ MaxPackageFaults \in Nat
  BY PipelineAssumption DEF PipelineAssumption

LEMMA TypeInit == Init => TypeOK
<1> SUFFICES ASSUME Init PROVE TypeOK
  OBVIOUS
<1> USE DEF Init, Status, VideoStage, ChunkStage, SegmentStage
<1>1. status \in [Job -> Status] /\ co \in [Job -> VideoStage \union ChunkStage \union SegmentStage]
  OBVIOUS
<1>2. /\ \A v \in Video : co[v] \in VideoStage
      /\ \A c \in Chunk : co[c] \in ChunkStage
      /\ \A s \in Segment : co[s] \in SegmentStage
  BY JobFacts
<1>3. /\ crashes \in 0..MaxCrashes /\ starts \in 0..MaxStarts
      /\ resets \in 0..MaxResets /\ packageFaults \in 0..MaxPackageFaults
  BY Bounds
<1>4. QED
  BY <1>1, <1>2, <1>3 DEF TypeOK

LEMMA TypeNext == TypeOK /\ [Next]_vars => TypeOK'
<1> SUFFICES ASSUME TypeOK, [Next]_vars PROVE TypeOK'
  OBVIOUS
<1> USE JobFacts, Bounds DEF TypeOK, Status, VideoStage, ChunkStage, SegmentStage,
        vars, store, disk, process, counters, Commit, Insert, Goto, LoopFree, Up
<1>1. ASSUME NEW cmd \in {"run", "resume"}, StartProgram(cmd) PROVE TypeOK'
  <2>1. status' \in [Job -> Status]
    BY <1>1 DEF StartProgram, RecoverStaleRunning, PendingVideos
  <2>2. starts' \in 0..MaxStarts
    BY <1>1 DEF StartProgram, RecoverStaleRunning, PendingVideos
  <2>3. listed' \subseteq Video /\ command' \in {"run", "resume"}
    BY <1>1 DEF StartProgram, RecoverStaleRunning, PendingVideos
  <2>4. QED
    BY <1>1, <2>1, <2>2, <2>3 DEF StartProgram, RecoverStaleRunning, PendingVideos
<1>2. ASSUME NEW videos \in SUBSET Video, ResetRows(videos) PROVE TypeOK'
  <2>1. status' \in [Job -> Status]
    BY <1>2 DEF ResetRows, DeleteRows
  <2>2. resets' \in 0..MaxResets
    BY <1>2 DEF ResetRows, DeleteRows
  <2>3. QED
    BY <1>2, <2>1, <2>2 DEF ResetRows, DeleteRows
<1>3. CASE Crash
  BY <1>3 DEF Crash
<1>4. ASSUME NEW v \in Video, YieldListed(v) PROVE TypeOK'
  BY <1>4 DEF YieldListed
<1>5. ASSUME NEW v \in Video, Discover(v) PROVE TypeOK'
  BY <1>5 DEF Discover
<1>6. ASSUME NEW v \in Video, DownloadDone(v) PROVE TypeOK'
  BY <1>6 DEF DownloadDone
<1>7. ASSUME NEW v \in Video, DownloadFailed(v) PROVE TypeOK'
  BY <1>7 DEF DownloadFailed
<1>8. ASSUME NEW v \in Video, Standardize(v) PROVE TypeOK'
  BY <1>8 DEF Standardize
<1>9. ASSUME NEW v \in Video, SegmentVideo(v) PROVE TypeOK'
  BY <1>9 DEF SegmentVideo
<1>33. ASSUME NEW v \in Video, DiarizeVideo(v) PROVE TypeOK'
  BY <1>33 DEF DiarizeVideo
<1>10. ASSUME NEW v \in Video, VideoFails(v) PROVE TypeOK'
  BY <1>10 DEF VideoFails
<1>11. ASSUME NEW v \in Video, AddSuperchunk(v) PROVE TypeOK'
  BY <1>11 DEF AddSuperchunk
<1>12. ASSUME NEW v \in Video, VideoDone(v) PROVE TypeOK'
  BY <1>12 DEF VideoDone
<1>13. ASSUME NEW c \in Chunk, StartChunk(c) PROVE TypeOK'
  BY <1>13 DEF StartChunk
<1>14. ASSUME NEW c \in Chunk, ChunkFails(c) PROVE TypeOK'
  BY <1>14 DEF ChunkFails
<1>15. ASSUME NEW c \in Chunk, ChunkDone(c) PROVE TypeOK'
  BY <1>15 DEF ChunkDone
<1>16. ASSUME NEW c \in Chunk, AddSegment(c) PROVE TypeOK'
  BY <1>16 DEF AddSegment
<1>17. ASSUME NEW c \in Chunk, SpawnSegments(c) PROVE TypeOK'
  BY <1>17 DEF SpawnSegments
<1>18. ASSUME NEW c \in Chunk, ChunkReturns(c) PROVE TypeOK'
  BY <1>18 DEF ChunkReturns
<1>19. ASSUME NEW s \in Segment, StartSegment(s) PROVE TypeOK'
  BY <1>19 DEF StartSegment
<1>20. ASSUME NEW s \in Segment, Slice(s) PROVE TypeOK'
  BY <1>20 DEF Slice, SliceAudio
<1>21. ASSUME NEW s \in Segment, SegmentFails(s) PROVE TypeOK'
  BY <1>21 DEF SegmentFails
<1>22. ASSUME NEW s \in Segment, FilterPasses(s) PROVE TypeOK'
  BY <1>22 DEF FilterPasses
<1>23. ASSUME NEW s \in Segment, FilterRejects(s) PROVE TypeOK'
  BY <1>23 DEF FilterRejects
<1>24. ASSUME NEW s \in Segment, Package(s) PROVE TypeOK'
  BY <1>24 DEF Package, SliceAudio
<1>25. ASSUME NEW s \in Segment, PackageRaises(s) PROVE TypeOK'
  BY <1>25 DEF PackageRaises
<1>26. ASSUME NEW s \in Segment, SegmentDone(s) PROVE TypeOK'
  BY <1>26 DEF SegmentDone
<1>27. CASE StartDiscovery
  BY <1>27 DEF StartDiscovery
<1>28. CASE EndDiscovery
  BY <1>28 DEF EndDiscovery
<1>29. CASE EndRun
  BY <1>29 DEF EndRun, Idle, WriteManifest
<1>30. CASE UNCHANGED vars
  BY <1>30
<1>31. Video \in SUBSET Video /\ \A v \in Video : {v} \in SUBSET Video
  OBVIOUS
<1> HIDE DEF TypeOK, Status, VideoStage, ChunkStage, SegmentStage,
        vars, store, disk, process, counters, Commit, Insert, Goto, LoopFree, Up
<1>32. QED
  BY <1>1, <1>2, <1>3, <1>4, <1>5, <1>6, <1>7, <1>8, <1>9, <1>10,
     <1>11, <1>12, <1>13, <1>14, <1>15, <1>16, <1>17, <1>18, <1>19, <1>20,
     <1>21, <1>22, <1>23, <1>24, <1>25, <1>26, <1>27, <1>28, <1>29, <1>30,
     <1>31, <1>33
    DEF Next, Operator, SourceNext, VideoNext, ChunkNext, SegmentNext

\* Every variable stays in its type: no step of the model leaves it.
THEOREM PipelineTypeOK == Spec => []TypeOK
  BY TypeInit, TypeNext, PTL DEF Spec

-----------------------------------------------------------------------------
(* The rechunk barrier. *)

LEMMA BarrierInit == Init => BarrierInv
<1> SUFFICES ASSUME Init PROVE BarrierInv
  OBVIOUS
<1>1. TypeOK
  BY TypeInit
<1>2. QED
  BY <1>1, JobFacts DEF Init, BarrierInv, DownIsEmpty, FetchedOnce, VideoRows, ChunkRows,
     ChunksRegistered, StartedAfterVideo, RechunkAllDone, RechunkBarrier, SegmentRows, Up

LEMMA BarrierNext == BarrierInv /\ [Next]_vars => BarrierInv'
<1> SUFFICES ASSUME BarrierInv, [Next]_vars PROVE BarrierInv'
  OBVIOUS
<1>0. /\ TypeOK'
      /\ status \in [Job -> Status]
      /\ co \in [Job -> VideoStage \union ChunkStage \union SegmentStage]
      /\ listed \subseteq Video /\ fetching \subseteq Video
  BY TypeNext DEF BarrierInv, TypeOK
<1> USE <1>0, JobFacts DEF store, disk, process, counters, Commit, Insert, Goto, LoopFree, Up,
        BarrierInv, DownIsEmpty, FetchedOnce, VideoRows, ChunkRows, SegmentRows,
        ChunksRegistered, StartedAfterVideo, RechunkAllDone, RechunkBarrier
<1>1. ASSUME NEW cmd \in {"run", "resume"}, StartProgram(cmd) PROVE BarrierInv'
  BY <1>1 DEF StartProgram, RecoverStaleRunning, PendingVideos
<1>2. ASSUME NEW videos \in SUBSET Video, ResetRows(videos) PROVE BarrierInv'
  <2>1. \A j \in Job : co'[j] = "none"
    BY <1>2 DEF ResetRows, DeleteRows
  <2>2. QED
    BY <1>2, <2>1 DEF ResetRows, DeleteRows
<1>3. CASE Crash
  BY <1>3 DEF Crash
<1>4. ASSUME NEW v \in Video, YieldListed(v) PROVE BarrierInv'
  BY <1>4 DEF YieldListed
<1>5. ASSUME NEW v \in Video, Discover(v) PROVE BarrierInv'
  BY <1>5 DEF Discover
<1>6. ASSUME NEW v \in Video, DownloadDone(v) PROVE BarrierInv'
  BY <1>6 DEF DownloadDone
<1>7. ASSUME NEW v \in Video, DownloadFailed(v) PROVE BarrierInv'
  BY <1>7 DEF DownloadFailed
<1>8. ASSUME NEW v \in Video, Standardize(v) PROVE BarrierInv'
  BY <1>8 DEF Standardize
<1>9. ASSUME NEW v \in Video, SegmentVideo(v) PROVE BarrierInv'
  BY <1>9 DEF SegmentVideo
<1>33. ASSUME NEW v \in Video, DiarizeVideo(v) PROVE BarrierInv'
  BY <1>33 DEF DiarizeVideo
<1>10. ASSUME NEW v \in Video, VideoFails(v) PROVE BarrierInv'
  BY <1>10 DEF VideoFails
<1>11. ASSUME NEW v \in Video, AddSuperchunk(v) PROVE BarrierInv'
  BY <1>11 DEF AddSuperchunk, IsNext
<1>12. ASSUME NEW v \in Video, VideoDone(v) PROVE BarrierInv'
  <2>1. status[v] = "RUNNING"
    BY <1>12 DEF VideoDone
  <2>2. \A c \in ChunkJobs(v) : status[c] = "PENDING"
    BY <1>12, <2>1 DEF VideoDone, Status
  <2>3. QED
    BY <1>12, <2>1, <2>2 DEF VideoDone
<1>13. ASSUME NEW c \in Chunk, StartChunk(c) PROVE BarrierInv'
  BY <1>13 DEF StartChunk
<1>14. ASSUME NEW c \in Chunk, ChunkFails(c) PROVE BarrierInv'
  BY <1>14 DEF ChunkFails
<1>15. ASSUME NEW c \in Chunk, ChunkDone(c) PROVE BarrierInv'
  <2>1. co'[c] = "rechunk" => \A d \in ChunkJobs(VideoOf(c)) : status'[d] = "DONE"
    BY <1>15 DEF ChunkDone, SuperchunksAllDone
  <2>2. QED
    BY <1>15, <2>1 DEF ChunkDone
<1>16. ASSUME NEW c \in Chunk, AddSegment(c) PROVE BarrierInv'
  <2>1. \A d \in ChunkJobs(VideoOf(c)) : status[d] = "DONE"
    BY <1>16 DEF AddSegment
  <2>2. QED
    BY <1>16, <2>1 DEF AddSegment, IsNext
<1>17. ASSUME NEW c \in Chunk, SpawnSegments(c) PROVE BarrierInv'
  BY <1>17 DEF SpawnSegments
<1>18. ASSUME NEW c \in Chunk, ChunkReturns(c) PROVE BarrierInv'
  BY <1>18 DEF ChunkReturns
<1>19. ASSUME NEW s \in Segment, StartSegment(s) PROVE BarrierInv'
  BY <1>19 DEF StartSegment
<1>20. ASSUME NEW s \in Segment, Slice(s) PROVE BarrierInv'
  BY <1>20 DEF Slice, SliceAudio
<1>21. ASSUME NEW s \in Segment, SegmentFails(s) PROVE BarrierInv'
  BY <1>21 DEF SegmentFails
<1>22. ASSUME NEW s \in Segment, FilterPasses(s) PROVE BarrierInv'
  BY <1>22 DEF FilterPasses
<1>23. ASSUME NEW s \in Segment, FilterRejects(s) PROVE BarrierInv'
  BY <1>23 DEF FilterRejects
<1>24. ASSUME NEW s \in Segment, Package(s) PROVE BarrierInv'
  BY <1>24 DEF Package, SliceAudio
<1>25. ASSUME NEW s \in Segment, PackageRaises(s) PROVE BarrierInv'
  BY <1>25 DEF PackageRaises
<1>26. ASSUME NEW s \in Segment, SegmentDone(s) PROVE BarrierInv'
  BY <1>26 DEF SegmentDone
<1>27. CASE StartDiscovery
  BY <1>27 DEF StartDiscovery
<1>28. CASE EndDiscovery
  BY <1>28 DEF EndDiscovery
<1>29. CASE EndRun
  BY <1>29 DEF EndRun, Idle, WriteManifest
<1>30. CASE UNCHANGED vars
  BY <1>30 DEF vars
<1>31. Video \in SUBSET Video /\ \A v \in Video : {v} \in SUBSET Video
  OBVIOUS
<1> HIDE DEF store, disk, process, counters, Commit, Insert, Goto, LoopFree, Up,
        BarrierInv, DownIsEmpty, FetchedOnce, VideoRows, ChunkRows, SegmentRows,
        ChunksRegistered, StartedAfterVideo, RechunkAllDone, RechunkBarrier
<1>32. QED
  BY <1>1, <1>2, <1>3, <1>4, <1>5, <1>6, <1>7, <1>8, <1>9, <1>10,
     <1>11, <1>12, <1>13, <1>14, <1>15, <1>16, <1>17, <1>18, <1>19, <1>20,
     <1>21, <1>22, <1>23, <1>24, <1>25, <1>26, <1>27, <1>28, <1>29, <1>30,
     <1>31, <1>33
    DEF Next, Operator, SourceNext, VideoNext, ChunkNext, SegmentNext

\* Rechunking waits for the last super-chunk, for every set of videos, however
\* often the program is killed, restarted or reset.
THEOREM PipelineRechunkBarrier == Spec => []RechunkBarrier
<1>1. BarrierInv => RechunkBarrier
  BY DEF BarrierInv
<1>2. QED
  BY <1>1, BarrierInit, BarrierNext, PTL DEF Spec

-----------------------------------------------------------------------------
(* Who owns a row, and the ledger. *)

\* One super-chunk at most rechunks a video or waits for its segments, and
\* every super-chunk of that video is DONE by then.
OneRechunker ==
    \A c \in Chunk : co[c] \in {"rechunk", "finalize"} =>
        \A d \in ChunkJobs(VideoOf(c)) :
            /\ status[d] = "DONE"
            /\ co[d] \in {"rechunk", "finalize"} => d = c

\* Whoever rechunks finds no segment that was started before.
RechunkFindsNoRows ==
    \A c \in Chunk : co[c] = "rechunk" =>
        \A s \in SegmentJobs(VideoOf(c)) : status[s] \in {"absent", "PENDING"} /\ co[s] = "none"

SegmentCoroutines ==
    \A s \in Segment : co[s] # "none" =>
        status[s] = IF co[s] = "new" THEN "PENDING" ELSE "RUNNING"

OwnerInv ==
    /\ BarrierInv
    /\ OneRechunker
    /\ RechunkFindsNoRows
    /\ SegmentCoroutines

LEMMA OwnerInit == Init => OwnerInv
  BY BarrierInit, JobFacts DEF Init, OwnerInv, OneRechunker, RechunkFindsNoRows, SegmentCoroutines

LEMMA OwnerNext == OwnerInv /\ [Next]_vars => OwnerInv'
<1> SUFFICES ASSUME OwnerInv, [Next]_vars PROVE OwnerInv'
  OBVIOUS
<1>0. /\ BarrierInv'
      /\ status \in [Job -> Status]
      /\ co \in [Job -> VideoStage \union ChunkStage \union SegmentStage]
      /\ listed \subseteq Video /\ fetching \subseteq Video
      /\ DownIsEmpty /\ FetchedOnce /\ VideoRows /\ ChunkRows /\ SegmentRows
      /\ ChunksRegistered /\ StartedAfterVideo /\ RechunkAllDone /\ RechunkBarrier
  BY BarrierNext DEF OwnerInv, BarrierInv, TypeOK
<1> USE <1>0, JobFacts DEF store, disk, process, counters, Commit, Insert, Goto, LoopFree, Up,
        DownIsEmpty, FetchedOnce, VideoRows, ChunkRows, SegmentRows,
        ChunksRegistered, StartedAfterVideo, RechunkAllDone, RechunkBarrier,
        OwnerInv, OneRechunker, RechunkFindsNoRows, SegmentCoroutines
<1>1. ASSUME NEW cmd \in {"run", "resume"}, StartProgram(cmd) PROVE OwnerInv'
  BY <1>1 DEF StartProgram, RecoverStaleRunning, PendingVideos
<1>2. ASSUME NEW videos \in SUBSET Video, ResetRows(videos) PROVE OwnerInv'
  BY <1>2 DEF ResetRows, DeleteRows
<1>3. CASE Crash
  BY <1>3 DEF Crash
<1>4. ASSUME NEW v \in Video, YieldListed(v) PROVE OwnerInv'
  BY <1>4 DEF YieldListed
<1>5. ASSUME NEW v \in Video, Discover(v) PROVE OwnerInv'
  BY <1>5 DEF Discover
<1>6. ASSUME NEW v \in Video, DownloadDone(v) PROVE OwnerInv'
  BY <1>6 DEF DownloadDone
<1>7. ASSUME NEW v \in Video, DownloadFailed(v) PROVE OwnerInv'
  BY <1>7 DEF DownloadFailed
<1>8. ASSUME NEW v \in Video, Standardize(v) PROVE OwnerInv'
  BY <1>8 DEF Standardize
<1>9. ASSUME NEW v \in Video, SegmentVideo(v) PROVE OwnerInv'
  BY <1>9 DEF SegmentVideo
<1>33. ASSUME NEW v \in Video, DiarizeVideo(v) PROVE OwnerInv'
  BY <1>33 DEF DiarizeVideo
<1>10. ASSUME NEW v \in Video, VideoFails(v) PROVE OwnerInv'
  BY <1>10 DEF VideoFails
<1>11. ASSUME NEW v \in Video, AddSuperchunk(v) PROVE OwnerInv'
  BY <1>11 DEF AddSuperchunk, IsNext
<1>12. ASSUME NEW v \in Video, VideoDone(v) PROVE OwnerInv'
  BY <1>12 DEF VideoDone
<1>13. ASSUME NEW c \in Chunk, StartChunk(c) PROVE OwnerInv'
  BY <1>13 DEF StartChunk
<1>14. ASSUME NEW c \in Chunk, ChunkFails(c) PROVE OwnerInv'
  BY <1>14 DEF ChunkFails
<1>15. ASSUME NEW c \in Chunk, ChunkDone(c) PROVE OwnerInv'
  BY <1>15 DEF ChunkDone, SuperchunksAllDone
<1>16. ASSUME NEW c \in Chunk, AddSegment(c) PROVE OwnerInv'
  BY <1>16 DEF AddSegment, IsNext
<1>17. ASSUME NEW c \in Chunk, SpawnSegments(c) PROVE OwnerInv'
  BY <1>17 DEF SpawnSegments
<1>18. ASSUME NEW c \in Chunk, ChunkReturns(c) PROVE OwnerInv'
  BY <1>18 DEF ChunkReturns
<1>19. ASSUME NEW s \in Segment, StartSegment(s) PROVE OwnerInv'
  BY <1>19 DEF StartSegment
<1>20. ASSUME NEW s \in Segment, Slice(s) PROVE OwnerInv'
  BY <1>20 DEF Slice, SliceAudio
<1>21. ASSUME NEW s \in Segment, SegmentFails(s) PROVE OwnerInv'
  BY <1>21 DEF SegmentFails
<1>22. ASSUME NEW s \in Segment, FilterPasses(s) PROVE OwnerInv'
  BY <1>22 DEF FilterPasses
<1>23. ASSUME NEW s \in Segment, FilterRejects(s) PROVE OwnerInv'
  BY <1>23 DEF FilterRejects
<1>24. ASSUME NEW s \in Segment, Package(s) PROVE OwnerInv'
  BY <1>24 DEF Package, SliceAudio
<1>25. ASSUME NEW s \in Segment, PackageRaises(s) PROVE OwnerInv'
  BY <1>25 DEF PackageRaises
<1>26. ASSUME NEW s \in Segment, SegmentDone(s) PROVE OwnerInv'
  BY <1>26 DEF SegmentDone
<1>27. CASE StartDiscovery
  BY <1>27 DEF StartDiscovery
<1>28. CASE EndDiscovery
  BY <1>28 DEF EndDiscovery
<1>29. CASE EndRun
  BY <1>29 DEF EndRun, Idle, WriteManifest
<1>30. CASE UNCHANGED vars
  BY <1>30 DEF vars
<1>31. Video \in SUBSET Video /\ \A v \in Video : {v} \in SUBSET Video
  OBVIOUS
<1> HIDE DEF store, disk, process, counters, Commit, Insert, Goto, LoopFree, Up,
        DownIsEmpty, FetchedOnce, VideoRows, ChunkRows, SegmentRows,
        ChunksRegistered, StartedAfterVideo, RechunkAllDone, RechunkBarrier,
        OwnerInv, OneRechunker, RechunkFindsNoRows, SegmentCoroutines
<1>32. QED
  BY <1>1, <1>2, <1>3, <1>4, <1>5, <1>6, <1>7, <1>8, <1>9, <1>10,
     <1>11, <1>12, <1>13, <1>14, <1>15, <1>16, <1>17, <1>18, <1>19, <1>20,
     <1>21, <1>22, <1>23, <1>24, <1>25, <1>26, <1>27, <1>28, <1>29, <1>30,
     <1>31, <1>33
    DEF Next, Operator, SourceNext, VideoNext, ChunkNext, SegmentNext

\* The super-chunk that is DONE last, and no other, rechunks its video.
THEOREM PipelineRechunkedOnce == Spec => []RechunkedOnce
<1>1. OwnerInv => RechunkedOnce
  BY JobFacts DEF OwnerInv, OneRechunker, RechunkedOnce
<1>2. QED
  BY <1>1, OwnerInit, OwnerNext, PTL DEF Spec

\* A coroutine never works on a row that is settled, reset or not there.
THEOREM PipelineCoroutinesOwnTheirRows == Spec => []CoroutinesOwnTheirRows
<1>1. OwnerInv => CoroutinesOwnTheirRows
  BY JobFacts DEF OwnerInv, BarrierInv, TypeOK, ChunkStage, VideoRows, VideoStage, ChunkRows, SegmentCoroutines,
     CoroutinesOwnTheirRows
<1>2. QED
  BY <1>1, OwnerInit, OwnerNext, PTL DEF Spec

-----------------------------------------------------------------------------
(* Pipeline implements JobLedger. *)

LEMMA NeedsFacts ==
    /\ \A v \in Video : Needs[v] = {}
    /\ \A c \in Chunk : Needs[c] = {VideoOf(c)}
    /\ \A s \in Segment : Needs[s] = ChunkJobs(VideoOf(s))
  BY JobFacts DEF Needs

LEMMA LedgerInit == Init => Ledger!Init
  BY DEF Init, Ledger!Init

LEMMA LedgerNext == OwnerInv /\ [Next]_vars => [Ledger!Next]_status
<1> SUFFICES ASSUME OwnerInv, [Next]_vars PROVE [Ledger!Next]_status
  OBVIOUS
<1>0. /\ VideoRows /\ ChunkRows /\ SegmentRows /\ SegmentCoroutines
      /\ FetchedOnce /\ ChunksRegistered /\ RechunkBarrier
  BY DEF OwnerInv, BarrierInv
<1>a. ASSUME NEW j \in Job, Ledger!Register(j) \/ Ledger!Start(j) \/ Ledger!Settle(j)
      PROVE  Ledger!Next
  BY <1>a DEF Ledger!Next
<1> USE JobFacts, NeedsFacts DEF store, Commit, Insert
<1>1. ASSUME NEW cmd \in {"run", "resume"}, StartProgram(cmd) PROVE [Ledger!Next]_status
  <2>1. Ledger!Recover \/ UNCHANGED status
    BY <1>1 DEF StartProgram, RecoverStaleRunning, PendingVideos, Ledger!Recover
  <2>2. QED
    BY <2>1 DEF Ledger!Next
<1>2. ASSUME NEW videos \in SUBSET Video, ResetRows(videos) PROVE [Ledger!Next]_status
  <2>1. {j \in Job : VideoOf(j) \in videos} \in SUBSET Job
    OBVIOUS
  <2>2. status' = [j \in Job |-> IF j \in {k \in Job : VideoOf(k) \in videos} THEN "absent" ELSE status[j]]
    BY <1>2 DEF ResetRows, DeleteRows
  <2>3. Ledger!Reset
    BY <2>1, <2>2 DEF Ledger!Reset
  <2>4. QED
    BY <2>3 DEF Ledger!Next
<1>3. CASE Crash
  BY <1>3 DEF Crash
<1>4. ASSUME NEW v \in Video, YieldListed(v) PROVE [Ledger!Next]_status
  BY <1>4 DEF YieldListed
<1>5. ASSUME NEW v \in Video, Discover(v) PROVE [Ledger!Next]_status
  <2>1. Ledger!Register(v)
    BY <1>5, <1>0 DEF Discover, Ledger!Register
  <2>2. QED
    BY <2>1, <1>a
<1>6. ASSUME NEW v \in Video, DownloadDone(v) PROVE [Ledger!Next]_status
  <2>1. Ledger!Start(v)
    BY <1>6, <1>0 DEF DownloadDone, FetchedOnce, Ledger!Start
  <2>2. QED
    BY <2>1, <1>a
<1>7. ASSUME NEW v \in Video, DownloadFailed(v) PROVE [Ledger!Next]_status
  <2>1. Ledger!Settle(v)
    BY <1>7, <1>0 DEF DownloadFailed, FetchedOnce, Ledger!Settle
  <2>2. QED
    BY <2>1, <1>a
<1>8. ASSUME NEW v \in Video, Standardize(v) PROVE [Ledger!Next]_status
  BY <1>8 DEF Standardize
<1>9. ASSUME NEW v \in Video, SegmentVideo(v) PROVE [Ledger!Next]_status
  BY <1>9 DEF SegmentVideo
<1>33. ASSUME NEW v \in Video, DiarizeVideo(v) PROVE [Ledger!Next]_status
  BY <1>33 DEF DiarizeVideo
<1>10. ASSUME NEW v \in Video, VideoFails(v) PROVE [Ledger!Next]_status
  <2>1. Ledger!Settle(v)
    BY <1>10, <1>0 DEF VideoFails, VideoRows, Ledger!Settle
  <2>2. QED
    BY <2>1, <1>a
<1>11. ASSUME NEW v \in Video, AddSuperchunk(v) PROVE [Ledger!Next]_status
  <2>1. PICK k \in ChunkJobs(v) : IsNext(k, ChunkJobs(v)) /\ Insert(k)
    BY <1>11 DEF AddSuperchunk
  <2>2. k \in Job /\ Ledger!Register(k)
    BY <2>1 DEF IsNext, Ledger!Register
  <2>3. QED
    BY <2>2, <1>a
<1>12. ASSUME NEW v \in Video, VideoDone(v) PROVE [Ledger!Next]_status
  <2>1. Ledger!Settle(v)
    BY <1>12, <1>0 DEF VideoDone, VideoRows, Ledger!Settle
  <2>2. QED
    BY <2>1, <1>a
<1>13. ASSUME NEW c \in Chunk, StartChunk(c) PROVE [Ledger!Next]_status
  <2>1. Ledger!Start(c)
    BY <1>13, <1>0 DEF StartChunk, ChunkRows, ChunksRegistered, Ledger!Start
  <2>2. QED
    BY <2>1, <1>a
<1>14. ASSUME NEW c \in Chunk, ChunkFails(c) PROVE [Ledger!Next]_status
  <2>1. Ledger!Settle(c)
    BY <1>14, <1>0 DEF ChunkFails, ChunkRows, Ledger!Settle
  <2>2. QED
    BY <2>1, <1>a
<1>15. ASSUME NEW c \in Chunk, ChunkDone(c) PROVE [Ledger!Next]_status
  <2>1. Ledger!Settle(c)
    BY <1>15, <1>0 DEF ChunkDone, ChunkRows, Ledger!Settle
  <2>2. QED
    BY <2>1, <1>a
<1>16. ASSUME NEW c \in Chunk, AddSegment(c) PROVE [Ledger!Next]_status
  <2>1. PICK k \in SegmentJobs(VideoOf(c)) : IsNext(k, SegmentJobs(VideoOf(c))) /\ Insert(k)
    BY <1>16 DEF AddSegment
  <2>2. k \in Job /\ Ledger!Register(k)
    BY <2>1 DEF IsNext, Ledger!Register
  <2>3. QED
    BY <2>2, <1>a
<1>17. ASSUME NEW c \in Chunk, SpawnSegments(c) PROVE [Ledger!Next]_status
  BY <1>17 DEF SpawnSegments
<1>18. ASSUME NEW c \in Chunk, ChunkReturns(c) PROVE [Ledger!Next]_status
  BY <1>18 DEF ChunkReturns
<1>19. ASSUME NEW s \in Segment, StartSegment(s) PROVE [Ledger!Next]_status
  <2>1. Ledger!Start(s)
    BY <1>19, <1>0 DEF StartSegment, SegmentRows, SegmentCoroutines, RechunkBarrier, Ledger!Start
  <2>2. QED
    BY <2>1, <1>a
<1>20. ASSUME NEW s \in Segment, Slice(s) PROVE [Ledger!Next]_status
  BY <1>20 DEF Slice, SliceAudio
<1>21. ASSUME NEW s \in Segment, SegmentFails(s) PROVE [Ledger!Next]_status
  <2>1. Ledger!Settle(s)
    BY <1>21, <1>0 DEF SegmentFails, SegmentCoroutines, Ledger!Settle
  <2>2. QED
    BY <2>1, <1>a
<1>22. ASSUME NEW s \in Segment, FilterPasses(s) PROVE [Ledger!Next]_status
  BY <1>22 DEF FilterPasses
<1>23. ASSUME NEW s \in Segment, FilterRejects(s) PROVE [Ledger!Next]_status
  <2>1. Ledger!Settle(s)
    BY <1>23, <1>0 DEF FilterRejects, SegmentCoroutines, Ledger!Settle
  <2>2. QED
    BY <2>1, <1>a
<1>24. ASSUME NEW s \in Segment, Package(s) PROVE [Ledger!Next]_status
  BY <1>24 DEF Package, SliceAudio
<1>25. ASSUME NEW s \in Segment, PackageRaises(s) PROVE [Ledger!Next]_status
  BY <1>25 DEF PackageRaises
<1>26. ASSUME NEW s \in Segment, SegmentDone(s) PROVE [Ledger!Next]_status
  <2>1. Ledger!Settle(s)
    BY <1>26, <1>0 DEF SegmentDone, SegmentCoroutines, Ledger!Settle
  <2>2. QED
    BY <2>1, <1>a
<1>27. CASE StartDiscovery
  BY <1>27 DEF StartDiscovery
<1>28. CASE EndDiscovery
  BY <1>28 DEF EndDiscovery
<1>29. CASE EndRun
  BY <1>29 DEF EndRun, WriteManifest
<1>30. CASE UNCHANGED vars
  BY <1>30 DEF vars
<1>31. Video \in SUBSET Video /\ \A v \in Video : {v} \in SUBSET Video
  OBVIOUS
<1> HIDE DEF store, Commit, Insert
<1>32. QED
  BY <1>1, <1>2, <1>3, <1>4, <1>5, <1>6, <1>7, <1>8, <1>9, <1>10,
     <1>11, <1>12, <1>13, <1>14, <1>15, <1>16, <1>17, <1>18, <1>19, <1>20,
     <1>21, <1>22, <1>23, <1>24, <1>25, <1>26, <1>27, <1>28, <1>29, <1>30,
     <1>31, <1>33
    DEF Next, Operator, SourceNext, VideoNext, ChunkNext, SegmentNext

\* Whatever the program does to the rows of the job store, and however often it
\* is killed, resumed or reset, is a step of the ledger or none.
THEOREM PipelineImplementsLedger == Spec => ImplementsLedger
  BY OwnerInit, OwnerNext, LedgerInit, LedgerNext, PTL DEF Spec, ImplementsLedger, Ledger!Spec

-----------------------------------------------------------------------------
(***************************************************************************)
(* What the end of a run leaves behind: DONE segments are on disk and in   *)
(* the manifest, and after a resume every RUNNING row has a coroutine, but *)
(* for those whose packaging raised.  And no super-chunk is transcribed    *)
(* before the diarization of its video has ended.                          *)
(***************************************************************************)

\* A run is not over while the program is up.
UpIsUnclean == Up => ~clean

\* Nothing is diarized while the program is down.
DiarizedWhileUp == ~Up => diarizing = {}

\* The super-chunks are registered with the turns at hand.
RegisteredWithTurns == \A v \in diarizing : co[v] # "register"

CommitIsPackaged ==
    \A s \in Segment :
        /\ co[s] \in {"filter", "package", "commit"} => s \in audio
        /\ co[s] = "commit" => s \in json

OutputInv ==
    /\ OwnerInv
    /\ UpIsUnclean
    /\ CommitIsPackaged
    /\ DoneIsPackaged
    /\ ManifestListsDone
    /\ RunningIsOwned
    /\ DiarizedWhileUp
    /\ RegisteredWithTurns
    /\ DiarizedFirst

LEMMA OutputInit == Init => OutputInv
  BY OwnerInit, JobFacts
    DEF Init, OutputInv, UpIsUnclean, CommitIsPackaged, DoneIsPackaged, ManifestListsDone,
        RunningIsOwned, DiarizedWhileUp, RegisteredWithTurns, DiarizedFirst, Up

LEMMA OutputNext == OutputInv /\ [Next]_vars => OutputInv'
<1> SUFFICES ASSUME OutputInv, [Next]_vars PROVE OutputInv'
  OBVIOUS
<1>0. /\ OwnerInv'
      /\ status \in [Job -> Status]
      /\ co \in [Job -> VideoStage \union ChunkStage \union SegmentStage]
      /\ command \in {"run", "resume"} /\ clean \in BOOLEAN /\ packageFaults \in Nat
      /\ diarizing \subseteq Video
      /\ DownIsEmpty /\ FetchedOnce /\ VideoRows /\ ChunkRows /\ ChunksRegistered
      /\ OneRechunker /\ SegmentCoroutines
  BY OwnerNext, Bounds DEF OutputInv, OwnerInv, BarrierInv, TypeOK
<1> USE <1>0, JobFacts DEF store, disk, process, counters, Commit, Insert, Goto, LoopFree, Up,
        DownIsEmpty, FetchedOnce, VideoRows, ChunkRows, ChunksRegistered, OneRechunker, SegmentCoroutines,
        OutputInv, UpIsUnclean, CommitIsPackaged, DoneIsPackaged, ManifestListsDone, RunningIsOwned,
        DiarizedWhileUp, RegisteredWithTurns, DiarizedFirst
<1>1. ASSUME NEW cmd \in {"run", "resume"}, StartProgram(cmd) PROVE OutputInv'
  BY <1>1 DEF StartProgram, RecoverStaleRunning, PendingVideos
<1>2. ASSUME NEW videos \in SUBSET Video, ResetRows(videos) PROVE OutputInv'
  BY <1>2 DEF ResetRows, DeleteRows
<1>3. CASE Crash
  BY <1>3 DEF Crash
<1>4. ASSUME NEW v \in Video, YieldListed(v) PROVE OutputInv'
  BY <1>4 DEF YieldListed
<1>5. ASSUME NEW v \in Video, Discover(v) PROVE OutputInv'
  BY <1>5 DEF Discover
<1>6. ASSUME NEW v \in Video, DownloadDone(v) PROVE OutputInv'
  BY <1>6 DEF DownloadDone
<1>7. ASSUME NEW v \in Video, DownloadFailed(v) PROVE OutputInv'
  BY <1>7 DEF DownloadFailed
<1>8. ASSUME NEW v \in Video, Standardize(v) PROVE OutputInv'
  BY <1>8 DEF Standardize
<1>9. ASSUME NEW v \in Video, SegmentVideo(v) PROVE OutputInv'
  BY <1>9 DEF SegmentVideo
<1>33. ASSUME NEW v \in Video, DiarizeVideo(v) PROVE OutputInv'
  BY <1>33 DEF DiarizeVideo
<1>10. ASSUME NEW v \in Video, VideoFails(v) PROVE OutputInv'
  BY <1>10 DEF VideoFails
<1>11. ASSUME NEW v \in Video, AddSuperchunk(v) PROVE OutputInv'
  BY <1>11 DEF AddSuperchunk, IsNext
<1>12. ASSUME NEW v \in Video, VideoDone(v) PROVE OutputInv'
  BY <1>12 DEF VideoDone
<1>13. ASSUME NEW c \in Chunk, StartChunk(c) PROVE OutputInv'
  BY <1>13 DEF StartChunk
<1>14. ASSUME NEW c \in Chunk, ChunkFails(c) PROVE OutputInv'
  BY <1>14 DEF ChunkFails
<1>15. ASSUME NEW c \in Chunk, ChunkDone(c) PROVE OutputInv'
  BY <1>15 DEF ChunkDone
<1>16. ASSUME NEW c \in Chunk, AddSegment(c) PROVE OutputInv'
  BY <1>16 DEF AddSegment, IsNext
<1>17. ASSUME NEW c \in Chunk, SpawnSegments(c) PROVE OutputInv'
  BY <1>17 DEF SpawnSegments
<1>18. ASSUME NEW c \in Chunk, ChunkReturns(c) PROVE OutputInv'
  BY <1>18 DEF ChunkReturns
<1>19. ASSUME NEW s \in Segment, StartSegment(s) PROVE OutputInv'
  BY <1>19 DEF StartSegment
<1>20. ASSUME NEW s \in Segment, Slice(s) PROVE OutputInv'
  BY <1>20 DEF Slice, SliceAudio
<1>21. ASSUME NEW s \in Segment, SegmentFails(s) PROVE OutputInv'
  BY <1>21 DEF SegmentFails
<1>22. ASSUME NEW s \in Segment, FilterPasses(s) PROVE OutputInv'
  BY <1>22 DEF FilterPasses
<1>23. ASSUME NEW s \in Segment, FilterRejects(s) PROVE OutputInv'
  BY <1>23 DEF FilterRejects
<1>24. ASSUME NEW s \in Segment, Package(s) PROVE OutputInv'
  BY <1>24 DEF Package, SliceAudio
<1>25. ASSUME NEW s \in Segment, PackageRaises(s) PROVE OutputInv'
  BY <1>25 DEF PackageRaises
<1>26. ASSUME NEW s \in Segment, SegmentDone(s) PROVE OutputInv'
  BY <1>26 DEF SegmentDone
<1>27. CASE StartDiscovery
  BY <1>27 DEF StartDiscovery
<1>28. CASE EndDiscovery
  BY <1>28 DEF EndDiscovery
<1>29. CASE EndRun
  BY <1>29 DEF EndRun, Idle, WriteManifest
<1>30. CASE UNCHANGED vars
  BY <1>30 DEF vars
<1>31. Video \in SUBSET Video /\ \A v \in Video : {v} \in SUBSET Video
  OBVIOUS
<1> HIDE DEF store, disk, process, counters, Commit, Insert, Goto, LoopFree, Up,
        DownIsEmpty, FetchedOnce, VideoRows, ChunkRows, ChunksRegistered, OneRechunker, SegmentCoroutines,
        OutputInv, UpIsUnclean, CommitIsPackaged, DoneIsPackaged, ManifestListsDone, RunningIsOwned,
        DiarizedWhileUp, RegisteredWithTurns, DiarizedFirst
<1>32. QED
  BY <1>1, <1>2, <1>3, <1>4, <1>5, <1>6, <1>7, <1>8, <1>9, <1>10,
     <1>11, <1>12, <1>13, <1>14, <1>15, <1>16, <1>17, <1>18, <1>19, <1>20,
     <1>21, <1>22, <1>23, <1>24, <1>25, <1>26, <1>27, <1>28, <1>29, <1>30,
     <1>31, <1>33
    DEF Next, Operator, SourceNext, VideoNext, ChunkNext, SegmentNext

\* A DONE segment has its audio and its metadata on disk, however often the program
\* is killed between slicing, filtering, packaging and the commit.
THEOREM PipelineDoneIsPackaged == Spec => []DoneIsPackaged
<1>1. OutputInv => DoneIsPackaged
  BY DEF OutputInv
<1>2. QED
  BY <1>1, OutputInit, OutputNext, PTL DEF Spec

\* A run that has ended lists every DONE segment in its manifest.
THEOREM PipelineManifestListsDone == Spec => []ManifestListsDone
<1>1. OutputInv => ManifestListsDone
  BY DEF OutputInv
<1>2. QED
  BY <1>1, OutputInit, OutputNext, PTL DEF Spec

\* From resume to the end of the run a RUNNING row is a live coroutine's: nothing is
\* left RUNNING but sliced segments whose packaging raised.
THEOREM PipelineRunningIsOwned == Spec => []RunningIsOwned
<1>1. OutputInv => RunningIsOwned
  BY DEF OutputInv
<1>2. QED
  BY <1>1, OutputInit, OutputNext, PTL DEF Spec

\* The super-chunks of a video wait for its diarization, and one that is left
\* behind by a failure of VAD is that of a FAILED video until it ends.
THEOREM PipelineDiarizedFirst == Spec => []DiarizedFirst
<1>1. OutputInv => DiarizedFirst
  BY DEF OutputInv
<1>2. QED
  BY <1>1, OutputInit, OutputNext, PTL DEF Spec

=============================================================================
