# jin-pipe in TLA+

A model of jin-pipe (`src/jinpipe/`), the pipeline that turns YouTube channels,
single videos or a folder of audio into a dataset of short transcribed segments.
It is an asyncio program around a SQLite job store, with process pools for VAD
and for ASR, an admission gate for memory, and pure functions that decide where a
recording is cut. The modules here state what these parts do and what they promise,
TLC checks them on small instances, and TLAPS proves every safety property of the
runs for every value of the constants (some under hypotheses, section 4).

    tlc -config Pipeline.cfg MCPipeline.tla          # one run
    tlapm PipelineProofs.tla                         # one module of proofs

`PROJECT.json` lists the components, the runs, the source lines behind every
definition (`map`), the hazards of the code and the disagreements between the
code and its documentation (`findings`).

## 1. The system

| component | state it keeps | operations | talks to |
|---|---|---|---|
| orchestrator (`orchestrator.py`) | one asyncio task per video, super-chunk and segment; nothing else | `run_pipeline_async`, `_process_video_to_superchunks`, `_process_superchunk_asr`, `_rechunk_and_finalize`, `_finalize_segment` | everything |
| job store (`db.py`) | three tables with a `status` column, in SQLite (autocommit per call) | `add_*`, `update_*`, `recover_stale_running`, `reset_*`, queries | orchestrator, cli |
| command line (`cli.py`) | none | `run`, `resume`, `reset`, `manifest`, `filter-speakers`, ... | job store, output directory |
| ASR pool (`workers/asr_worker.py`) | worker processes, three multiprocessing queues, `_pending_tasks`/`_pending_futures`, `_in_flight`, `_last_heartbeat` | `start`, `submit`, `stop`, two reader threads, a supervisor coroutine | orchestrator (futures) |
| resource gate (`resources.py`) | `_ram_reserved`, `_vram_reserved` | `acquire` (poll and reserve), `release` | orchestrator (as `async with`) |
| discovery (`stages/discover.py`) | a semaphore and a bounded queue | one producer per channel, closer, `ad_hoc_videos` | the generator of the orchestrator |
| local source (`stages/local.py`) | none | `pending_and_fresh_local_files`, `local_results` | orchestrator, job store |
| download stage (`stages/download.py`) | bounded work queue, unbounded result queue, sentinels | feeder, workers, closer, `download_all` | the generator, the orchestrator's loop |
| coarse VAD (`stages/vad.py`) | none (pure) | `merge_speech_regions`, `apply_overlap`, `coarse_segment` | orchestrator |
| speakers (`asr_worker.py`) | none (pure) | `compute_overlap_regions`, `word_in_overlap`, `assign_speakers` | ASR worker |
| rechunking (`stages/rechunk.py`) | none (pure) | `rechunk_video` and its steps | orchestrator |
| filter (`stages/filter.py`) | none | `filter_segment` | orchestrator |
| packaging (`stages/package.py`) | the output directory: audio, `<id>.json`, `manifest.jsonl`, `manifest.csv` | `slice_segment_audio`, `package_segment`, `write_manifest`, `write_csv`, `filter_speakers` | orchestrator, cli |
| viewer, config, `transcribe_only`, `standardize` | none or read-only | — | — |

A video flows as follows. The source names it, and a generator registers it in the job
store; a download worker fetches it; the consumer spawns a coroutine that standardizes
it, runs VAD beside diarization, inserts one row per super-chunk and commits the video
`DONE`; each super-chunk has a coroutine that submits ASR (whose worker labels words
with the turns of the diarization) and commits `DONE`; the one whose commit completes the
video rechunks it, inserting one row per segment; each segment has a coroutine that
slices, filters and packages it. At the end the manifests are rebuilt from the directory.
Memory is acquired from the gate around standardize, VAD, diarization, ASR and the
filter. A process that stops at any point leaves a store and a directory; `resume` turns
`RUNNING` rows to `PENDING` and starts again.

### What is hard, and what correct means

* **Crash and restart** (orchestrator, store). Every `JobStore` call commits on its own.
  Correct: no segment exists before all super-chunks of its video are transcribed; one
  coroutine rechunks a video; a `RUNNING` row has somebody working on it; no super-chunk
  is transcribed before the turns its words are labelled with are there.
* **Files and kills** (output directory). Every slice, metadata file and manifest is
  several system calls. Correct: no half-written file has a final name, metadata has its
  audio, the manifests list what is there, only what was asked for is deleted.
* **Worker death and stalls** (ASR pool). Messages leave a process through a feeder
  thread, heartbeats and results travel on different queues to different threads, and a
  killed reader keeps the lock of the task queue. Correct: every awaited task is answered
  once, no healthy work is killed, no task runs twice at once, `stop()` leaves no one waiting.
* **Check-then-act over time** (resource gate). What is admitted is allocated later.
  Correct: allocations stay below reservations, reservations below the budget, nothing
  leaks, what fits is admitted.
* **Chains of queues and generators** (discovery, sources, download). Correct: a video
  that several sources name is handed over once, a `PENDING` row is always on its way,
  the stream ends, also when channels fail, and its end means that all was answered.
* **Boundaries** (VAD, speakers, rechunking, filter). Correct: speech is covered, cuts
  are capped and a word at a cut is heard whole by one side; a word at a seam is neither lost nor doubled; segments are whole sentences,
  packed greedily; they have one speaker, and cross-talk never passes the filter.

`PROJECT.json` "hazards" has the complete list at the line where each one bites.

## 2. The modules

| module | models | the code it stands for |
|---|---|---|
| `AsrService` | what the ASR pool promises its callers | abstract |
| `AsrPool` | worker processes, reader threads, supervisor, `submit`, `stop`, six kinds of fault | `asr_worker.py` 323-549 |
| `JobLedger` | what the job store and its callers do to the status of a row | abstract |
| `Pipeline` | orchestrator, job store, `run`/`resume`/`reset`, crashes | `orchestrator.py`, `db.py`, `cli.py` |
| `ResourceGate` | `acquire`, `release`, the clamp, RAM and GPUs | `resources.py` |
| `Download` | feeder, workers, closer, consumer, sentinels, over any source | `download.py` |
| `Discover` | producers, semaphore, bounded queue, closer | `discover.py` |
| `Intake` | `Discover`, `Download`, the generator between them, the folder source, the consumer's loop | `orchestrator.py` 58-132, `local.py`, `discover.py` |
| `Output` | the output directory, one system call at a time | `package.py`, `cli.py` |
| `Intervals` | spans of time | |
| `Vad` | merging, splitting, padding | `vad.py` |
| `Speakers` | overlap regions, the speaker of a word | `asr_worker.py` 76-136 |
| `Rechunk` | merging super-chunks, sentences, packing | `rechunk.py` |
| `SegmentFilter` | the gates of the filter | `filter.py` |
| `Transcript` | `Vad`, `Speakers`, `Rechunk` and `SegmentFilter` from a recording to its segments | `orchestrator.py` 303-358, `asr_worker.py` 350-364 |
| `PipelineProofs`, `AsrPoolProofs`, `IntakeProofs`, `OutputProofs`, `ResourceGateProofs`, `VadProofs`, `TranscriptProofs` | theorems about the module of that name | |
| `FoldProofs` | what the folds of the community modules compute | |
| `MC*` | constants of the instances | |

`AsrPool` implements `AsrService` and `Pipeline` implements `JobLedger`, both by a
refinement mapping at the end of the concrete module; `Intake`, which replaces the
arbitrary source of `Download` by the real one, implements `Download` with the identity
as the mapping. In every module the operators called "Mutant of ..." are variants with a
plausible bug; they are never used by the specification, and each property is shown to
fail under one of them.

### Correspondence and abstractions

**AsrPool.** One action per blocking point of a process or thread: a worker loads,
takes the reader lock, gets a task and announces it, runs it, reports and announces
the end (`Load`, `AcquireReaderLock`, `GetTask`, `FinishTask`); the reader threads
take one message each (`ReadResult`, `ReadHeartbeat`); the supervisor looks at one
worker at a time (`CheckWorker`, `KillWorker`, `RespawnWorker`) and blocks the event
loop during a join, hence the guard `LoopFree`; `stop()` is `StopBegin`, `StopJoin`
per worker, `StopFail` per future. A multiprocessing queue is a FIFO per producing
process, and a process that dies leaves any prefix of what it had queued. Time is
`age[w] \in 0..2`: which of the two stall allowances have gone by; it only passes
while nothing of the worker is unread, for the readers poll every half second and an
allowance is minutes. What a result contains, model calls and poll intervals are left
out. `faults` remembers how many faults there were and which of them the parent cannot
attribute to a task (`AllAttributed` says that there were none of those).

**Pipeline.** A coroutine runs until it awaits, so an action is the code between two
awaits; where several commits follow one another without an await ("register", which
inserts the super-chunks of a video, and "rechunk", which inserts its segments) there
is an action per commit and the guard `LoopFree` keeps other coroutines out, so that
the program can be killed between two commits. VAD and diarization of a video run side by
side: `diarizing` is the set of videos whose diarization is under way, VAD waits for it in
"turns", and a VAD that fails leaves it running. A stage is abstracted to success,
rejection or failure; `ChunksOf` and `SegmentsOf` fix how a video divides. Waiting for
the gate or the pool is part of the stage that waits. `Crash` empties everything that
is not on disk. `StartProgram` is `run` or `resume`; `ResetRows` deletes rows and leaves files.

**ResourceGate.** A step of a coroutine is atomic; between two polls anything happens.
Memory is counted in small units and the machine is part of the model: the reading of
available memory is the total less what others hold and less what admitted callers
have allocated so far.

**Discover, Download, Intake.** `Download` stands alone over a source that yields
anything once, and `Intake` puts the real source in its place. A generator runs only when its consumer asks for the next
item: `Asked` is that the feeder (in YouTube mode) or the loop of
`run_pipeline_async` (with a folder) waits and nothing is in the generator's `hand`.
Every item it takes or skips is a step, with the row it adds (`Register`). The bounded
queue of `discover_all` and the work queue keep their order and their limits. A listing
and a download have an outcome; the retries of yt-dlp are inside it. The rows a run
starts with are any of `KnownRows`, and `list_videos` returns them in any order. In a
folder `Video` is the set of stems, `Folder` the files in the order of the scan, and
`file[v]` which of them the row of v names; a file may be gone when `local_results`
looks at it, whether its row is old or fresh.
`raw` is what has been downloaded and not yet been through its coroutine.

**Output.** A step is one system call after which a kill makes a difference: a temporary
file is opened, a complete one renamed, a name unlinked, a manifest replaced, the CSV
truncated and written. The coroutines of the segments interleave; the commands
`run`, `manifest` and `filter-speakers` come one after another. `stale`, `outlived`,
`torn` and `excused` are history: what a kill, a reset or a request made so.

**Vad, Speakers, Rechunk, SegmentFilter, Transcript.** The pure functions are operators
and folds; time is in units that make equal splits whole numbers. The recording grows by
one region per step, so that every reachable state is one input of `coarse_segment`. Its
`duration` is measured by others (`orchestrator.py` 204-212) and may be any, so that the
clamp of `vad.py` 98 cuts off speech or whole super-chunks; a cap of 0 never splits. When
it is one of `Studies`, `Diarize` chooses its turns and settings, and `Speak` adds one
word at a time, with every way in which each super-chunk may hear it: in time or late,
cut at the edge of the super-chunk, or, if it is not wholly inside, not at all. So
`RechunkRecording` may follow upon every input of `rechunk_video`, and the invariants
compare the segments with what the recording was. A text is a model value with a flag for "ends a
sentence".


## 3. The runs

Passing:

| run | instance | states | shows |
|---|---|---|---|
| `AsrPool` | 2 workers, a diarize and an asr task, 1 fault of any kind, `stop()` at any time | 963 000 | `NoTaskLost`, `ExclusiveExecution`, `StopLeavesNoWaiter`, `HealthyWorkIsSpared`, `ImplementsService`; `EveryTaskAnswered`, `WorkersRecover` |
| `Pipeline` | a video of 2 super-chunks and one without speech, 2 kills, 3 starts, 1 reset, 1 packaging that raises | 91 000 | `RechunkBarrier`, `RechunkedOnce`, `RunningIsOwned`, `CoroutinesOwnTheirRows`, `DoneIsPackaged`, `ManifestListsDone`, `DiarizedFirst`, `ImplementsLedger`; `PendingIsSettled`, `RunEnds` |
| `Gate` | 3 callers, RAM, one GPU and an unknown one | 252 000 | `MemoryBounded`, `NothingLeaks`; `FittingIsAdmitted` |
| `Intake` | 3 videos, 2 channels that share one, a configured video that is listed too, queues of 1, 2 download workers, 3 job stores; or a folder with two files of one stem | 70 000 | `PendingIsOnItsWay`, `IntakeIsComplete`, `ImplementsDownload`; `StreamEndsUnlessRaised` |
| `Transcript` | every recording of up to 8 grid points segmented, with any duration; 6 of them transcribed and rechunked | 49 000 | `CutsAreCapped`, `SpeechIsCovered`, `WordsAreHeardWhole`, `NothingLeftToMerge`, `EveryWordOnce`, `SentencesStayWhole`, `OnlySentencesExceed`, `CutsHaveAReason`, `OneSpeakerWhenLabelled`, `OverlapIsRejected` |
| `Output` | 2 segments, 2 speakers, 4 commands, 1 reset, 1 kill | 218 000 | `FinalNamesAreWhole`, `ManifestIsCurrent`, `JsonHasAudio`, `OnlyUnwantedIsDeleted` |

`AsrPool` and `Pipeline` also check the type invariant of their module. Properties
after a semicolon are liveness.

Runs that TLC must find violated, each with a finding that quotes the claim:

| run | what happens |
|---|---|
| `AsrPoolLateKill` | without any fault: the result of a long diarization is read before its end heartbeat, the short allowance applies, a healthy worker is killed in `get()`, and the reader lock of the task queue dies with it: no process ever gets a task again (two findings: the lock, and the kill) |
| `PipelineOrphans` | killed after a video is `DONE`: `resume` only looks at `PENDING` videos, so its super-chunks are never transcribed |
| `DownloadBadUrl` | a bad `video_urls` entry raises in the feeder: no sentinel, the consumer waits for ever |
| `MixedSpeakers` | a word of no turn between the words of two speakers: no boundary is forced, and one segment has the words of both |
| `SharedStem` | a folder with `talk.mp3` and `talk.wav`: the second is skipped as known, although "every audio file" of the folder is to be processed |
| `CutMidSentence` | punctuated text with a pause inside a sentence: the pause is a boundary as well, although cuts are to land only between two sentences |

The models also show, and the passing properties are worded to leave out, that

* a worker that dies after `get()` and before its start heartbeat has left the process
  takes its task with it (`NoTaskLost` is about deaths the parent can attribute);
* a worker that dies idle takes the reader lock with it, as in `AsrPoolLateKill`
  (`EveryTaskAnswered` excuses the faults that the parent cannot attribute);
* a request above the budget polls for ever (`FittingIsAdmitted` excludes it);
* two requests admitted on one reading can sink available memory below the floor when
  other processes hold memory too (the reading does not count what is admitted and not
  yet allocated; `MemoryBounded` is about the pipeline's own use and would not notice, nor
  that a floor above the total leaves no budget);
* downloads never wait for the stages behind them: the loop takes an answer and spawns a
  coroutine (`orchestrator.py` 119), so `raw` grows beyond the bound of the queue, against
  `download.py` 5-7 (no run asks about it);
* `package_segment` is called outside the `try` of its stage: when it raises the row
  stays `RUNNING` and nothing is reported (`RunningIsOwned` excludes sliced segments whose
  packaging raised, and no others);
* a super-chunk that ASR receives is longer than `max_superchunk_s` by the padding
  (`CutsAreCapped` states the exact bound);
* a duration that was measured too short loses the speech after it, and the last
  super-chunk may end before it begins (`vad.py` 98; `SpeechIsCovered` and
  `WordsAreHeardWhole` are about what lies before it);
* a word that two super-chunks hear with at most 40 % of overlap appears twice
  (`EveryWordOnce` says when it is kept once);
* a pause of `silence_fallback_ms` ends a sentence in `SentencesStayWhole`, as it does in the
  code; what the documentation makes of that is `CutMidSentence`;
* only a word that is heard to end after a later one ends gives `_enforce_min_duration`
  anything to merge in what `_pack_sentences` returns (the study `Brief`), and
  `boundary_edge_guard_s` (`config.py` 78) is read nowhere;
* a segment that was packaged, reset and then rejected keeps its JSON but not its audio,
  so that the manifest lists it (`JsonHasAudio` names the two causes);
* `filter-speakers` that was killed before its rebuild and is run again may find nothing to
  delete and return without rebuilding the manifests (`cli.py` 171), and its hint that
  `package` or `run` brings deleted segments back (`cli.py` 158-162) is wrong: their rows
  are `DONE`;
* `manifest.csv` is opened in place: a kill while it is written leaves a part of it;
* `PENDING` rows of YouTube videos fail for good when a run uses a folder;
* `ManifestIsCurrent`, `JsonHasAudio` and `RunningIsOwned` name what a kill, a reset or a
  packaging that raised has left behind and say nothing of it: they bound these defects and do
  not catch them. `OnlyUnwantedIsDeleted` says what stays, not that the rest is gone.

**Bounds, and why they are enough.** Faults need one victim and one survivor: two
workers, and two tasks so that the long and the short allowance both occur. One fault of
any kind is enough for a death, a requeue and an answer given twice; the proofs are for
any number. `Bounded` in `MCAsrPool` keeps to one task
where a fault has hit that the parent cannot attribute. It cuts off only what nothing obliges
anyone to do (submitting, failing), so behaviours that are fair within it are fair without it.
The barrier needs a video with two super-chunks (two coroutines that race to
complete it) beside another, which has no speech and so never has a row below it; two
kills and three starts let a recovery itself be killed, and a reset falls before or after
either. The gate needs three callers for a reservation that a third caller could break;
the values of memory are chosen so that requests fit alone, fit together, and do not fit
at all. Queues of one are full at once; two producers and two workers contend for them;
three videos let one be shared between channels, one be configured as well as listed and
one be neither; the job stores are empty, interrupted, and holding every other status.
`DownloadBadUrl` runs `Download` alone: one video and a source that raises. A recording of
eight grid points holds chunks of one, two and more than two grid points with a cap of two.
The six studied ones are `Seams`, speech without a pause of which three super-chunks all hear
the middle; `Apart`, two super-chunks that do not meet; `Connected`, words that follow one
another without a pause, each of which may be heard late and one out of order; `Cut`, whose
duration falls short of the last region; `Brief`, in which a word may be heard to end after the
next; and `Talk`, a conversation of up to six words with turns that abut, leave a gap, overlap
or nest. In `Output` two segments suffice for one
that is deleted beside one that stays, two speakers for one who is kept, and four commands for
a run, a deletion, a kill and what comes after. `MaxFaults`, `MaxCrashes`, `MaxStarts`,
`MaxResets`, `MaxPackageFaults`, `MaxKills`, `MaxCommands` and the limits of the studies
are the only artificial counters. No run uses symmetry. `CHECK_DEADLOCK FALSE` is set
because every one of these systems may stop: the program is down and not started again,
the stream has ended, all callers are served, the recording is complete, no command is left.

**Fairness.** Weak fairness, per worker, video, super-chunk or segment, of the steps
that an event loop, a thread or a process takes by itself when it can: the asyncio loop
runs every ready callback, the operating system runs every thread, the supervisor and
the gate poll; in `Intake` the generator, every producer, the closers, the download workers
and the consumer go on when they can. There is none for anything from outside: submitting,
stopping, starting the program, killing it, faults, or a hung task returning; nor for
allocation and foreign memory in the gate. `FittingIsAdmitted` is stated under the
hypothesis that the outside pressure is gone. Nothing is assumed strongly fair.

`AsrPool` makes one more assumption, `Timely`: when a live worker is found stalled its
heartbeats have been read. Both reader threads poll every half second and allowances are
minutes, but the code does not enforce it, and `AsrPoolLateKill` shows what happens without
it. `HealthyWorkIsSpared` is proved without it: a process in a task that is awaited, and of
whose start the parent was told, is never killed. A process that waits for work may be.

## 4. What is proved

Everything below holds for every value of the constants that satisfies the named assumptions of
the module, and rests on nothing else. Each module of proofs has one step per action, or group of
actions with the same effect, and below it one per conjunct that the action disturbs where that is
not immediate. Each strengthening was checked by TLC before it was proved.

### The orchestrator: `PipelineProofs`

From `PipelineAssumption` alone (a set of indices for each video, and that videos are
not super-chunks or segments): any number of videos, super-chunks, segments, crashes,
starts, resets and packagings that raise.

* `PipelineTypeOK`.
* `PipelineRechunkBarrier`. The barrier alone is not inductive: nothing in it says that
  a super-chunk that is `DONE` stays so, or that a video in work has no segments yet.
  `BarrierInv` adds what each coroutine may rely on: nothing runs while the program is
  down, a video waiting for its download is `PENDING`, a video or super-chunk in work is
  `RUNNING`, the coroutines of super-chunks exist only for a `DONE` video with all its
  rows (`ChunksRegistered`), no super-chunk of an unfinished video was ever started
  (`StartedAfterVideo`, what makes a crash and a rerun of the video harmless), and whoever
  rechunks found all super-chunks `DONE` (`RechunkAllDone`).
* `PipelineRechunkedOnce` and `PipelineCoroutinesOwnTheirRows`, from `OwnerInv`:
  `BarrierInv`, one super-chunk at most past the barrier per video (`OneRechunker`), who
  finds no segment started before (`RechunkFindsNoRows`), and a row in the state its
  segment coroutine left it in (`SegmentCoroutines`).
* `PipelineImplementsLedger`: initial states map to initial states (`LedgerInit`) and
  every step is a step of `JobLedger` or a stutter (`LedgerNext`), using `OwnerInv` for
  what each commit finds in its row (`NeedsFacts`).
* `PipelineDoneIsPackaged`, `PipelineManifestListsDone`, `PipelineRunningIsOwned` and
  `PipelineDiarizedFirst`, from `OutputInv`: `OwnerInv`; that a segment at the filter, at
  packaging or at its commit has the files of the stages before (`CommitIsPackaged`); that
  while a program is up its run is not yet clean; that nothing is diarized while it is down
  (`DiarizedWhileUp`), and that a video registers its super-chunks with its turns at hand
  (`RegisteredWithTurns`).

### The ASR pool: `AsrPoolProofs`

From `PoolAssumption` (a finite set of workers, and that tasks, the sentinel, the lock's
owners and "no task" are told apart). The first five theorems are for faults of every kind,
the ones that lose messages included.

* `AsrPoolTypeOK`, with `BusyHasTask`: a process in a task knows which.
* `AsrPoolImplementsService` and `AsrPoolSettledOnce`: every step is a step of
  `AsrService` or a stutter (`ServiceNext`); the type invariant is enough, since all that
  goes wrong below only touches what callers cannot see.
* `AsrPoolStopLeavesNoWaiter`, from `StopInv`: whoever waits is in the table or its answer
  is scheduled (`WaiterKnown`), and the table was swept when `stop()` returned.
* `AsrPoolExclusiveExecution`. That a task runs in one process
  does not follow from where it runs: it is requeued because of what the parent believes,
  and the parent learns that from heartbeats that may be stale. `PlacedInv` follows the task
  around: an awaited task is in the queue, or claimed by one worker (in flight, or a start
  heartbeat that is still unread), or in the hands of the supervisor, and in no two of
  these; within one worker it is announced at most once and not while it is in flight; and
  the latest heartbeat of a process in a task, read or not, is the start of that task
  (`ExecutesAnnounced`), so that executing is a claim. `OccursAppend`, `OccursTail`,
  `OccursPrefix` and `OccursConcat` say what the queue operations do to such places.
* `AsrPoolHealthyWorkIsSpared`, for `Spec`, whatever the faults and the lag of the readers. The
  allowance is the long one only while the task is pending, so the content is that a task is
  pending, and not just answered, while a process is in it; `InTime` says that such a process is
  within the allowance of its task when the parent has heard of its start.
* `AsrPoolNoTaskLost`, for `TimelySpec` and as long as `AllAttributed`: every fault so far was a
  death in a task whose start was read, or a hang. It is false without either (section 3).
  Neither restricts the number of faults, and faults of the other kinds may come later.
  `NoLossInv` is `PlacedInv` and, while the pool runs, `Faithful`: a process
  that waits for a task is known to be idle or its end heartbeat is on its way
  (`GettingShape`), a dead one left nothing unread (`DeadShape`), only a process that hangs
  or is dead is past the allowance of its task (`OverdueShape`), and what the supervisor
  found out about a process still holds when it acts on it (`CheckedShape`).

### The resource gate: `ResourceGateProofs`

From `GateAssumption` (finitely many callers, costs and totals that are natural numbers):
any callers, pools, costs and outside pressure.

* `GateNothingLeaks`: the counter of a pool is the sum of its open reservations.
* `GateMemoryBounded`: what the pipeline's tasks allocate is reserved, and what is reserved is
  within the budget. With `GateInvariant`, whose `GateInv` adds to the two that a caller past
  its first try has a pool that exists (`PoolIsKnown`), that only a holder has memory, and no
  more than it reserved (`UsesWhatItHolds`), and that a counter stays below the budget
  (`WithinBudget`). The step of a caller takes one term out of a sum or puts it in
  (`SumTakesOut`), and leaves the others alone (`SumOfTheSame`).

### The sources: `IntakeProofs`

From `IntakeAssumption`, `DiscoverAssumption` and `DownloadAssumption` (finite sets, queues
of at least one, markers that are no videos, at least one channel): any catalogue, folder,
job store, number of workers and size of the queues.

* `IntakeTypeCorrect` and `IntakeCompletes`. The end of a stream is a chain
  of ends: `IntakeInv` says for each link what it has finished when it ends. What is
  `PENDING` is tracked by the generator, a queue, a worker or a coroutine
  (`PendingTracked`); which variables belong to which source (`ModeShape`); the feeder, the
  workers and the sentinels (`FeederShape`, `WorkShape`, `ResultShape`); the producers and
  their closer (`FoundShape`); what was yielded has a row (`Registered`); and how far the scan of
  the folder has come (`ScanShape`): what is left of it is a suffix, and every file before it that
  owns its stem is the one its row names.
* `IntakeImplementsDownload`. `Download` lets its source yield what it
  has not yet seen, so the content is that nothing is yielded twice, although channels share
  videos: `Fresh`, that what is on its way through the generator is not yielded again.
* `PendingStaysOnItsWay`: a `PENDING` row is in exactly one place. `PendingTracked` says "in one
  at least"; `Tally` counts: a video is as often on its way (the rest of the listing, the hand
  of the generator, the work queue, a worker, the result queue, the consumer) as its row is
  `PENDING`, once or not at all, it is answered once at most, and then its row is no longer
  `PENDING`.

### The output directory: `OutputProofs`

From `OutputAssumption`: `OutputFinalNamesAreWhole`,
`OutputManifestIsCurrent`, `OutputJsonHasAudio` and `OutputOnlyUnwantedIsDeleted`, for any
number of segments, kills, resets and commands. `OutputInv` adds what a coroutine at each
stage has written (`StageShape`), which command may have segments in work or to be deleted
(`CommandShape`), whence metadata without audio comes (`JsonShape`, `LeftOver`), and when
the manifests are behind the directory (`ManifestShape`).

### Folds: `FoldProofs`

The loops of the pure functions are folds, and `MapThenFoldSet` is defined by `CHOOSE`ing a
function that satisfies recursive equations. The library's induction theorems take an operator
as a parameter and cannot be used, so induction is by a least counterexample: a set of numbers
has a least member (`LeastNatural`), a set of finite sets a minimal one (`LeastSubset`). This
gives the existence and uniqueness of the chosen function (`SetRecursion`, `SolutionIsUnique`),
the sums of the gate, the greatest element of a set, and for `FoldLeft` a sequence of partial
results (`FoldPrefixes`): `part[0]` is the base, `part[k]` is one turn of the loop applied to
`part[k - 1]`, and `part[n]` is the result. What a loop does is then an invariant of `part`.

### Segmentation: `VadProofs`

From `VadAssumption` and `UnitAssumption` (lengths are natural numbers, in units in which equal
parts are whole): recordings of any number of regions, any cap (0, which never splits, too), any
overlap, and any duration, however far it falls short of what was found.

* `VadTypeOK`, `VadCutsAreCapped`, `VadSpeechIsCovered`, `VadWordsAreHeardWhole` and
  `VadNothingLeftToMerge`, from `Detected`: regions are in order and not empty. The chunks
  that `merge_speech_regions` has made of the first k regions begin with
  the first and end with the k-th of them, cover all between, and no two neighbours could have
  been one (`MergedFacts`). `SplitSpanFills` shows that the parts of a long chunk are as long as
  the cap at most, that there is a whole one, and that they fill the chunk; `CutFacts` that the
  parts of all chunks together are in order and meet only inside a chunk; `OverlapFacts` what
  padding adds to each side. For `VadWordsAreHeardWhole` the last cut that does not begin after the middle of the
  stretch has it: it reaches back over the beginning, and beyond the end, since the moment at
  which it would end is speech that a later cut has.

### Transcription and rechunking: `TranscriptProofs`

From these assumptions and `StudiesAssumption` (times are natural numbers): every recording,
whatever is said in it, whichever way its super-chunks hear it, any turns and configuration.
`TranscriptInvariant` is only about shapes, since what the segments are is not a matter of
steps: all of `rechunk_video` runs in one.

* `TranscriptImplementsVad` (`Spec` is that of `Vad`) and, by it, `SuperchunksOfTranscripts`: the
  properties of `VadProofs` hold of the super-chunks the words are heard in.
* `SegmentsDivideTheWords`: the segments are the merged words in their order, each word in exactly
  one segment and no segment empty. `WordsAreDivided` is stated in the module of the proofs.
* `SegmentsEndAtSentences`, `LongSegmentsAreSentences`, `SegmentsHaveOneSpeaker`: `SentencesStayWhole`,
  `OnlySentencesExceed` and `OneSpeakerWhenLabelled`.
* `CutsOfOrderedWords`: `CutsHaveAReason`, provided that the merged words begin in the order in
  which they come (`StartsInOrder`). Without it a segment to which `_enforce_min_duration` adds another
  in front may begin later than before, so that the next sentence would fit. Not every state of
  the run meets the hypothesis (a late and short word of `Connected` or `Brief` may be heard to
  begin after the next), and TLC checks `CutsHaveAReason` there as well. `CutsOfWordsInStep`
  and `CutsOfExactWords` derive it from what is heard (below).
* `CrossTalkIsRejected`: `OverlapIsRejected`.

The argument for segments goes along with the loops. Sentences, packed segments and the
segments that are left in the end are each the words cut at fewer and fewer places. `Divides` says
so of the pieces made so far and of the places, with `Fine` for each piece: it ends at a
boundary, is a single sentence or no longer than the maximum, and has one voice if words have
speakers and `split` is on. `PackedUpTo` adds that the loop knows who speaks in the piece it
is at, `Carries` what `_enforce_min_duration` holds back for the next piece. `Apart` is that each
cut has a `Reason`: the first sentence beyond it is too far away, or the dominant speakers
differ. `DominantOfFirst` and `DominantOfSecond` say who is dominant in two parts put together,
by counting; from them a merge leaves the reason of the cut before
(`MergeKeepsBefore`) and, with starts in order, of the cut after (`MergeKeepsAfter`).
For cross-talk, `_find_overlap_regions` sweeps over the sorted starts and ends of turns. Between
two neighbouring points the set of those who talk does not change (its cell is crowded or not), a
region is a maximal run of crowded cells (`RegionsAre`, `EndFacts`), and so two people talk at a moment
if and only if a region has it (`CrowdedAt`).

For the words themselves the loop of `merge_superchunk_words` is followed once more, now with
`said`, the number of a word, which the model knows and the program does not. `EveryWordOnce` is
not a consequence of the code alone: `_resolve_overlap` takes two words with the same text and more
than 40 % of overlap for one, nothing but what people say keeps two different words from being
like that, and a late and short word may be heard after the one that follows it. The property
names how much has to be supposed, and the theorem shows that it is enough:

* `HeardWordsOnce`: `EveryWordOnce`, in every reachable state, and so whenever `ToldApart` (two words
  with the same text are not heard at times so close) and `HeardInOrder` (no word is heard to begin
  before an earlier one begins, or to end before it ends). These speak of what was heard and of
  nothing that the program makes of it. There need be no pause between words, and alignment may be
  late: two super-chunks may hear a word at a seam differently, or only one of them.
* `CutsOfWordsInStep`: `CutsHaveAReason` with `HeardInOrder` and `HeardInStep` (no super-chunk hears
  a word within the span at which another one hears it). `CutsOfExactWords`: with `HeardInOrder`, if
  alignment is exact and no word is longer than the overlap. A super-chunk that cuts off both
  ends of a word would have to be shorter than the word, and one that ends before
  another is longer than the overlap (`ChunksAreLong`).

`HeardInChunks` is the inductive invariant that they rest on: what a super-chunk hears of a word is
the word, in time or late, cut off at the edges of the super-chunk (`SpanFacts`). Of one turn of the
loop, `Resolved` says what becomes of the words in the middle of two super-chunks and `Gathered` what
of all: none is lost, none is new, and they are in order and each there once if they were before.
`Collected` says so of the first k super-chunks. It needs that nothing merged so far ends after the
super-chunk before, which holds since only the last super-chunk may end early (`ChunksEndInOrder`:
the padding of the others is the same).

### What is only model-checked

* Everything under fairness (`PendingIsSettled`, `RunEnds`, `EveryTaskAnswered`, `WorkersRecover`,
  `FittingIsAdmitted`, `StreamEndsUnlessRaised`): liveness and `ENABLED` are out of the prover's
  reach.
* That the suppositions of these theorems are met by recordings that matter: in the run
  `Transcript` `ToldApart` holds in every state; `HeardInOrder`, `StartsInOrder` and
  `HeardInStep` hold in states of connected and late speech too, and fail in others. `Timely`
  is an assumption of the run `AsrPool` and of `AsrPoolNoTaskLost`.
* `CutsHaveAReason` where words are heard out of order, and that the documentation is contradicted
  where section 3 says so: TLC shows the behaviour.

## 5. Not modelled, and why

* `viewer.py` only reads; `config.py` is declarative validation; `transcribe_only.py`
  is a sequential loop without state; `standardize.py` is one call of ffmpeg, a stage
  that succeeds or fails in `Pipeline`.
* Exceptions raised by the job store itself (disk full, a locked database), and a process
  pool that breaks: every video after it fails, which a stage that fails already is.
* A `manifest` or `filter-speakers` that runs beside a `run`: both write
  `manifest.jsonl.tmp`. Commands follow one another in `Output`.
* A `run` that raises before it rebuilds the manifests (`orchestrator.py` 137): `EndRun` always
  does, and in `Output` only a kill leaves them behind.
* Worker processes that outlive a main process killed by a signal.
* An id with `[` in it, which the globs of `package.py` would take for a pattern.
* `discover_all` without channels, which ends at once (`DiscoverAssumption` has one).
* `recover_stale_running` with an age: no caller passes one.
* The content of audio, the models, and all durations beyond their order in time.

## 6. Plan

Done in this order: the ASR pool (the most intricate concurrency), the orchestrator with its
store (the heart of the program, and what the project's documentation promises about
`resume`), the gate and the download stage, then the pure functions from VAD to the filter,
the sources in front of the download stage and the output directory behind the
orchestrator, and the proofs in the same order. What is left:

1. `Output`: `manifest` and `filter-speakers` beside a run.
2. `Pipeline`: a job store that raises; workers that outlive a killed main process.
3. Proofs: the half of `EveryWordOnce` that needs no supposition, that no heard word is lost
   unless it is matched with another; `CutsHaveAReason` where late words are heard within
   one another, as in `Seams`.
