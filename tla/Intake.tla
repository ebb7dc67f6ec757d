------------------------------- MODULE Intake -------------------------------
(***************************************************************************)
(* Where videos come from: the two sources of run_pipeline_async and what  *)
(* the loop over download_stream does with them.                           *)
(*                                                                         *)
(* In YouTube mode the generator _pending_and_fresh_videos, which the      *)
(* feeder of Download pulls, yields the PENDING rows of the job store, the *)
(* videos named in the configuration and those that Discover finds; it     *)
(* registers what is new and skips what is known.  In local mode the       *)
(* consumer pulls local_results and pending_and_fresh_local_files of       *)
(* stages/local.py directly, one file at a time.                           *)
(*                                                                         *)
(* A generator runs when its consumer asks for the next item; each item it *)
(* takes or skips is a step here.                                          *)
(***************************************************************************)
EXTENDS Discover, Download

CONSTANTS
    VideoUrls,      \* the ids in cfg.sources.video_urls, in order
    Folder,         \* the stems of the audio files of local_dir, sorted by file
    KnownRows,      \* the job stores a run may start with
    KnownFile       \* the file of Folder that an earlier run's row names, or 0

ASSUME IntakeAssumption ==
    /\ IsFiniteSet(Video)
    /\ Catalog \in [Channel -> Seq(Video)]
    /\ VideoUrls \in Seq(Video) /\ Folder \in Seq(Video)
    /\ DiscoverError \notin Video /\ NoMore \notin Video
    /\ Sentinel \notin Outcome
    /\ KnownRows \subseteq [Video -> {"absent", "PENDING", "RUNNING", "DONE", "FAILED"}]
    /\ KnownFile \in [Video -> 0..Len(Folder)]

VARIABLES
    mode,           \* "youtube" or "local" (sources.local_dir is set)
    rows,           \* the status of each video in the job store
    file,           \* the file of Folder that its url names; 0 names something else
    place,          \* which part of its source the generator is in
    upcoming,       \* what is left of a list it walks over
    hand            \* the item it has yielded and that is not queued or answered

intakeVars == <<mode, rows, file, place, upcoming, hand>>
allVars == <<vars, discoverVars, intakeVars>>

Pending == {v \in Video : rows[v] = "PENDING"}

IntakeTypeOK ==
    /\ TypeOK
    /\ DiscoverTypeOK
    /\ mode \in {"youtube", "local"}
    /\ rows \in [Video -> {"absent", "PENDING", "RUNNING", "DONE", "FAILED"}]
    /\ file \in [Video -> 0..Len(Folder)]
    /\ place \in {"rows", "urls", "channels", "folder", "end"}
    /\ upcoming \in Seq(Video)
    /\ hand \in Video \union {NoVideo}

\* list_videos(status="PENDING"): each row once, in whatever order.
Listings(S) ==
    {list \in [1..Cardinality(S) -> S] : IsInjective(list) /\ ToSet(list) = S}

IntakeInit ==
    /\ Init /\ DiscoverInit
    /\ mode \in {"youtube", "local"}
    /\ rows \in KnownRows
    /\ file = [v \in Video |-> IF rows[v] = "absent" THEN 0 ELSE KnownFile[v]]
    /\ place = "rows"
    /\ upcoming \in Listings(Pending)
    /\ hand = NoVideo

-----------------------------------------------------------------------------
(* What both sources do *)

\* The generator is asked for its next item.
Asked == hand = NoVideo /\ stream = "open" /\ (mode = "youtube" => feeder = "yielding")

YieldPending ==
    /\ Asked /\ place = "rows" /\ upcoming # <<>>
    /\ hand' = Head(upcoming)
    /\ upcoming' = Tail(upcoming)
    /\ UNCHANGED <<mode, rows, file, place, vars, discoverVars>>

\* Mutant of Register: what is known is yielded again.
RegisterAgain(v, names) ==
    /\ hand' = v
    /\ rows' = [rows EXCEPT ![v] = "PENDING"]
    /\ file' = [file EXCEPT ![v] = names]

\* get_video, add_video and yield: known videos are skipped.
Register(v, names) ==
    IF rows[v] # "absent" THEN UNCHANGED <<hand, rows, file>>
    ELSE /\ hand' = v
         /\ rows' = [rows EXCEPT ![v] = "PENDING"]
         /\ file' = [file EXCEPT ![v] = names]

\* The file that the scan of the folder has come to.
NextFile == IF place = "folder" THEN Len(Folder) - Len(upcoming) + 1 ELSE 0

\* The next of the configured videos, or of the files of the folder.
YieldListed ==
    /\ Asked /\ place \in {"urls", "folder"} /\ upcoming # <<>>
    /\ Register(Head(upcoming), NextFile)
    /\ upcoming' = Tail(upcoming)
    /\ UNCHANGED <<mode, place, vars, discoverVars>>

-----------------------------------------------------------------------------
(* YouTube mode *)

\* All PENDING rows are yielded; ad_hoc_videos reads all of video_urls.
BeginUrls ==
    /\ Asked /\ mode = "youtube" /\ place = "rows" /\ upcoming = <<>>
    /\ place' = "urls"
    /\ upcoming' = VideoUrls
    /\ UNCHANGED <<mode, rows, file, hand, vars, discoverVars>>

\* ... and raises on an entry without an id (if SourceRaises).
UrlsRaise ==
    /\ Asked /\ mode = "youtube" /\ place = "rows" /\ upcoming = <<>>
    /\ FeederRaises
    /\ UNCHANGED <<intakeVars, discoverVars>>

\* discover_all creates its producers.
BeginChannels ==
    /\ Asked /\ place = "urls" /\ upcoming = <<>>
    /\ place' = "channels"
    /\ UNCHANGED <<mode, rows, file, upcoming, hand, vars, discoverVars>>

Discovering ==
    /\ place = "channels"
    /\ DiscoverStep
    /\ UNCHANGED <<vars, intakeVars>>

TakeFound ==
    /\ Asked /\ place = "channels"
    /\ foundQ # <<>> /\ Head(foundQ) # NoMore
    /\ foundQ' = Tail(foundQ)
    /\ IF Head(foundQ) = DiscoverError THEN UNCHANGED <<hand, rows, file>>
       ELSE Register(Head(foundQ), 0)
    /\ UNCHANGED <<mode, place, upcoming, producer, found, listed, vars>>

\* The sentinel of discover_all ends the generator, and so the source of feeder.
EndChannels ==
    /\ Asked /\ place = "channels"
    /\ foundQ # <<>> /\ Head(foundQ) = NoMore
    /\ foundQ' = Tail(foundQ)
    /\ FeederEnds
    /\ place' = "end"
    /\ UNCHANGED <<mode, rows, file, upcoming, hand, producer, found, listed>>

PutHand ==
    /\ mode = "youtube" /\ hand # NoVideo
    /\ PutItem(hand)
    /\ hand' = NoVideo
    /\ UNCHANGED <<mode, rows, file, place, upcoming, discoverVars>>

Downloading ==
    /\ mode = "youtube"
    /\ FeederPutsSentinel \/ Closer \/ \E w \in Worker : WorkerGets(w) \/ WorkerReports(w)
    /\ UNCHANGED <<intakeVars, discoverVars>>

\* The loop of run_pipeline_async, with the row it writes.
ConsumeResult ==
    /\ mode = "youtube"
    /\ Consume
    /\ rows' = IF Head(resultQ) = Sentinel THEN rows
               ELSE [rows EXCEPT ![Head(resultQ).video] =
                        IF Head(resultQ).ok THEN "RUNNING" ELSE "FAILED"]
    /\ UNCHANGED <<mode, file, place, upcoming, hand, discoverVars>>

-----------------------------------------------------------------------------
(* Local mode *)

BeginFolder ==
    /\ Asked /\ mode = "local" /\ place = "rows" /\ upcoming = <<>>
    /\ place' = "folder"
    /\ upcoming' = Folder
    /\ UNCHANGED <<mode, rows, file, hand, vars, discoverVars>>

\* The consumer is handed v.
Answer(v) ==
    /\ answered' = [answered EXCEPT ![v] = @ + 1]
    /\ unseen' = unseen \ {v}
    /\ UNCHANGED <<feeder, sentinels, workQ, resultQ, busy, gone, stream>>

\* path.is_file() fails: the row is of another source, or the file has gone
\* since an earlier run or since the scan.
FileMissing ==
    /\ mode = "local" /\ hand # NoVideo
    /\ Answer(hand)
    /\ rows' = [rows EXCEPT ![hand] = "FAILED"]
    /\ hand' = NoVideo
    /\ UNCHANGED <<raw, mode, file, place, upcoming, discoverVars>>

\* ffprobe has ended, in whatever way: the file is handed over.
FileProbed ==
    /\ mode = "local" /\ hand # NoVideo
    /\ Answer(hand)
    /\ raw' = raw \union {hand}
    /\ rows' = [rows EXCEPT ![hand] = "RUNNING"]
    /\ hand' = NoVideo
    /\ UNCHANGED <<mode, file, place, upcoming, discoverVars>>

EndFolder ==
    /\ Asked /\ place = "folder" /\ upcoming = <<>>
    /\ place' = "end"
    /\ stream' = "ended"
    /\ UNCHANGED <<unseen, feeder, sentinels, workQ, resultQ, busy, gone, answered, raw,
                   mode, rows, file, upcoming, hand, discoverVars>>

-----------------------------------------------------------------------------

\* The coroutine of a video ends; its row says how.
ProcessVideo(v) ==
    /\ Process(v)
    /\ \E status \in {"DONE", "FAILED"} : rows' = [rows EXCEPT ![v] = status]
    /\ UNCHANGED <<mode, file, place, upcoming, hand, discoverVars>>

Generator ==
    \/ YieldPending \/ YieldListed
    \/ BeginUrls \/ UrlsRaise \/ BeginChannels \/ TakeFound \/ EndChannels \/ PutHand
    \/ BeginFolder \/ FileMissing \/ FileProbed \/ EndFolder

IntakeNext ==
    \/ Generator
    \/ Discovering
    \/ Downloading
    \/ ConsumeResult
    \/ \E v \in Video : ProcessVideo(v)

IntakeSpec == IntakeInit /\ [][IntakeNext]_allVars

\* Every coroutine that can go on does; listings, delays and downloads end.
IntakeFairness ==
    /\ WF_allVars(Generator)
    /\ \A c \in Channel :
        WF_allVars(Discovering /\ (StartListing(c) \/ List(c) \/ EndDelay(c) \/ PutFound(c)))
    /\ WF_allVars(Discovering /\ CloseDiscovery)
    /\ \A w \in Worker :
        WF_allVars(Downloading /\ (WorkerGets(w) \/ WorkerReports(w)))
    /\ WF_allVars(Downloading /\ (FeederPutsSentinel \/ Closer))
    /\ WF_allVars(ConsumeResult)

IntakeFairSpec == IntakeSpec /\ IntakeFairness

-----------------------------------------------------------------------------
(* Properties *)

\* orchestrator.py 58-73, download.py 134-156: a row that is PENDING is in
\* exactly one place on its way to the consumer (still to be yielded, in the
\* generator's hand, queued, being downloaded, reported), and nothing else
\* is on the way; what is being processed is RUNNING.
PendingIsOnItsWay ==
    LET ahead(v) == IF place = "rows" /\ Contains(upcoming, v) THEN 1 ELSE 0
        held(v) == IF hand = v THEN 1 ELSE 0
    IN  \A v \in Video :
            /\ ahead(v) + held(v) + (Places(v) - answered[v])
                 = (IF rows[v] = "PENDING" THEN 1 ELSE 0)
            /\ answered[v] <= 1
            /\ v \in raw => rows[v] = "RUNNING"

\* What the run was asked to process.
Wanted ==
    IF mode = "local" THEN ToSet(Folder)
    ELSE ToSet(VideoUrls) \union UNION {ToSet(Catalog[c]) : c \in listed}

\* No other file of the folder has the stem of the i-th, and a row that an
\* earlier run left under it names this file.
OwnsItsStem(i) ==
    /\ \A j \in DOMAIN Folder : Folder[j] = Folder[i] => j = i
    /\ KnownFile[Folder[i]] = i

\* orchestrator.py 58-62, 112, README 172-174: when the stream has ended, no
\* video of the job store is left PENDING, everything wanted is in the job
\* store, and no worker is left behind: no sentinel has overtaken anything.
\* In local mode every file of the folder has a row that names it, unless its
\* stem is not its own; of files with one stem only one is handed over
\* (EveryFileIsProcessed).
IntakeIsComplete ==
    stream = "ended" =>
        /\ Pending = {}
        /\ \A v \in Wanted : rows[v] # "absent"
        /\ mode = "youtube" => gone = Worker /\ resultQ = <<>> /\ foundQ = <<>>
        /\ mode = "local" =>
             \A i \in DOMAIN Folder : OwnsItsStem(i) => file[Folder[i]] = i

\* README.md 141, config.py 14-16, default.yaml 8-11: every audio file directly
\* inside the folder is processed.
EveryFileIsProcessed ==
    stream = "ended" /\ mode = "local" => \A i \in DOMAIN Folder : file[Folder[i]] = i

\* The queues and the generator use Download as it is meant to be used: its
\* source yields nothing twice, and nothing happens that is not a step of it.
ImplementsDownload == [][mode = "youtube" => Next]_vars

=============================================================================
