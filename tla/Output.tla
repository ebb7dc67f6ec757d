------------------------------- MODULE Output -------------------------------
(***************************************************************************)
(* The output directory, file by file (stages/package.py, the end of       *)
(* run_pipeline_async, _finalize_segment, and the commands manifest and    *)
(* filter-speakers of cli.py).                                             *)
(*                                                                         *)
(* Pipeline has one step for each file that is packaged.  Here a step is   *)
(* one system call that a kill can come after: a file is opened, and has a *)
(* part of its content; it is complete and renamed; it is unlinked.  The   *)
(* segments are those of one video that is processed again after a reset,  *)
(* with another outcome for each segment; segments are handled             *)
(* concurrently, commands one after another (one process per job store,    *)
(* db.py 237-239), and a kill takes the whole process group.               *)
(***************************************************************************)
EXTENDS Naturals, FiniteSets

CONSTANTS
    Segment,            \* the indices of the segments
    Speaker,            \* speaker labels, UNKNOWN_SPEAKER among them
    MaxKills, MaxResets, MaxCommands

\* The content of a file that is not there, of one that is not complete, and
\* of one that is.
Absent == "absent"
Part == "part"
Whole == "whole"

ASSUME OutputAssumption ==
    /\ Segment \subseteq Nat
    /\ Absent \notin Speaker /\ Part \notin Speaker
    /\ MaxKills \in Nat /\ MaxResets \in Nat /\ MaxCommands \in Nat

VARIABLES
    audio,              \* the content of <id>.<format> for each segment
    json,               \* of <id>.json: the speaker it names
    tmp,                \* the names <id>.<format>.tmp and <id>.json.tmp that exist
    manifest, csv,      \* of manifest.jsonl and manifest.csv: the segments they list
    row,                \* the status of the segments in the job store
    stage,              \* the stage of each segment's coroutine
    command,            \* where the running command is; "none" if there is none
    doomed,             \* the segments filter-speakers has still to delete
    kills, resets, commands,
    \* history of the directory, which the program does not have
    stale,              \* the last kill came after the last complete rebuild
    outlived,           \* segments whose files were there at a reset
    torn,               \* segments a killed filter-speakers was deleting
    excused             \* segments whose speaker some filter-speakers did not keep

files == <<audio, json, tmp, manifest, csv>>
counters == <<kills, resets, commands>>
history == <<stale, outlived, torn, excused>>
vars == <<files, row, stage, command, doomed, counters, history>>

Init ==
    /\ audio = [s \in Segment |-> Absent]
    /\ json = [s \in Segment |-> Absent]
    /\ tmp = {}
    /\ manifest = {Absent} /\ csv = {Absent}
    /\ row = [s \in Segment |-> Absent]
    /\ stage = [s \in Segment |-> "none"]
    /\ command = "none"
    /\ doomed = {}
    /\ kills = 0 /\ resets = 0 /\ commands = 0
    /\ stale = TRUE
    /\ outlived = {} /\ torn = {} /\ excused = {}

Present(file) == {s \in Segment : file[s] # Absent}

-----------------------------------------------------------------------------
(* A run: rechunked segments that have no row are worked on, all at once. *)

StartRun ==
    /\ command = "none" /\ commands < MaxCommands
    /\ commands' = commands + 1
    /\ command' = "run"
    /\ IF \A s \in Segment : row[s] = Absent
       THEN /\ row' = [s \in Segment |-> "RUNNING"]
            /\ stage' = [s \in Segment |-> "new"]
       ELSE UNCHANGED <<row, stage>>
    /\ UNCHANGED <<files, doomed, kills, resets, history>>

Goto(s, there) == stage' = [stage EXCEPT ![s] = there]
Settle(s, status) == row' = [row EXCEPT ![s] = status] /\ Goto(s, "none")

\* Mutant of OpenTmp: ffmpeg and json write to the final name.
OpenTmpInPlace(s, kind) ==
    IF kind = "audio" THEN audio' = [audio EXCEPT ![s] = Part] /\ UNCHANGED <<json, tmp>>
    ELSE json' = [json EXCEPT ![s] = Part] /\ UNCHANGED <<audio, tmp>>

\* slice_segment_audio and _atomic_write_text write under another name ...
OpenTmp(s, kind) == tmp' = tmp \union {<<s, kind>>} /\ UNCHANGED <<audio, json>>

SliceOpens(s) ==
    /\ stage[s] = "new"
    /\ OpenTmp(s, "audio")
    /\ Goto(s, "slicing")
    /\ UNCHANGED <<manifest, csv, row, command, doomed, counters, history>>

\* ... and rename what is complete.
SliceRenames(s) ==
    /\ stage[s] = "slicing"
    /\ audio' = [audio EXCEPT ![s] = Whole]
    /\ tmp' = tmp \ {<<s, "audio">>}
    /\ Goto(s, "filter")
    /\ UNCHANGED <<json, manifest, csv, row, command, doomed, counters, history>>

\* ffmpeg fails, or the filter raises: nothing is removed.
SegmentFails(s) ==
    /\ stage[s] \in {"slicing", "filter"}
    /\ Settle(s, "FAILED")
    /\ UNCHANGED <<files, command, doomed, counters, history>>

FilterRejects(s) ==
    /\ stage[s] = "filter"
    /\ audio' = [audio EXCEPT ![s] = Absent]
    /\ Settle(s, "FAILED")
    /\ UNCHANGED <<json, tmp, manifest, csv, command, doomed, counters, history>>

\* package_segment: the audio is there, and the JSON is written.
PackageOpens(s) ==
    /\ stage[s] = "filter"
    /\ OpenTmp(s, "json")
    /\ Goto(s, "packaging")
    /\ UNCHANGED <<manifest, csv, row, command, doomed, counters, history>>

\* The row follows before anything else happens to the segment.
PackageRenames(s) ==
    /\ stage[s] = "packaging"
    /\ \E speaker \in Speaker : json' = [json EXCEPT ![s] = speaker]
    /\ tmp' = tmp \ {<<s, "json">>}
    /\ Goto(s, "commit")
    /\ UNCHANGED <<audio, manifest, csv, row, command, doomed, counters, history>>

\* It raised, with the file open: nobody handles the exception, and the row
\* stays RUNNING.
PackageRaises(s) ==
    /\ stage[s] = "packaging"
    /\ Goto(s, "none")
    /\ UNCHANGED <<files, row, command, doomed, counters, history>>

SegmentDone(s) ==
    /\ stage[s] = "commit"
    /\ Settle(s, "DONE")
    /\ UNCHANGED <<files, command, doomed, counters, history>>

EndRun ==
    /\ command = "run"
    /\ \A s \in Segment : stage[s] = "none"
    /\ command' = "manifest"
    /\ UNCHANGED <<files, row, stage, doomed, counters, history>>

-----------------------------------------------------------------------------
(* The commands manifest and filter-speakers. *)

StartManifest ==
    /\ command = "none" /\ commands < MaxCommands
    /\ commands' = commands + 1
    /\ command' = "manifest"
    /\ UNCHANGED <<files, row, stage, doomed, kills, resets, history>>

\* Mutant of Unwanted: every segment with a label is deleted.
UnwantedInverted(speakers) == {s \in Present(json) : json[s] \in speakers}

\* The segments whose speaker is not in --keep.
Unwanted(speakers) == {s \in Present(json) : json[s] \notin speakers}

\* The preview finds nothing to remove: the command returns at once.
\* (--dry-run changes nothing either.)
FilterNothing(speakers) ==
    /\ command = "none" /\ commands < MaxCommands
    /\ commands' = commands + 1
    /\ Unwanted(speakers) = {}
    /\ UNCHANGED <<files, row, stage, command, doomed, kills, resets, history>>

StartFilter(speakers) ==
    /\ command = "none" /\ commands < MaxCommands
    /\ commands' = commands + 1
    /\ Unwanted(speakers) # {}
    /\ command' = "filter"
    /\ doomed' = Unwanted(speakers)
    /\ excused' = excused \union {s \in Present(json) : json[s] \notin speakers}
    /\ UNCHANGED <<files, row, stage, kills, resets, stale, outlived, torn>>

\* Mutant of Names: the metadata is left.
NamesAudioOnly(s) ==
    (IF audio[s] # Absent THEN {<<"final", "audio">>} ELSE {})
    \union {<<"tmp", kind>> : kind \in {k \in {"audio", "json"} : <<s, k>> \in tmp}}

\* The names that glob(f"{seg_id}.*") finds.
Names(s) ==
    (IF audio[s] # Absent THEN {<<"final", "audio">>} ELSE {})
    \union (IF json[s] # Absent THEN {<<"final", "json">>} ELSE {})
    \union {<<"tmp", kind>> : kind \in {k \in {"audio", "json"} : <<s, k>> \in tmp}}

\* Segments are deleted in order: the one whose turn it is.
Turn == {s \in doomed : \A t \in doomed : s <= t}

\* One unlink; the names of a segment come in any order.
Unlink ==
    /\ command = "filter"
    /\ \E s \in Turn : \E name \in Names(s) :
        /\ audio' = IF name = <<"final", "audio">> THEN [audio EXCEPT ![s] = Absent] ELSE audio
        /\ json' = IF name = <<"final", "json">> THEN [json EXCEPT ![s] = Absent] ELSE json
        /\ tmp' = IF name[1] = "tmp" THEN tmp \ {<<s, name[2]>>} ELSE tmp
        /\ doomed' = IF Names(s) = {name} THEN doomed \ {s} ELSE doomed
    /\ UNCHANGED <<manifest, csv, row, stage, command, counters, history>>

\* Mutant of EndFilter: the manifest is not rebuilt.
EndFilterAtOnce ==
    /\ command = "filter" /\ doomed = {}
    /\ command' = "none"
    /\ UNCHANGED <<files, row, stage, doomed, counters, history>>

EndFilter ==
    /\ command = "filter" /\ doomed = {}
    /\ command' = "manifest"
    /\ UNCHANGED <<files, row, stage, doomed, counters, history>>

\* write_manifest: a temporary file, and a rename.
WriteManifest ==
    /\ command = "manifest"
    /\ manifest' = Present(json)
    /\ command' = "csv"
    /\ UNCHANGED <<audio, json, tmp, csv, row, stage, doomed, counters, history>>

\* write_csv opens the file itself, which empties it.
OpenCsv ==
    /\ command = "csv"
    /\ csv' = {Part}
    /\ command' = "rows"
    /\ UNCHANGED <<audio, json, tmp, manifest, row, stage, doomed, counters, history>>

WriteCsv ==
    /\ command = "rows"
    /\ csv' = Present(json)
    /\ command' = "none"
    /\ stale' = FALSE
    /\ UNCHANGED <<audio, json, tmp, manifest, row, stage, doomed, counters,
                   outlived, torn, excused>>

-----------------------------------------------------------------------------

Kill ==
    /\ command # "none" /\ kills < MaxKills
    /\ kills' = kills + 1
    /\ command' = "none"
    /\ stage' = [s \in Segment |-> "none"]
    /\ torn' = torn \union Turn
    /\ doomed' = {}
    /\ stale' = TRUE
    /\ UNCHANGED <<files, row, resets, commands, outlived, excused>>

\* jinpipe reset: the rows go, the files stay.
Reset ==
    /\ command = "none" /\ resets < MaxResets
    /\ \E s \in Segment : row[s] # Absent
    /\ resets' = resets + 1
    /\ row' = [s \in Segment |-> Absent]
    /\ outlived' = outlived \union Present(json)
    /\ excused' = {}
    /\ UNCHANGED <<files, stage, command, doomed, kills, commands, stale, torn>>

SegmentNext(s) ==
    \/ SliceOpens(s) \/ SliceRenames(s) \/ SegmentFails(s) \/ FilterRejects(s)
    \/ PackageOpens(s) \/ PackageRenames(s) \/ PackageRaises(s) \/ SegmentDone(s)

Next ==
    \/ StartRun \/ EndRun
    \/ \E s \in Segment : SegmentNext(s)
    \/ StartManifest
    \/ \E speakers \in SUBSET Speaker \ {{}} : FilterNothing(speakers) \/ StartFilter(speakers)
    \/ Unlink \/ EndFilter
    \/ WriteManifest \/ OpenCsv \/ WriteCsv
    \/ Kill \/ Reset

Spec == Init /\ [][Next]_vars

-----------------------------------------------------------------------------
(* Properties *)

\* package.py 3-6: whatever is killed when, no half-written file has the
\* final name of a slice or of its metadata.
FinalNamesAreWhole ==
    \A s \in Segment : audio[s] # Part /\ json[s] # Part

\* package.py 6-11, cli.py 158: when no command runs, and none was killed since
\* the directory was last rebuilt, both manifests list exactly its segments.
ManifestIsCurrent ==
    command = "none" /\ ~stale => manifest = Present(json) /\ csv = manifest

\* package.py 107-143, orchestrator.py 415-418: metadata without audio is left
\* over from before a reset or from a filter-speakers that was killed.
JsonHasAudio ==
    command # "filter" => \A s \in Present(json) : audio[s] = Whole \/ s \in outlived \union torn

\* cli.py 158, package.py 224-243: the files of a segment that is DONE are there
\* unless filter-speakers was told not to keep the speaker they name.
OnlyUnwantedIsDeleted ==
    \A s \in Segment : row[s] = "DONE" =>
        \/ audio[s] = Whole /\ json[s] # Absent
        \/ s \in excused

=============================================================================
