---------------------------- MODULE OutputProofs ----------------------------
(***************************************************************************)
(* Theorems about the output directory, for every set of segments and      *)
(* speakers and every number of kills, resets and commands: no final name  *)
(* holds a part of a file, both manifests are current when nothing was     *)
(* killed, metadata without audio has one of two causes, and only what     *)
(* filter-speakers was told not to keep is deleted.                        *)
(***************************************************************************)
EXTENDS Output, TLAPS

-----------------------------------------------------------------------------
(* The inductive invariant. *)

Stages == {"none", "new", "slicing", "filter", "packaging", "commit"}

\* Under a final name there is nothing or a whole file.
FileShape ==
    /\ audio \in [Segment -> {Absent, Whole}]
    /\ json \in [Segment -> Speaker \union {Absent}]
    /\ row \in [Segment -> {Absent, "RUNNING", "DONE", "FAILED"}]
    /\ stage \in [Segment -> Stages]
    /\ doomed \subseteq Segment

\* Segments are worked on in a run only, and deleted in filter-speakers only.
CommandShape ==
    /\ \A s \in Segment : stage[s] # "none" => command = "run"
    /\ command # "filter" => doomed = {}
    /\ doomed \subseteq excused

\* What a coroutine has written is still there when it goes on, and its
\* segment is RUNNING.
StageShape ==
    \A s \in Segment :
        /\ stage[s] \in {"filter", "packaging", "commit"} => audio[s] = Whole
        /\ stage[s] = "commit" => json[s] # Absent
        /\ stage[s] # "none" => row[s] = "RUNNING"

\* Metadata of a segment that is not packaged yet outlived a reset.
LeftOver ==
    \A s \in Segment :
        json[s] # Absent /\ (row[s] = Absent \/ stage[s] \in {"new", "slicing", "filter", "packaging"})
            => s \in outlived

\* Metadata has its audio, but for the segment that is being deleted.
JsonShape ==
    \A s \in Segment : json[s] # Absent => audio[s] = Whole \/ s \in outlived \union torn \union Turn

\* Between the rebuild of one manifest and that of the other no segment changes.
ManifestShape ==
    /\ command \in {"csv", "rows"} => manifest = Present(json)
    /\ ManifestIsCurrent

OutputInv ==
    /\ FileShape
    /\ CommandShape
    /\ StageShape
    /\ LeftOver
    /\ JsonShape
    /\ ManifestShape
    /\ OnlyUnwantedIsDeleted

-----------------------------------------------------------------------------

LEMMA Contents ==
    /\ Absent # Part /\ Absent # Whole /\ Part # Whole
    /\ Absent # "RUNNING" /\ Absent # "DONE" /\ Absent # "FAILED"
    /\ Absent \notin Speaker /\ Part \notin Speaker /\ Segment \subseteq Nat
  BY OutputAssumption DEF OutputAssumption, Absent, Part, Whole

\* One segment is deleted at a time.
LEMMA OneTurn ==
  ASSUME doomed \subseteq Segment, NEW s \in Turn, NEW t \in Turn
  PROVE  s = t /\ s \in doomed
<1>1. s \in doomed /\ t \in doomed /\ s <= t /\ t <= s
  BY DEF Turn
<1>2. s \in Nat /\ t \in Nat
  BY <1>1, Contents
<1>3. QED
  BY <1>1, <1>2

LEMMA OutputInvInit == Init => OutputInv
  BY Contents DEF Init, OutputInv, FileShape, Stages, CommandShape, StageShape, LeftOver, JsonShape,
     ManifestShape, ManifestIsCurrent, OnlyUnwantedIsDeleted

-----------------------------------------------------------------------------
(* The steps. *)

LEMMA SegmentStep ==
  ASSUME OutputInv, NEW s \in Segment, SegmentNext(s)
  PROVE  OutputInv'
<1> USE Contents DEF vars, files, counters, history
<1>0. /\ FileShape /\ CommandShape /\ StageShape /\ LeftOver /\ JsonShape
      /\ ManifestShape /\ OnlyUnwantedIsDeleted
  BY DEF OutputInv
<1>1. CASE SliceOpens(s)
  <2>1. FileShape'
    BY <1>0, <1>1 DEF SliceOpens, OpenTmp, Goto, FileShape, Stages
  <2>2. CommandShape'
    BY <1>0, <1>1 DEF SliceOpens, OpenTmp, Goto, CommandShape
  <2>3. StageShape'
    BY <1>0, <1>1 DEF SliceOpens, OpenTmp, Goto, StageShape, FileShape
  <2>4. LeftOver'
    BY <1>0, <1>1 DEF SliceOpens, OpenTmp, Goto, LeftOver, FileShape
  <2>5. JsonShape'
    BY <1>0, <1>1 DEF SliceOpens, OpenTmp, Goto, JsonShape, Turn, FileShape, StageShape, LeftOver, CommandShape
  <2>6. ManifestShape'
    BY <1>0, <1>1 DEF SliceOpens, OpenTmp, Goto, ManifestShape, ManifestIsCurrent, Present, CommandShape, FileShape
  <2>7. OnlyUnwantedIsDeleted'
    BY <1>0, <1>1 DEF SliceOpens, OpenTmp, Goto, OnlyUnwantedIsDeleted, FileShape, StageShape, CommandShape
  <2>8. QED
    BY <2>1, <2>2, <2>3, <2>4, <2>5, <2>6, <2>7 DEF OutputInv
<1>2. CASE SliceRenames(s)
  <2>1. FileShape'
    BY <1>0, <1>2 DEF SliceRenames, Goto, FileShape, Stages
  <2>2. CommandShape'
    BY <1>0, <1>2 DEF SliceRenames, Goto, CommandShape
  <2>3. StageShape'
    BY <1>0, <1>2 DEF SliceRenames, Goto, StageShape, FileShape
  <2>4. LeftOver'
    BY <1>0, <1>2 DEF SliceRenames, Goto, LeftOver, FileShape
  <2>5. JsonShape'
    BY <1>0, <1>2 DEF SliceRenames, Goto, JsonShape, Turn, FileShape, StageShape, LeftOver, CommandShape
  <2>6. ManifestShape'
    BY <1>0, <1>2 DEF SliceRenames, Goto, ManifestShape, ManifestIsCurrent, Present, CommandShape, FileShape
  <2>7. OnlyUnwantedIsDeleted'
    BY <1>0, <1>2 DEF SliceRenames, Goto, OnlyUnwantedIsDeleted, FileShape, StageShape, CommandShape
  <2>8. QED
    BY <2>1, <2>2, <2>3, <2>4, <2>5, <2>6, <2>7 DEF OutputInv
<1>3. CASE SegmentFails(s)
  <2>1. FileShape'
    BY <1>0, <1>3 DEF SegmentFails, Settle, Goto, FileShape, Stages
  <2>2. CommandShape'
    BY <1>0, <1>3 DEF SegmentFails, Settle, Goto, CommandShape
  <2>3. StageShape'
    BY <1>0, <1>3 DEF SegmentFails, Settle, Goto, StageShape, FileShape
  <2>4. LeftOver'
    BY <1>0, <1>3 DEF SegmentFails, Settle, Goto, LeftOver, FileShape
  <2>5. JsonShape'
    BY <1>0, <1>3 DEF SegmentFails, Settle, Goto, JsonShape, Turn, FileShape, StageShape, LeftOver, CommandShape
  <2>6. ManifestShape'
    BY <1>0, <1>3 DEF SegmentFails, Settle, Goto, ManifestShape, ManifestIsCurrent, Present, CommandShape, FileShape
  <2>7. OnlyUnwantedIsDeleted'
    BY <1>0, <1>3 DEF SegmentFails, Settle, Goto, OnlyUnwantedIsDeleted, FileShape, StageShape, CommandShape
  <2>8. QED
    BY <2>1, <2>2, <2>3, <2>4, <2>5, <2>6, <2>7 DEF OutputInv
<1>4. CASE FilterRejects(s)
  <2>1. FileShape'
    BY <1>0, <1>4 DEF FilterRejects, Settle, Goto, FileShape, Stages
  <2>2. CommandShape'
    BY <1>0, <1>4 DEF FilterRejects, Settle, Goto, CommandShape
  <2>3. StageShape'
    BY <1>0, <1>4 DEF FilterRejects, Settle, Goto, StageShape, FileShape
  <2>4. LeftOver'
    BY <1>0, <1>4 DEF FilterRejects, Settle, Goto, LeftOver, FileShape
  <2>5. JsonShape'
    BY <1>0, <1>4 DEF FilterRejects, Settle, Goto, JsonShape, Turn, FileShape, StageShape, LeftOver, CommandShape
  <2>6. ManifestShape'
    BY <1>0, <1>4 DEF FilterRejects, Settle, Goto, ManifestShape, ManifestIsCurrent, Present, CommandShape, FileShape
  <2>7. OnlyUnwantedIsDeleted'
    BY <1>0, <1>4 DEF FilterRejects, Settle, Goto, OnlyUnwantedIsDeleted, FileShape, StageShape, CommandShape
  <2>8. QED
    BY <2>1, <2>2, <2>3, <2>4, <2>5, <2>6, <2>7 DEF OutputInv
<1>5. CASE PackageOpens(s)
  <2>1. FileShape'
    BY <1>0, <1>5 DEF PackageOpens, OpenTmp, Goto, FileShape, Stages
  <2>2. CommandShape'
    BY <1>0, <1>5 DEF PackageOpens, OpenTmp, Goto, CommandShape
  <2>3. StageShape'
    BY <1>0, <1>5 DEF PackageOpens, OpenTmp, Goto, StageShape, FileShape
  <2>4. LeftOver'
    BY <1>0, <1>5 DEF PackageOpens, OpenTmp, Goto, LeftOver, FileShape
  <2>5. JsonShape'
    BY <1>0, <1>5 DEF PackageOpens, OpenTmp, Goto, JsonShape, Turn, FileShape, StageShape, LeftOver, CommandShape
  <2>6. ManifestShape'
    BY <1>0, <1>5 DEF PackageOpens, OpenTmp, Goto, ManifestShape, ManifestIsCurrent, Present, CommandShape, FileShape
  <2>7. OnlyUnwantedIsDeleted'
    BY <1>0, <1>5 DEF PackageOpens, OpenTmp, Goto, OnlyUnwantedIsDeleted, FileShape, StageShape, CommandShape
  <2>8. QED
    BY <2>1, <2>2, <2>3, <2>4, <2>5, <2>6, <2>7 DEF OutputInv
<1>6. CASE PackageRenames(s)
  <2>1. FileShape'
    BY <1>0, <1>6 DEF PackageRenames, Goto, FileShape, Stages
  <2>2. CommandShape'
    BY <1>0, <1>6 DEF PackageRenames, Goto, CommandShape
  <2>3. StageShape'
    BY <1>0, <1>6 DEF PackageRenames, Goto, StageShape, FileShape
  <2>4. LeftOver'
    BY <1>0, <1>6 DEF PackageRenames, Goto, LeftOver, FileShape, StageShape
  <2>5. JsonShape'
    BY <1>0, <1>6 DEF PackageRenames, Goto, JsonShape, Turn, FileShape, StageShape, LeftOver, CommandShape
  <2>6. ManifestShape'
    BY <1>0, <1>6 DEF PackageRenames, Goto, ManifestShape, ManifestIsCurrent, Present, CommandShape, FileShape
  <2>7. OnlyUnwantedIsDeleted'
    BY <1>0, <1>6 DEF PackageRenames, Goto, OnlyUnwantedIsDeleted, FileShape, StageShape, CommandShape
  <2>8. QED
    BY <2>1, <2>2, <2>3, <2>4, <2>5, <2>6, <2>7 DEF OutputInv
<1>7. CASE PackageRaises(s)
  <2>1. FileShape'
    BY <1>0, <1>7 DEF PackageRaises, Goto, FileShape, Stages
  <2>2. CommandShape'
    BY <1>0, <1>7 DEF PackageRaises, Goto, CommandShape
  <2>3. StageShape'
    BY <1>0, <1>7 DEF PackageRaises, Goto, StageShape, FileShape
  <2>4. LeftOver'
    BY <1>0, <1>7 DEF PackageRaises, Goto, LeftOver, FileShape
  <2>5. JsonShape'
    BY <1>0, <1>7 DEF PackageRaises, Goto, JsonShape, Turn, FileShape, StageShape, LeftOver, CommandShape
  <2>6. ManifestShape'
    BY <1>0, <1>7 DEF PackageRaises, Goto, ManifestShape, ManifestIsCurrent, Present, CommandShape, FileShape
  <2>7. OnlyUnwantedIsDeleted'
    BY <1>0, <1>7 DEF PackageRaises, Goto, OnlyUnwantedIsDeleted, FileShape, StageShape, CommandShape
  <2>8. QED
    BY <2>1, <2>2, <2>3, <2>4, <2>5, <2>6, <2>7 DEF OutputInv
<1>8. CASE SegmentDone(s)
  <2>1. FileShape'
    BY <1>0, <1>8 DEF SegmentDone, Settle, Goto, FileShape, Stages
  <2>2. CommandShape'
    BY <1>0, <1>8 DEF SegmentDone, Settle, Goto, CommandShape
  <2>3. StageShape'
    BY <1>0, <1>8 DEF SegmentDone, Settle, Goto, StageShape, FileShape
  <2>4. LeftOver'
    BY <1>0, <1>8 DEF SegmentDone, Settle, Goto, LeftOver, FileShape
  <2>5. JsonShape'
    BY <1>0, <1>8 DEF SegmentDone, Settle, Goto, JsonShape, Turn, FileShape, StageShape, LeftOver, CommandShape
  <2>6. ManifestShape'
    BY <1>0, <1>8 DEF SegmentDone, Settle, Goto, ManifestShape, ManifestIsCurrent, Present, CommandShape, FileShape
  <2>7. OnlyUnwantedIsDeleted'
    BY <1>0, <1>8 DEF SegmentDone, Settle, Goto, OnlyUnwantedIsDeleted, FileShape, StageShape, CommandShape
  <2>8. QED
    BY <2>1, <2>2, <2>3, <2>4, <2>5, <2>6, <2>7 DEF OutputInv
<1> HIDE Contents DEF vars, files, counters, history
<1>9. QED
  BY <1>1, <1>2, <1>3, <1>4, <1>5, <1>6, <1>7, <1>0, <1>8 DEF SegmentNext

LEMMA OutputInvNext ==
  OutputInv /\ [Next]_vars => OutputInv'
<1> SUFFICES ASSUME OutputInv, [Next]_vars PROVE OutputInv'
  OBVIOUS
<1> USE Contents DEF vars, files, counters, history
<1>0. /\ FileShape /\ CommandShape /\ StageShape /\ LeftOver /\ JsonShape
      /\ ManifestShape /\ OnlyUnwantedIsDeleted
  BY DEF OutputInv
<1>1. CASE StartRun
  <2>1. FileShape'
    BY <1>0, <1>1 DEF StartRun, FileShape, Stages
  <2>2. CommandShape'
    BY <1>0, <1>1 DEF StartRun, CommandShape
  <2>3. StageShape'
    BY <1>0, <1>1 DEF StartRun, StageShape, FileShape
  <2>4. LeftOver'
    BY <1>0, <1>1 DEF StartRun, LeftOver, FileShape
  <2>5. JsonShape'
    BY <1>0, <1>1 DEF StartRun, JsonShape, Turn, FileShape, StageShape, LeftOver, CommandShape
  <2>6. ManifestShape'
    BY <1>0, <1>1 DEF StartRun, ManifestShape, ManifestIsCurrent, Present, CommandShape, FileShape
  <2>7. OnlyUnwantedIsDeleted'
    BY <1>0, <1>1 DEF StartRun, OnlyUnwantedIsDeleted, FileShape, StageShape, CommandShape
  <2>8. QED
    BY <2>1, <2>2, <2>3, <2>4, <2>5, <2>6, <2>7 DEF OutputInv
<1>2. CASE EndRun
  <2>1. FileShape'
    BY <1>0, <1>2 DEF EndRun, FileShape, Stages
  <2>2. CommandShape'
    BY <1>0, <1>2 DEF EndRun, CommandShape
  <2>3. StageShape'
    BY <1>0, <1>2 DEF EndRun, StageShape, FileShape
  <2>4. LeftOver'
    BY <1>0, <1>2 DEF EndRun, LeftOver, FileShape
  <2>5. JsonShape'
    BY <1>0, <1>2 DEF EndRun, JsonShape, Turn, FileShape, StageShape, LeftOver, CommandShape
  <2>6. ManifestShape'
    BY <1>0, <1>2 DEF EndRun, ManifestShape, ManifestIsCurrent, Present, CommandShape, FileShape
  <2>7. OnlyUnwantedIsDeleted'
    BY <1>0, <1>2 DEF EndRun, OnlyUnwantedIsDeleted, FileShape, StageShape, CommandShape
  <2>8. QED
    BY <2>1, <2>2, <2>3, <2>4, <2>5, <2>6, <2>7 DEF OutputInv
<1>3. CASE StartManifest
  <2>1. FileShape'
    BY <1>0, <1>3 DEF StartManifest, FileShape, Stages
  <2>2. CommandShape'
    BY <1>0, <1>3 DEF StartManifest, CommandShape
  <2>3. StageShape'
    BY <1>0, <1>3 DEF StartManifest, StageShape, FileShape
  <2>4. LeftOver'
    BY <1>0, <1>3 DEF StartManifest, LeftOver, FileShape
  <2>5. JsonShape'
    BY <1>0, <1>3 DEF StartManifest, JsonShape, Turn, FileShape, StageShape, LeftOver, CommandShape
  <2>6. ManifestShape'
    BY <1>0, <1>3 DEF StartManifest, ManifestShape, ManifestIsCurrent, Present, CommandShape, FileShape
  <2>7. OnlyUnwantedIsDeleted'
    BY <1>0, <1>3 DEF StartManifest, OnlyUnwantedIsDeleted, FileShape, StageShape, CommandShape
  <2>8. QED
    BY <2>1, <2>2, <2>3, <2>4, <2>5, <2>6, <2>7 DEF OutputInv
<1>4. ASSUME NEW speakers \in SUBSET Speaker, FilterNothing(speakers) PROVE OutputInv'
  <2>1. FileShape'
    BY <1>0, <1>4 DEF FilterNothing, FileShape, Stages
  <2>2. CommandShape'
    BY <1>0, <1>4 DEF FilterNothing, CommandShape
  <2>3. StageShape'
    BY <1>0, <1>4 DEF FilterNothing, StageShape, FileShape
  <2>4. LeftOver'
    BY <1>0, <1>4 DEF FilterNothing, LeftOver, FileShape
  <2>5. JsonShape'
    BY <1>0, <1>4 DEF FilterNothing, JsonShape, Turn, FileShape, StageShape, LeftOver, CommandShape
  <2>6. ManifestShape'
    BY <1>0, <1>4 DEF FilterNothing, ManifestShape, ManifestIsCurrent, Present, CommandShape, FileShape
  <2>7. OnlyUnwantedIsDeleted'
    BY <1>0, <1>4 DEF FilterNothing, OnlyUnwantedIsDeleted, FileShape, StageShape, CommandShape
  <2>8. QED
    BY <2>1, <2>2, <2>3, <2>4, <2>5, <2>6, <2>7 DEF OutputInv
<1>5. ASSUME NEW speakers \in SUBSET Speaker, StartFilter(speakers) PROVE OutputInv'
  <2>1. FileShape'
    BY <1>0, <1>5 DEF StartFilter, Unwanted, Present, FileShape, Stages
  <2>2. CommandShape'
    BY <1>0, <1>5 DEF StartFilter, Unwanted, Present, CommandShape
  <2>3. StageShape'
    BY <1>0, <1>5 DEF StartFilter, Unwanted, Present, StageShape, FileShape
  <2>4. LeftOver'
    BY <1>0, <1>5 DEF StartFilter, Unwanted, Present, LeftOver, FileShape
  <2>5. JsonShape'
    BY <1>0, <1>5 DEF StartFilter, Unwanted, Present, JsonShape, Turn, FileShape, StageShape, LeftOver, CommandShape
  <2>6. ManifestShape'
    BY <1>0, <1>5 DEF StartFilter, Unwanted, Present, ManifestShape, ManifestIsCurrent, Present, CommandShape, FileShape
  <2>7. OnlyUnwantedIsDeleted'
    BY <1>0, <1>5 DEF StartFilter, Unwanted, Present, OnlyUnwantedIsDeleted, FileShape, StageShape, CommandShape
  <2>8. QED
    BY <2>1, <2>2, <2>3, <2>4, <2>5, <2>6, <2>7 DEF OutputInv
<1>6. CASE Unlink
  <2> PICK s \in Turn : \E name \in Names(s) :
          /\ audio' = IF name = <<"final", "audio">> THEN [audio EXCEPT ![s] = Absent] ELSE audio
          /\ json' = IF name = <<"final", "json">> THEN [json EXCEPT ![s] = Absent] ELSE json
          /\ doomed' = IF Names(s) = {name} THEN doomed \ {s} ELSE doomed
    BY <1>6 DEF Unlink
  <2>1. PICK name \in Names(s) :
          /\ audio' = IF name = <<"final", "audio">> THEN [audio EXCEPT ![s] = Absent] ELSE audio
          /\ json' = IF name = <<"final", "json">> THEN [json EXCEPT ![s] = Absent] ELSE json
          /\ doomed' = IF Names(s) = {name} THEN doomed \ {s} ELSE doomed
    OBVIOUS
  <2>2. s \in Segment /\ s \in doomed /\ \A t \in Turn : t = s
    BY <1>0, <2>1, OneTurn DEF FileShape
  <2>3. /\ command = "filter" /\ command' = "filter"
        /\ UNCHANGED <<manifest, csv, row, stage, stale, outlived, torn, excused>>
    BY <1>0, <1>6 DEF Unlink
  <2>4. \A t \in Segment : t # s => audio'[t] = audio[t] /\ json'[t] = json[t]
    BY <1>0, <2>1, <2>2 DEF FileShape
  <2>5. \A t \in Segment : json'[t] # Absent => json'[t] = json[t]
    BY <1>0, <2>1, <2>2 DEF FileShape
  <2>6. \A t \in Segment : stage[t] = "none"
    BY <1>0, <2>3 DEF CommandShape
  <2>7. json'[s] # Absent => audio'[s] = audio[s] \/ Turn' = Turn
    <3>1. ASSUME name = <<"final", "audio">>, json'[s] # Absent PROVE doomed' = doomed
      <4>1. <<"final", "json">> \in Names(s) /\ <<"final", "json">> # name
        BY <2>2, <2>5, <3>1 DEF Names
      <4>2. QED
        BY <2>1, <4>1
    <3>2. CASE name # <<"final", "audio">>
      BY <2>1, <3>2
    <3>3. QED
      BY <3>1, <3>2 DEF Turn
  <2>8. FileShape'
    <3>1. audio' \in [Segment -> {Absent, Whole}]
      BY <1>0, <2>1, <2>2 DEF FileShape
    <3>2. json' \in [Segment -> Speaker \union {Absent}]
      BY <1>0, <2>1, <2>2 DEF FileShape
    <3>3. doomed' \subseteq Segment
      BY <1>0, <2>1 DEF FileShape
    <3>4. QED
      BY <1>0, <2>3, <3>1, <3>2, <3>3 DEF FileShape
  <2>9. CommandShape'
    BY <1>0, <2>1, <2>3 DEF CommandShape
  <2>10. StageShape'
    BY <1>0, <2>3, <2>6 DEF StageShape
  <2>11. LeftOver'
    BY <1>0, <2>3, <2>5 DEF LeftOver
  <2>12. JsonShape'
    <3> SUFFICES ASSUME NEW t \in Segment, json'[t] # Absent
                 PROVE  audio'[t] = Whole \/ t \in outlived \union torn \/ t \in Turn'
      BY <2>3 DEF JsonShape
    <3>1. audio[t] = Whole \/ t \in outlived \union torn \/ t \in Turn
      BY <1>0, <2>5 DEF JsonShape
    <3>2. CASE t # s
      BY <2>2, <2>4, <3>1, <3>2
    <3>3. CASE t = s /\ audio'[s] # audio[s]
      BY <2>1, <2>7, <3>3
    <3>4. CASE t = s /\ audio'[s] = audio[s] /\ audio[s] # Whole
      <4>1. name = <<"final", "audio">> => audio[s] = Absent
        BY <1>0, <2>1, <2>2, <3>4 DEF FileShape
      <4>2. name # <<"final", "audio">>
        <5> SUFFICES ASSUME name = <<"final", "audio">> PROVE FALSE
          OBVIOUS
        <5>1. \A kind : <<"tmp", kind>> # name /\ name # <<"final", "json">>
          OBVIOUS
        <5>2. name \in {}
          BY <4>1, <5>1 DEF Names
        <5>3. QED
          BY <5>2
      <4>3. <<"final", "json">> \in Names(s) /\ name # <<"final", "json">>
        BY <1>0, <2>1, <2>2, <2>5, <3>4 DEF FileShape, Names
      <4>4. doomed' = doomed
        BY <2>1, <4>3
      <4>5. QED
        BY <2>1, <3>4, <4>4 DEF Turn
    <3>5. QED
      BY <3>1, <3>2, <3>3, <3>4
  <2>13. ManifestShape'
    BY <2>3 DEF ManifestShape, ManifestIsCurrent
  <2>14. OnlyUnwantedIsDeleted'
    BY <1>0, <2>2, <2>3, <2>4 DEF OnlyUnwantedIsDeleted, CommandShape
  <2>15. QED
    BY <2>8, <2>9, <2>10, <2>11, <2>12, <2>13, <2>14 DEF OutputInv
<1>7. CASE EndFilter
  <2>1. FileShape'
    BY <1>0, <1>7 DEF EndFilter, FileShape, Stages
  <2>2. CommandShape'
    BY <1>0, <1>7 DEF EndFilter, CommandShape
  <2>3. StageShape'
    BY <1>0, <1>7 DEF EndFilter, StageShape, FileShape
  <2>4. LeftOver'
    BY <1>0, <1>7 DEF EndFilter, LeftOver, FileShape
  <2>5. JsonShape'
    BY <1>0, <1>7 DEF EndFilter, JsonShape, Turn, FileShape, StageShape, LeftOver, CommandShape
  <2>6. ManifestShape'
    BY <1>0, <1>7 DEF EndFilter, ManifestShape, ManifestIsCurrent, Present, CommandShape, FileShape
  <2>7. OnlyUnwantedIsDeleted'
    BY <1>0, <1>7 DEF EndFilter, OnlyUnwantedIsDeleted, FileShape, StageShape, CommandShape
  <2>8. QED
    BY <2>1, <2>2, <2>3, <2>4, <2>5, <2>6, <2>7 DEF OutputInv
<1>8. CASE WriteManifest
  <2>1. FileShape'
    BY <1>0, <1>8 DEF WriteManifest, FileShape, Stages
  <2>2. CommandShape'
    BY <1>0, <1>8 DEF WriteManifest, CommandShape
  <2>3. StageShape'
    BY <1>0, <1>8 DEF WriteManifest, StageShape, FileShape
  <2>4. LeftOver'
    BY <1>0, <1>8 DEF WriteManifest, LeftOver, FileShape
  <2>5. JsonShape'
    BY <1>0, <1>8 DEF WriteManifest, JsonShape, Turn, FileShape, StageShape, LeftOver, CommandShape
  <2>6. ManifestShape'
    BY <1>0, <1>8 DEF WriteManifest, ManifestShape, ManifestIsCurrent, Present, CommandShape, FileShape
  <2>7. OnlyUnwantedIsDeleted'
    BY <1>0, <1>8 DEF WriteManifest, OnlyUnwantedIsDeleted, FileShape, StageShape, CommandShape
  <2>8. QED
    BY <2>1, <2>2, <2>3, <2>4, <2>5, <2>6, <2>7 DEF OutputInv
<1>9. CASE OpenCsv
  <2>1. FileShape'
    BY <1>0, <1>9 DEF OpenCsv, FileShape, Stages
  <2>2. CommandShape'
    BY <1>0, <1>9 DEF OpenCsv, CommandShape
  <2>3. StageShape'
    BY <1>0, <1>9 DEF OpenCsv, StageShape, FileShape
  <2>4. LeftOver'
    BY <1>0, <1>9 DEF OpenCsv, LeftOver, FileShape
  <2>5. JsonShape'
    BY <1>0, <1>9 DEF OpenCsv, JsonShape, Turn, FileShape, StageShape, LeftOver, CommandShape
  <2>6. ManifestShape'
    BY <1>0, <1>9 DEF OpenCsv, ManifestShape, ManifestIsCurrent, Present, CommandShape, FileShape
  <2>7. OnlyUnwantedIsDeleted'
    BY <1>0, <1>9 DEF OpenCsv, OnlyUnwantedIsDeleted, FileShape, StageShape, CommandShape
  <2>8. QED
    BY <2>1, <2>2, <2>3, <2>4, <2>5, <2>6, <2>7 DEF OutputInv
<1>10. CASE WriteCsv
  <2>1. FileShape'
    BY <1>0, <1>10 DEF WriteCsv, FileShape, Stages
  <2>2. CommandShape'
    BY <1>0, <1>10 DEF WriteCsv, CommandShape
  <2>3. StageShape'
    BY <1>0, <1>10 DEF WriteCsv, StageShape, FileShape
  <2>4. LeftOver'
    BY <1>0, <1>10 DEF WriteCsv, LeftOver, FileShape
  <2>5. JsonShape'
    BY <1>0, <1>10 DEF WriteCsv, JsonShape, Turn, FileShape, StageShape, LeftOver, CommandShape
  <2>6. ManifestShape'
    BY <1>0, <1>10 DEF WriteCsv, ManifestShape, ManifestIsCurrent, Present, CommandShape, FileShape
  <2>7. OnlyUnwantedIsDeleted'
    BY <1>0, <1>10 DEF WriteCsv, OnlyUnwantedIsDeleted, FileShape, StageShape, CommandShape
  <2>8. QED
    BY <2>1, <2>2, <2>3, <2>4, <2>5, <2>6, <2>7 DEF OutputInv
<1>11. CASE Kill
  <2>1. FileShape'
    BY <1>0, <1>11 DEF Kill, FileShape, Stages
  <2>2. CommandShape'
    BY <1>0, <1>11 DEF Kill, CommandShape
  <2>3. StageShape'
    BY <1>0, <1>11 DEF Kill, StageShape, FileShape
  <2>4. LeftOver'
    BY <1>0, <1>11 DEF Kill, LeftOver, FileShape
  <2>5. JsonShape'
    BY <1>0, <1>11 DEF Kill, JsonShape, Turn, FileShape, StageShape, LeftOver, CommandShape
  <2>6. ManifestShape'
    BY <1>0, <1>11 DEF Kill, ManifestShape, ManifestIsCurrent, Present, CommandShape, FileShape
  <2>7. OnlyUnwantedIsDeleted'
    BY <1>0, <1>11 DEF Kill, OnlyUnwantedIsDeleted, FileShape, StageShape, CommandShape
  <2>8. QED
    BY <2>1, <2>2, <2>3, <2>4, <2>5, <2>6, <2>7 DEF OutputInv
<1>12. CASE Reset
  <2>1. FileShape'
    BY <1>0, <1>12 DEF Reset, Present, FileShape, Stages
  <2>2. CommandShape'
    BY <1>0, <1>12 DEF Reset, Present, CommandShape
  <2>3. StageShape'
    BY <1>0, <1>12 DEF Reset, Present, StageShape, FileShape, CommandShape
  <2>4. LeftOver'
    BY <1>0, <1>12 DEF Reset, Present, LeftOver, FileShape
  <2>5. JsonShape'
    BY <1>0, <1>12 DEF Reset, Present, JsonShape, Turn, FileShape, StageShape, LeftOver, CommandShape
  <2>6. ManifestShape'
    BY <1>0, <1>12 DEF Reset, Present, ManifestShape, ManifestIsCurrent, Present, CommandShape, FileShape
  <2>7. OnlyUnwantedIsDeleted'
    BY <1>0, <1>12 DEF Reset, Present, OnlyUnwantedIsDeleted, FileShape, StageShape, CommandShape
  <2>8. QED
    BY <2>1, <2>2, <2>3, <2>4, <2>5, <2>6, <2>7 DEF OutputInv
<1>13. CASE UNCHANGED vars
  <2>1. FileShape'
    BY <1>0, <1>13 DEF FileShape, Stages
  <2>2. CommandShape'
    BY <1>0, <1>13 DEF CommandShape
  <2>3. StageShape'
    BY <1>0, <1>13 DEF StageShape, FileShape
  <2>4. LeftOver'
    BY <1>0, <1>13 DEF LeftOver, FileShape
  <2>5. JsonShape'
    BY <1>0, <1>13 DEF JsonShape, Turn, FileShape, StageShape, LeftOver, CommandShape
  <2>6. ManifestShape'
    BY <1>0, <1>13 DEF ManifestShape, ManifestIsCurrent, Present, CommandShape, FileShape
  <2>7. OnlyUnwantedIsDeleted'
    BY <1>0, <1>13 DEF OnlyUnwantedIsDeleted, FileShape, StageShape, CommandShape
  <2>8. QED
    BY <2>1, <2>2, <2>3, <2>4, <2>5, <2>6, <2>7 DEF OutputInv
<1> HIDE Contents DEF vars, files, counters, history
<1>14. QED
  BY SegmentStep, <1>1, <1>2, <1>3, <1>4, <1>5, <1>6, <1>7, <1>8, <1>9, <1>10, <1>11, <1>12, <1>0, <1>13 DEF Next

THEOREM OutputInvariant == Spec => []OutputInv
<1>1. QED
  BY OutputInvInit, OutputInvNext, PTL DEF Spec

\* package.py 3-6: no half-written file ever has a final name.
THEOREM OutputFinalNamesAreWhole == Spec => []FinalNamesAreWhole
<1>1. OutputInv => FinalNamesAreWhole
  BY Contents DEF OutputInv, FileShape, FinalNamesAreWhole
<1>2. QED
  BY <1>1, OutputInvariant, PTL

\* package.py 6-11: both manifests list what is in the directory, when no command
\* runs and the last kill was before the last rebuild.
THEOREM OutputManifestIsCurrent == Spec => []ManifestIsCurrent
<1>1. OutputInv => ManifestIsCurrent
  BY DEF OutputInv, ManifestShape
<1>2. QED
  BY <1>1, OutputInvariant, PTL

\* Metadata without audio is left from before a reset or by a filter-speakers
\* that was killed, and by nothing else.
THEOREM OutputJsonHasAudio == Spec => []JsonHasAudio
<1>1. OutputInv => JsonHasAudio
  BY DEF OutputInv, CommandShape, JsonShape, Turn, JsonHasAudio, Present
<1>2. QED
  BY <1>1, OutputInvariant, PTL

\* The files of a segment that is DONE are there, or some filter-speakers was told
\* not to keep the speaker they name.
THEOREM OutputOnlyUnwantedIsDeleted == Spec => []OnlyUnwantedIsDeleted
<1>1. OutputInv => OnlyUnwantedIsDeleted
  BY DEF OutputInv
<1>2. QED
  BY <1>1, OutputInvariant, PTL

=============================================================================
