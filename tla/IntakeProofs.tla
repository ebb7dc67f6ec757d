--------------------------- MODULE IntakeProofs ---------------------------
(***************************************************************************)
(* Theorems about Intake, for every set of videos, channels and workers,   *)
(* every bound of the queues, and every job store and catalogue: when the  *)
(* stream ends nothing is PENDING and everything wanted is in the job      *)
(* store; the sources use Download as its specification says; and while    *)
(* the stream runs every PENDING video is on its way, which takes counting *)
(* where the sentinels and the copies of a video are.                      *)
(***************************************************************************)
EXTENDS Intake, FiniteSetTheorems, SequenceTheorems, TLAPS

-----------------------------------------------------------------------------
(* Sequences as sets. *)

LEMMA EmptyToSet == ToSet(<<>>) = {}
  BY DEF ToSet

LEMMA AppendToSet ==
  ASSUME NEW S, NEW s \in Seq(S), NEW x \in S
  PROVE  /\ Append(s, x) \in Seq(S)
         /\ Append(s, x) # <<>>
         /\ ToSet(Append(s, x)) = ToSet(s) \union {x}
<1>1. /\ DOMAIN s = 1..Len(s) /\ Len(s) \in Nat
      /\ DOMAIN Append(s, x) = 1..(Len(s) + 1)
      /\ \A i \in 1..Len(s) : Append(s, x)[i] = s[i]
      /\ Append(s, x)[Len(s) + 1] = x
  OBVIOUS
<1>2. ToSet(Append(s, x)) \subseteq ToSet(s) \union {x}
  BY <1>1 DEF ToSet
<1>3. ToSet(s) \union {x} \subseteq ToSet(Append(s, x))
  BY <1>1 DEF ToSet
<1>4. QED
  BY <1>2, <1>3

LEMMA TailToSet ==
  ASSUME NEW S, NEW s \in Seq(S), s # <<>>
  PROVE  /\ Head(s) \in S
         /\ Tail(s) \in Seq(S)
         /\ ToSet(s) = {Head(s)} \union ToSet(Tail(s))
         /\ Len(s) = 1 => Tail(s) = <<>>
         /\ Len(s) # 1 => Tail(s) # <<>>
<1>1. /\ DOMAIN s = 1..Len(s) /\ Len(s) \in Nat \ {0} /\ Head(s) = s[1]
      /\ DOMAIN Tail(s) = 1..(Len(s) - 1)
      /\ \A i \in 1..(Len(s) - 1) : Tail(s)[i] = s[i + 1]
      /\ Tail(s) \in Seq(S) /\ Len(Tail(s)) = Len(s) - 1
  OBVIOUS
<1>2. ToSet(s) \subseteq {Head(s)} \union ToSet(Tail(s))
  <2> SUFFICES ASSUME NEW i \in 1..Len(s), i # 1 PROVE s[i] \in ToSet(Tail(s))
    BY <1>1 DEF ToSet
  <2>1. i - 1 \in 1..(Len(s) - 1) /\ Tail(s)[i - 1] = s[i]
    BY <1>1
  <2>2. QED
    BY <1>1, <2>1 DEF ToSet
<1>3. ToSet(Tail(s)) \subseteq ToSet(s) /\ Head(s) \in ToSet(s) /\ Head(s) \in S
  BY <1>1 DEF ToSet
<1>4. (Tail(s) = <<>>) <=> (Len(s) - 1 = 0)
  BY <1>1, EmptySeq
<1>5. QED
  BY <1>1, <1>2, <1>3, <1>4

LEMMA ToSetRange ==
  ASSUME NEW S, NEW s \in Seq(S)
  PROVE  ToSet(s) \subseteq S /\ (s # <<>> => ToSet(s) # {})
  BY DEF ToSet

\* Behind the first x of a sequence there are only more of them.
OnlyBehind(s, x) == \A i, j \in DOMAIN s : i < j /\ s[i] = x => s[j] = x

LEMMA AppendOnlyBehind ==
  ASSUME NEW S, NEW s \in Seq(S), NEW x, NEW y \in S,
         OnlyBehind(s, x), y = x \/ x \notin ToSet(s)
  PROVE  OnlyBehind(Append(s, y), x)
<1>1. /\ DOMAIN s = 1..Len(s) /\ Len(s) \in Nat
      /\ DOMAIN Append(s, y) = 1..(Len(s) + 1)
      /\ \A i \in 1..Len(s) : Append(s, y)[i] = s[i]
      /\ Append(s, y)[Len(s) + 1] = y
  OBVIOUS
<1>2. QED
  BY <1>1 DEF OnlyBehind, ToSet

LEMMA TailOnlyBehind ==
  ASSUME NEW S, NEW s \in Seq(S), NEW x, s # <<>>, OnlyBehind(s, x)
  PROVE  /\ OnlyBehind(Tail(s), x)
         /\ Head(s) = x => ToSet(Tail(s)) \subseteq {x}
<1>1. /\ DOMAIN s = 1..Len(s) /\ Len(s) \in Nat \ {0} /\ Head(s) = s[1]
      /\ DOMAIN Tail(s) = 1..(Len(s) - 1)
      /\ \A i \in 1..(Len(s) - 1) : Tail(s)[i] = s[i + 1] /\ i + 1 \in 1..Len(s) /\ 1 < i + 1
  OBVIOUS
<1>2. OnlyBehind(Tail(s), x)
  <2> SUFFICES ASSUME NEW i \in 1..(Len(s) - 1), NEW j \in 1..(Len(s) - 1),
                      i < j, Tail(s)[i] = x
               PROVE  Tail(s)[j] = x
    BY <1>1 DEF OnlyBehind
  <2>1. i + 1 \in DOMAIN s /\ j + 1 \in DOMAIN s /\ i + 1 < j + 1 /\ s[i + 1] = x
    BY <1>1
  <2>2. QED
    BY <1>1, <2>1 DEF OnlyBehind
<1>3. ASSUME Head(s) = x, NEW i \in 1..(Len(s) - 1) PROVE Tail(s)[i] = x
  <2>1. 1 \in DOMAIN s /\ i + 1 \in DOMAIN s /\ 1 < i + 1 /\ s[1] = x
    BY <1>1, <1>3
  <2>2. QED
    BY <1>1, <2>1 DEF OnlyBehind
<1>4. QED
  BY <1>1, <1>2, <1>3 DEF ToSet

\* An x is the last element of a sequence.
OnlyLast(s, x) == \A i \in DOMAIN s : s[i] = x => i = Len(s)

LEMMA AppendOnlyLast ==
  ASSUME NEW S, NEW s \in Seq(S), NEW x, NEW y \in S, x \notin ToSet(s)
  PROVE  OnlyLast(Append(s, y), x)
<1>1. /\ DOMAIN s = 1..Len(s) /\ Len(s) \in Nat
      /\ DOMAIN Append(s, y) = 1..(Len(s) + 1) /\ Len(Append(s, y)) = Len(s) + 1
      /\ \A i \in 1..Len(s) : Append(s, y)[i] = s[i]
  OBVIOUS
<1>2. QED
  BY <1>1 DEF OnlyLast, ToSet

LEMMA TailOnlyLast ==
  ASSUME NEW S, NEW s \in Seq(S), NEW x, s # <<>>, OnlyLast(s, x)
  PROVE  /\ OnlyLast(Tail(s), x)
         /\ Head(s) = x => Tail(s) = <<>>
<1>1. /\ DOMAIN s = 1..Len(s) /\ Len(s) \in Nat \ {0} /\ Head(s) = s[1]
      /\ DOMAIN Tail(s) = 1..(Len(s) - 1) /\ Len(Tail(s)) = Len(s) - 1
      /\ \A i \in 1..(Len(s) - 1) : Tail(s)[i] = s[i + 1] /\ i + 1 \in 1..Len(s)
  OBVIOUS
<1>2. OnlyLast(Tail(s), x)
  <2> SUFFICES ASSUME NEW i \in 1..(Len(s) - 1), Tail(s)[i] = x PROVE i = Len(s) - 1
    BY <1>1 DEF OnlyLast
  <2>1. i + 1 \in DOMAIN s /\ s[i + 1] = x
    BY <1>1
  <2>2. \A k \in DOMAIN s : s[k] = x => k = Len(s)
    BY DEF OnlyLast
  <2>3. i + 1 = Len(s)
    BY <2>1, <2>2, Zenon
  <2>4. i \in Int /\ Len(s) \in Int
    BY <1>1
  <2>5. QED
    BY <2>3, <2>4
<1>3. Head(s) = x => Tail(s) = <<>>
  <2> SUFFICES ASSUME Head(s) = x PROVE Tail(s) = <<>>
    OBVIOUS
  <2>1. 1 \in DOMAIN s /\ s[1] = x
    BY <1>1
  <2>2. 1 = Len(s)
    BY <2>1 DEF OnlyLast
  <2>3. QED
    BY <2>2, TailToSet
<1>4. QED
  BY <1>2, <1>3

LEMMA EmptyShapes == \A x : OnlyLast(<<>>, x) /\ OnlyBehind(<<>>, x)
  BY DEF OnlyLast, OnlyBehind

LEMMA ContainsToSet ==
  ASSUME NEW S, NEW s \in Seq(S), NEW x
  PROVE  Contains(s, x) <=> x \in ToSet(s)
  BY DEF Contains, ToSet

-----------------------------------------------------------------------------
(* The inductive invariant. *)

\* A row that is PENDING is still to be yielded, in the generator's hand, or in
\* the hands of Download.
OnItsWay(v) ==
    \/ place = "rows" /\ v \in ToSet(upcoming)
    \/ hand = v
    \/ v \in ToSet(workQ)
    \/ \E w \in Worker : busy[w] = v
    \/ \E result \in ToSet(resultQ) : result # Sentinel /\ result.video = v

PendingTracked == \A v \in Video : rows[v] = "PENDING" => OnItsWay(v)

\* Local mode leaves the queues alone.
ModeShape ==
    /\ mode = "local" =>
        /\ place \in {"rows", "folder", "end"}
        /\ feeder = "yielding"
        /\ workQ = <<>> /\ resultQ = <<>> /\ gone = {}
        /\ \A w \in Worker : busy[w] = NoVideo
    /\ mode = "youtube" => place \in {"rows", "urls", "channels", "end"}

\* The feeder closes when its source has ended.
FeederShape ==
    /\ feeder \in {"closing", "done"} => place = "end" /\ hand = NoVideo
    /\ feeder = "closing" => sentinels > 0
    /\ feeder = "yielding" => sentinels = 0

\* Behind the first sentinel of the work queue there are only sentinels, and
\* once one is taken nothing else is left.
WorkShape ==
    /\ Sentinel \in ToSet(workQ) \/ gone # {} => feeder \in {"closing", "done"}
    /\ OnlyBehind(workQ, Sentinel)
    /\ gone # {} => ToSet(workQ) \subseteq {Sentinel}
    /\ \A w \in gone : busy[w] = NoVideo

\* The sentinel of the result queue is the last there ever is.
ResultShape ==
    /\ Sentinel \in ToSet(resultQ) => gone = Worker
    /\ OnlyLast(resultQ, Sentinel)
    /\ stream = "ended" =>
        IF mode = "youtube" THEN gone = Worker /\ resultQ = <<>>
                            ELSE place = "end" /\ hand = NoVideo

\* The same of the queue of discover_all, for every producer.
FoundShape ==
    /\ NoMore \in ToSet(foundQ) => \A c \in Channel : producer[c] = "closed"
    /\ OnlyLast(foundQ, NoMore)
    /\ place = "end" /\ mode = "youtube" =>
        foundQ = <<>> /\ \A c \in Channel : producer[c] = "closed"
    /\ \A c \in Channel :
        /\ producer[c] \in {"done", "closed"} => found[c] = <<>>
        /\ producer[c] = "putting" => found[c] # <<>>
        /\ producer[c] \in {"created", "listing"} => c \notin listed

\* What was asked for has a row, or is still to come.
Registered ==
    /\ place = "urls" => \A v \in ToSet(VideoUrls) : rows[v] # "absent" \/ v \in ToSet(upcoming)
    /\ place = "channels" \/ (place = "end" /\ mode = "youtube") =>
        \A v \in ToSet(VideoUrls) : rows[v] # "absent"
    /\ place = "folder" => \A v \in ToSet(Folder) : rows[v] # "absent" \/ v \in ToSet(upcoming)
    /\ place = "end" /\ mode = "local" => \A v \in ToSet(Folder) : rows[v] # "absent"
    /\ \A c \in listed : \A v \in ToSet(Catalog[c]) :
        rows[v] # "absent" \/ v \in ToSet(found[c]) \/ v \in ToSet(foundQ)

\* t is what is left of a walk over s.
Rest(t, s) ==
    /\ Len(t) <= Len(s)
    /\ \A k \in 1..Len(t) : t[k] = s[Len(s) - Len(t) + k]

\* In local mode what has a row is under the name of its file, and what is left
\* of the scan is a suffix of the folder.
ScanShape ==
    mode = "local" =>
        /\ place = "folder" => Rest(upcoming, Folder)
        /\ \A v \in Video :
              hand = v \/ v \in raw \/ (place = "rows" /\ v \in ToSet(upcoming)) =>
                  rows[v] # "absent"
        /\ \A i \in DOMAIN Folder :
              OwnsItsStem(i) /\ rows[Folder[i]] # "absent" => file[Folder[i]] = i

IntakeInv ==
    /\ IntakeTypeOK
    /\ ScanShape
    /\ PendingTracked
    /\ ModeShape
    /\ FeederShape
    /\ WorkShape
    /\ ResultShape
    /\ FoundShape
    /\ Registered

-----------------------------------------------------------------------------

LEMMA Constants ==
    /\ NoVideo \notin Video /\ Sentinel \notin Video /\ Sentinel \notin Outcome
    /\ NoMore \notin Video /\ DiscoverError \notin Video /\ NoMore # DiscoverError
    /\ Listed \subseteq Video
    /\ \A c \in Channel : ToSet(Catalog[c]) \subseteq Listed
    /\ \A c \in Channel : Catalog[c] \in Seq(Listed \union {DiscoverError})
    /\ ToSet(VideoUrls) \subseteq Video /\ ToSet(Folder) \subseteq Video
    /\ Worker # {} /\ Channel # {}
    /\ Cardinality(Worker) \in Nat /\ Cardinality(Worker) > 0
<1>1. \A c \in Channel : Catalog[c] \in Seq(Video) /\ ToSet(Catalog[c]) \subseteq Video
  BY IntakeAssumption, ToSetRange DEF IntakeAssumption
<1>2. Listed \subseteq Video /\ \A c \in Channel : ToSet(Catalog[c]) \subseteq Listed
  BY <1>1 DEF Listed
<1>3. \A c \in Channel : Catalog[c] \in Seq(Listed \union {DiscoverError})
  <2> SUFFICES ASSUME NEW c \in Channel PROVE Catalog[c] \in Seq(Listed \union {DiscoverError})
    OBVIOUS
  <2>1. Catalog[c] \in Seq(Video) /\ \A i \in 1..Len(Catalog[c]) : Catalog[c][i] \in Listed
    BY <1>1 DEF Listed, ToSet
  <2>2. QED
    BY <2>1
<1>4. Cardinality(Worker) \in Nat /\ Cardinality(Worker) > 0
  BY DownloadAssumption, FS_CardinalityType, FS_EmptySet DEF DownloadAssumption
<1>5. ToSet(VideoUrls) \subseteq Video /\ ToSet(Folder) \subseteq Video
  BY IntakeAssumption, ToSetRange DEF IntakeAssumption
<1>6. QED
  BY <1>2, <1>3, <1>4, <1>5, DownloadAssumption, DiscoverAssumption, IntakeAssumption
    DEF DownloadAssumption, DiscoverAssumption, IntakeAssumption

LEMMA ListingsAreSequences ==
  ASSUME NEW S \in SUBSET Video, NEW list \in Listings(S)
  PROVE  list \in Seq(Video) /\ ToSet(list) = S /\ IsInjective(list)
<1>1. Cardinality(S) \in Nat
  BY FS_Subset, FS_CardinalityType, IntakeAssumption DEF IntakeAssumption
<1>2. list \in [1..Cardinality(S) -> S] /\ ToSet(list) = S /\ IsInjective(list)
  BY DEF Listings
<1>3. list \in [1..Cardinality(S) -> Video]
  BY <1>2
<1>4. QED
  BY <1>1, <1>2, <1>3

LEMMA IntakeInvInit == IntakeInit => IntakeInv
<1> SUFFICES ASSUME IntakeInit PROVE IntakeInv
  OBVIOUS
<1> USE Constants DEF IntakeInit, Init, DiscoverInit
<1>1. rows \in [Video -> {"absent", "PENDING", "RUNNING", "DONE", "FAILED"}]
  BY IntakeAssumption DEF IntakeAssumption
<1>2. upcoming \in Seq(Video) /\ ToSet(upcoming) = Pending
  <2>1. Pending \in SUBSET Video
    BY DEF Pending
  <2>2. QED
    BY <2>1, ListingsAreSequences
<1>3. \A S : <<>> \in Seq(S)
  OBVIOUS
<1>4. IntakeTypeOK
  <2>1. KnownFile \in [Video -> 0..Len(Folder)] /\ Len(Folder) \in Nat
    BY IntakeAssumption DEF IntakeAssumption
  <2>2. file \in [Video -> 0..Len(Folder)]
    BY <2>1
  <2>3. QED
    BY <1>1, <1>2, <1>3, <2>2 DEF IntakeTypeOK, TypeOK, DiscoverTypeOK
<1>5. PendingTracked
  BY <1>2 DEF PendingTracked, OnItsWay, Pending
<1>6. ModeShape /\ FeederShape
  BY DEF ModeShape, FeederShape
<1>7. WorkShape /\ ResultShape /\ FoundShape
  BY EmptyToSet, EmptyShapes DEF WorkShape, ResultShape, FoundShape
<1>8. Registered
  BY DEF Registered
<1>9. ScanShape
  <2>1. KnownFile \in [Video -> 0..Len(Folder)] /\ Folder \in Seq(Video)
    BY IntakeAssumption DEF IntakeAssumption
  <2>2. \A i \in DOMAIN Folder : Folder[i] \in Video
    BY <2>1
  <2>3. \A v \in Video : hand # v /\ v \notin raw
    OBVIOUS
  <2>4. \A v \in ToSet(upcoming) : rows[v] # "absent"
    BY <1>2 DEF Pending
  <2>5. \A i \in DOMAIN Folder :
            OwnsItsStem(i) /\ rows[Folder[i]] # "absent" => file[Folder[i]] = i
    BY <2>1, <2>2 DEF OwnsItsStem
  <2>6. QED
    BY <2>3, <2>4, <2>5 DEF ScanShape
<1>10. QED
  BY <1>4, <1>5, <1>6, <1>7, <1>8, <1>9 DEF IntakeInv

-----------------------------------------------------------------------------
(* The steps. *)

\* What the walk takes next, and what is left behind it.
LEMMA RestNext ==
  ASSUME NEW s \in Seq(Video), NEW t \in Seq(Video), t # <<>>, Rest(t, s)
  PROVE  /\ Len(s) - Len(t) + 1 \in DOMAIN s
         /\ Head(t) = s[Len(s) - Len(t) + 1]
         /\ Rest(Tail(t), s)
<1> USE DEF Rest
<1>1. /\ Len(s) \in Nat /\ Len(t) \in Nat \ {0} /\ Head(t) = t[1] /\ DOMAIN s = 1..Len(s)
      /\ Len(Tail(t)) = Len(t) - 1 /\ \A k \in 1..(Len(t) - 1) : Tail(t)[k] = t[k + 1]
  OBVIOUS
<1>2. Len(s) - Len(t) + 1 \in 1..Len(s) /\ Len(Tail(t)) <= Len(s)
  BY <1>1
<1>3. t[1] = s[Len(s) - Len(t) + 1]
  BY <1>1
<1>4. ASSUME NEW k \in 1..Len(Tail(t)) PROVE Tail(t)[k] = s[Len(s) - Len(Tail(t)) + k]
  <2>1. k \in 1..(Len(t) - 1) /\ k + 1 \in 1..Len(t)
    BY <1>1
  <2>2. Tail(t)[k] = s[Len(s) - Len(t) + (k + 1)]
    BY <1>1, <2>1
  <2>3. Len(s) - Len(t) + (k + 1) = Len(s) - Len(Tail(t)) + k
    BY <1>1, <2>1
  <2>4. QED
    BY <2>2, <2>3
<1>5. QED
  BY <1>1, <1>2, <1>3, <1>4

\* The rows of local mode keep the names of their files.
LEMMA ScanNext ==
    IntakeInv /\ [IntakeNext]_allVars => ScanShape' /\ file' \in [Video -> 0..Len(Folder)]
<1> SUFFICES ASSUME IntakeInv, [IntakeNext]_allVars
             PROVE  ScanShape' /\ file' \in [Video -> 0..Len(Folder)]
  OBVIOUS
<1>1. /\ ScanShape /\ ModeShape /\ mode \in {"youtube", "local"}
      /\ file \in [Video -> 0..Len(Folder)] /\ upcoming \in Seq(Video)
      /\ rows \in [Video -> {"absent", "PENDING", "RUNNING", "DONE", "FAILED"}]
      /\ hand \in Video \union {NoVideo} /\ foundQ \in Seq(Listed \union {DiscoverError, NoMore})
  BY DEF IntakeInv, IntakeTypeOK, TypeOK, DiscoverTypeOK
<1>2. Folder \in Seq(Video) /\ Len(Folder) \in Nat
  BY IntakeAssumption DEF IntakeAssumption
<1>3. CASE YieldListed
  <2>1. Head(upcoming) \in Video /\ Tail(upcoming) \in Seq(Video) /\ Len(upcoming) \in Nat
    BY <1>1, <1>3, TailToSet DEF YieldListed
  <2>2. CASE mode = "youtube"
    <3>1. NextFile \in 0..Len(Folder) /\ mode' = "youtube"
      BY <1>1, <1>2, <1>3, <2>2 DEF YieldListed, ModeShape, NextFile
    <3>2. QED
      BY <1>1, <1>3, <2>1, <3>1 DEF YieldListed, Register, ScanShape
  <2>3. CASE mode = "local"
    <3>1. place = "folder" /\ place' = "folder" /\ mode' = "local" /\ raw' = raw
          /\ upcoming # <<>> /\ upcoming' = Tail(upcoming) /\ hand = NoVideo
      BY <1>1, <1>3, <2>3 DEF YieldListed, Asked, ModeShape, vars
    <3>2. Rest(upcoming, Folder)
      BY <1>1, <2>3, <3>1 DEF ScanShape
    <3> DEFINE n == Len(Folder) - Len(upcoming) + 1
    <3>a. Folder \in Seq(Video) /\ upcoming \in Seq(Video) /\ upcoming # <<>>
      BY <1>1, <1>2, <3>1
    <3>3. n \in DOMAIN Folder /\ Head(upcoming) = Folder[n] /\ Rest(Tail(upcoming), Folder)
      BY ONLY <3>a, <3>2, RestNext
    <3>4. n \in 1..Len(Folder) /\ NextFile = n
      BY <1>2, <3>1, <3>3 DEF NextFile
    <3> HIDE DEF n
    <3>5. CASE rows[Head(upcoming)] # "absent"
      <4>1. UNCHANGED <<hand, rows, file>>
        BY <1>3, <3>5 DEF YieldListed, Register
      <4>2. QED
        BY <1>1, <2>3, <3>1, <3>3, <4>1 DEF ScanShape
    <3>6. CASE rows[Head(upcoming)] = "absent"
      <4>1. /\ hand' = Folder[n] /\ rows' = [rows EXCEPT ![Folder[n]] = "PENDING"]
            /\ file' = [file EXCEPT ![Folder[n]] = n] /\ Folder[n] \in Video
        BY <1>3, <2>1, <3>3, <3>4, <3>6 DEF YieldListed, Register
      <4>2. file' \in [Video -> 0..Len(Folder)]
        <5>1. n \in 0..Len(Folder)
          BY <1>2, <3>4
        <5>2. QED
          BY <1>1, <4>1, <5>1
      <4>3. \A v \in Video : hand' = v \/ v \in raw' => rows'[v] # "absent"
        BY <1>1, <2>3, <3>1, <4>1 DEF ScanShape
      <4>4. ASSUME NEW i \in DOMAIN Folder, OwnsItsStem(i), rows'[Folder[i]] # "absent"
            PROVE  file'[Folder[i]] = i
        <5>1. Folder[i] \in Video
          BY <1>2
        <5>2. CASE Folder[i] = Folder[n]
          <6>1. n = i
            BY <3>3, <4>4, <5>2 DEF OwnsItsStem
          <6>2. QED
            BY <1>1, <4>1, <6>1
        <5>3. CASE Folder[i] # Folder[n]
          <6>1. rows[Folder[i]] # "absent" /\ file'[Folder[i]] = file[Folder[i]]
            BY <1>1, <4>1, <4>4, <5>1, <5>3
          <6>2. QED
            BY <1>1, <2>3, <4>4, <6>1 DEF ScanShape
        <5>4. QED
          BY <5>2, <5>3
      <4>5. QED
        BY <3>1, <3>3, <4>2, <4>3, <4>4 DEF ScanShape, OwnsItsStem
    <3>7. QED
      BY <3>5, <3>6
  <2>4. QED
    BY <1>1, <2>2, <2>3
<1>4. CASE TakeFound
  <2>1. mode = "youtube" /\ mode' = "youtube"
    BY <1>1, <1>4 DEF TakeFound, ModeShape
  <2>2. file' \in [Video -> 0..Len(Folder)]
    BY <1>1, <1>2, <1>4 DEF TakeFound, Register
  <2>3. QED
    BY <2>1, <2>2 DEF ScanShape
<1>5. CASE YieldPending
  <2>1. Head(upcoming) \in ToSet(upcoming) /\ ToSet(Tail(upcoming)) \subseteq ToSet(upcoming)
        /\ Head(upcoming) \in Video
    BY <1>1, <1>5, TailToSet DEF YieldPending
  <2>2. QED
    BY <1>1, <1>5, <2>1 DEF YieldPending, ScanShape, vars
<1>6. CASE BeginFolder
  <2>1. upcoming' = Folder /\ place' = "folder" /\ UNCHANGED <<mode, rows, file, hand, raw>>
    BY <1>6 DEF BeginFolder, vars
  <2>2. Rest(Folder, Folder)
    BY <1>2 DEF Rest
  <2>3. QED
    BY <1>1, <1>2, <2>1, <2>2 DEF ScanShape
<1>7. ASSUME UNCHANGED <<mode, file>>, mode = "youtube"
      PROVE  ScanShape' /\ file' \in [Video -> 0..Len(Folder)]
  BY <1>1, <1>7 DEF ScanShape
<1>8. CASE BeginUrls \/ UrlsRaise \/ PutHand \/ Downloading \/ ConsumeResult
  BY <1>7, <1>8 DEF BeginUrls, UrlsRaise, PutHand, Downloading, ConsumeResult, intakeVars
<1>9. CASE BeginChannels \/ EndChannels \/ Discovering
  BY <1>1, <1>7, <1>9 DEF BeginChannels, EndChannels, Discovering, ModeShape, intakeVars
<1>10. ASSUME NEW v \in Video, NEW status \in {"RUNNING", "DONE", "FAILED"},
              hand = v \/ v \in raw, mode = "local",
              rows' = [rows EXCEPT ![v] = status],
              hand' \in {hand, NoVideo}, raw' \subseteq raw \union {v},
              UNCHANGED <<mode, file, place, upcoming>>
       PROVE  ScanShape' /\ file' \in [Video -> 0..Len(Folder)]
  <2>1. rows[v] # "absent"
    BY <1>1, <1>10 DEF ScanShape
  <2>2. \A u \in Video : rows'[u] # "absent" <=> rows[u] # "absent"
    BY <1>1, <1>10, <2>1
  <2>3. \A i \in DOMAIN Folder : Folder[i] \in Video
    BY <1>2
  <2>4. \A u \in Video :
            hand' = u \/ u \in raw' \/ (place' = "rows" /\ u \in ToSet(upcoming')) =>
                rows'[u] # "absent"
    BY <1>1, <1>10, <2>1, <2>2, Constants DEF ScanShape
  <2>5. \A i \in DOMAIN Folder :
            OwnsItsStem(i) /\ rows'[Folder[i]] # "absent" => file'[Folder[i]] = i
    BY <1>1, <1>10, <2>2, <2>3 DEF ScanShape
  <2>6. QED
    BY <1>1, <1>10, <2>4, <2>5 DEF ScanShape, OwnsItsStem
<1>11. CASE FileMissing \/ FileProbed
  <2>1. hand \in Video /\ mode = "local"
    BY <1>1, <1>11 DEF FileMissing, FileProbed
  <2>2. QED
    BY <1>10, <1>11, <2>1 DEF FileMissing, FileProbed
<1>12. ASSUME NEW v \in Video, ProcessVideo(v)
       PROVE  ScanShape' /\ file' \in [Video -> 0..Len(Folder)]
  <2>1. v \in raw /\ raw' \subseteq raw /\ UNCHANGED <<mode, file, place, upcoming, hand>>
    BY <1>12 DEF ProcessVideo, Process
  <2>2. CASE mode = "youtube"
    BY <1>7, <2>1, <2>2
  <2>3. CASE mode = "local"
    <3>1. PICK status \in {"DONE", "FAILED"} : rows' = [rows EXCEPT ![v] = status]
      BY <1>12 DEF ProcessVideo
    <3>2. QED
      BY <1>10, <2>1, <2>3, <3>1
  <2>4. QED
    BY <1>1, <2>2, <2>3
<1>13. CASE EndFolder
  BY <1>1, <1>13 DEF EndFolder, ScanShape
<1>14. CASE UNCHANGED allVars
  BY <1>1, <1>14 DEF allVars, vars, intakeVars, ScanShape
<1>15. QED
  BY <1>3, <1>4, <1>5, <1>6, <1>8, <1>9, <1>11, <1>12, <1>13, <1>14 DEF IntakeNext, Generator

\* A row is added with its video in hand, or nothing changes.
LEMMA RegisterFacts ==
    ASSUME rows \in [Video -> {"absent", "PENDING", "RUNNING", "DONE", "FAILED"}],
           hand = NoVideo, NEW v \in Video, NEW names, Register(v, names)
    PROVE  /\ rows' \in [Video -> {"absent", "PENDING", "RUNNING", "DONE", "FAILED"}]
           /\ hand' \in Video \union {NoVideo}
           /\ \A u \in Video : rows'[u] = "PENDING" => rows[u] = "PENDING" \/ hand' = u
           /\ \A u \in Video : rows[u] # "absent" => rows'[u] # "absent"
           /\ rows'[v] # "absent"
<1>1. CASE rows[v] # "absent"
  <2>1. UNCHANGED <<hand, rows>>
    BY <1>1 DEF Register
  <2> QED
    BY <1>1, <2>1
<1>2. CASE rows[v] = "absent"
  <2>1. hand' = v /\ rows' = [rows EXCEPT ![v] = "PENDING"]
    BY <1>2 DEF Register
  <2> QED
    BY <2>1
<1> QED
  BY <1>1, <1>2

LEMMA IntakeInvNext == IntakeInv /\ [IntakeNext]_allVars => IntakeInv'
<1> SUFFICES ASSUME IntakeInv, [IntakeNext]_allVars PROVE IntakeInv'
  OBVIOUS
<1>0. /\ workQ \in Seq(Video \union {Sentinel}) /\ resultQ \in Seq(Outcome \union {Sentinel})
      /\ listed \subseteq Channel /\ gone \subseteq Worker
      /\ upcoming \in Seq(Video) /\ foundQ \in Seq(Listed \union {DiscoverError, NoMore})
      /\ found \in [Channel -> Seq(Listed \union {DiscoverError})]
      /\ busy \in [Worker -> Video \union {NoVideo}] /\ hand \in Video \union {NoVideo}
      /\ producer \in [Channel -> {"created", "listing", "delaying", "putting", "done", "closed"}]
      /\ rows \in [Video -> {"absent", "PENDING", "RUNNING", "DONE", "FAILED"}]
      /\ mode \in {"youtube", "local"} /\ sentinels \in Nat
      /\ answered \in [Video -> Nat] /\ raw \subseteq Video
      /\ PendingTracked /\ ModeShape /\ FeederShape /\ WorkShape
      /\ ResultShape /\ FoundShape /\ Registered
  BY DEF IntakeInv, IntakeTypeOK, TypeOK, DiscoverTypeOK
<1>w. workQ \in Seq(Video \union {Sentinel})
  BY <1>0
<1>r. resultQ \in Seq(Outcome \union {Sentinel})
  BY <1>0
<1>f. foundQ \in Seq(Listed \union {DiscoverError, NoMore})
  BY <1>0
<1>s. /\ ToSet(VideoUrls) \subseteq Video /\ ToSet(Folder) \subseteq Video
      /\ \A c \in listed : ToSet(Catalog[c]) \subseteq Video
  BY <1>0, Constants
<1>g. ASSUME \A v \in Video : rows[v] # "absent" => rows'[v] # "absent",
             UNCHANGED <<mode, place, found, foundQ, listed>>,
             place \in {"urls", "folder"} => UNCHANGED upcoming
      PROVE  Registered'
  BY ONLY <1>0, <1>s, <1>g DEF Registered
<1>n. ScanShape' /\ file' \in [Video -> 0..Len(Folder)]
  BY ScanNext
<1> USE <1>0, <1>n, Constants DEF vars, discoverVars, intakeVars
<1>1. CASE YieldPending
  <2>1. /\ ToSet(upcoming) = {Head(upcoming)} \union ToSet(Tail(upcoming))
        /\ Head(upcoming) \in Video /\ Tail(upcoming) \in Seq(Video)
    BY <1>1, TailToSet DEF YieldPending, Asked, WorkShape, ResultShape, FoundShape, IntakeInv, IntakeTypeOK, TypeOK, Outcome
  <2>2. IntakeTypeOK'
    BY <1>1, <2>1 DEF YieldPending, Asked, IntakeTypeOK, TypeOK, DiscoverTypeOK, IntakeInv, FeederShape
  <2>3. PendingTracked'
    BY <1>1, <2>1 DEF YieldPending, Asked, PendingTracked, OnItsWay, ModeShape, FeederShape, WorkShape, ResultShape, FoundShape
  <2>4. ModeShape'
    BY <1>1, <2>1 DEF YieldPending, Asked, ModeShape, FeederShape, WorkShape, ResultShape, FoundShape
  <2>5. FeederShape'
    BY <1>1, <2>1 DEF YieldPending, Asked, ModeShape, FeederShape, WorkShape, ResultShape, FoundShape
  <2>6. WorkShape'
    BY <1>1, <2>1 DEF YieldPending, Asked, WorkShape, ModeShape, FeederShape, ResultShape, FoundShape
  <2>7. ResultShape'
    BY <1>1, <2>1 DEF YieldPending, Asked, ResultShape, ModeShape, FeederShape, WorkShape, FoundShape
  <2>8. FoundShape'
    BY <1>1, <2>1 DEF YieldPending, Asked, FoundShape, ModeShape, FeederShape, WorkShape, ResultShape
  <2>9. Registered'
    BY <1>1, <2>1 DEF YieldPending, Asked, Registered, ModeShape, FeederShape, WorkShape, ResultShape, FoundShape
  <2>10. QED
    BY <2>2, <2>3, <2>4, <2>5, <2>6, <2>7, <2>8, <2>9 DEF IntakeInv
<1>2. CASE YieldListed
  <2>1. /\ ToSet(upcoming) = {Head(upcoming)} \union ToSet(Tail(upcoming))
        /\ Head(upcoming) \in Video /\ Tail(upcoming) \in Seq(Video)
    BY <1>2, TailToSet DEF YieldListed, Asked, Register, WorkShape, ResultShape, FoundShape, IntakeInv, IntakeTypeOK, TypeOK, Outcome
  <2>2. /\ \A v \in Video : rows'[v] = "PENDING" => rows[v] = "PENDING" \/ hand' = v
        /\ \A v \in Video : rows[v] # "absent" => rows'[v] # "absent"
        /\ rows'[Head(upcoming)] # "absent"
        /\ hand = NoVideo
    <3>1. hand = NoVideo /\ Register(Head(upcoming), NextFile)
      BY <1>2 DEF YieldListed, Asked
    <3>2. QED
      BY ONLY <1>0, <2>1, <3>1, RegisterFacts
  <2>3. IntakeTypeOK'
    <3>1. hand = NoVideo /\ Register(Head(upcoming), NextFile) /\ upcoming' = Tail(upcoming)
      BY <1>2 DEF YieldListed, Asked
    <3>2. UNCHANGED <<mode, place, vars, discoverVars>>
      BY ONLY <1>2 DEF YieldListed
    <3>3. /\ rows' \in [Video -> {"absent", "PENDING", "RUNNING", "DONE", "FAILED"}]
          /\ hand' \in Video \union {NoVideo}
      BY ONLY <1>0, <2>1, <3>1, RegisterFacts
    <3>4. TypeOK' /\ DiscoverTypeOK'
      BY ONLY <3>2, IntakeInv DEF IntakeInv, IntakeTypeOK, TypeOK, DiscoverTypeOK, vars, discoverVars
    <3>5. mode \in {"youtube", "local"} /\ place \in {"rows", "urls", "channels", "folder", "end"}
      BY DEF IntakeInv, IntakeTypeOK
    <3>6. QED
      BY ONLY <1>n, <2>1, <3>1, <3>2, <3>3, <3>4, <3>5 DEF IntakeTypeOK
  <2>4. PendingTracked'
    <3> SUFFICES ASSUME NEW v \in Video, rows'[v] = "PENDING" PROVE OnItsWay(v)'
      BY DEF PendingTracked
    <3>1. UNCHANGED <<place, workQ, resultQ, busy>> /\ place # "rows"
      BY <1>2 DEF YieldListed
    <3>2. CASE hand' = v
      BY <3>2 DEF OnItsWay
    <3>3. CASE rows[v] = "PENDING" /\ hand' # v
      <4>1. OnItsWay(v)
        BY <3>3 DEF PendingTracked
      <4>2. QED
        BY <2>2, <3>1, <4>1 DEF OnItsWay
    <3>4. QED
      BY <2>2, <3>2, <3>3
  <2>5. ModeShape'
    BY <1>2, <2>1, <2>2 DEF YieldListed, Asked, Register, ModeShape, FeederShape, WorkShape, ResultShape, FoundShape
  <2>6. FeederShape'
    BY <1>2, <2>1, <2>2 DEF YieldListed, Asked, Register, ModeShape, FeederShape, WorkShape, ResultShape, FoundShape
  <2>7. WorkShape'
    BY <1>2, <2>1, <2>2 DEF YieldListed, Asked, Register, WorkShape, ModeShape, FeederShape, ResultShape, FoundShape
  <2>8. ResultShape'
    BY <1>2, <2>1, <2>2 DEF YieldListed, Asked, Register, ResultShape, ModeShape, FeederShape, WorkShape, FoundShape
  <2>9. FoundShape'
    BY <1>2, <2>1, <2>2 DEF YieldListed, Asked, Register, FoundShape, ModeShape, FeederShape, WorkShape, ResultShape
  <2>10. Registered'
    BY <1>2, <2>1, <2>2 DEF YieldListed, Asked, Registered
  <2>11. QED
    BY <2>3, <2>4, <2>5, <2>6, <2>7, <2>8, <2>9, <2>10 DEF IntakeInv
<1>3. CASE BeginUrls
  <2>1. ToSet(<<>>) = {}
    BY EmptyToSet
  <2>2. VideoUrls \in Seq(Video)
    BY IntakeAssumption DEF IntakeAssumption
  <2>3. IntakeTypeOK'
    BY <1>3, <2>1, <2>2 DEF BeginUrls, Asked, IntakeTypeOK, TypeOK, DiscoverTypeOK, IntakeInv, FeederShape
  <2>4. PendingTracked'
    BY <1>3, <2>1, <2>2 DEF BeginUrls, Asked, PendingTracked, OnItsWay, ModeShape, FeederShape, WorkShape, ResultShape, FoundShape
  <2>5. ModeShape'
    BY <1>3, <2>1, <2>2 DEF BeginUrls, Asked, ModeShape, FeederShape, WorkShape, ResultShape, FoundShape
  <2>6. FeederShape'
    BY <1>3, <2>1, <2>2 DEF BeginUrls, Asked, ModeShape, FeederShape, WorkShape, ResultShape, FoundShape
  <2>7. WorkShape'
    BY <1>3, <2>1, <2>2 DEF BeginUrls, Asked, WorkShape, ModeShape, FeederShape, ResultShape, FoundShape
  <2>8. ResultShape'
    BY <1>3, <2>1, <2>2 DEF BeginUrls, Asked, ResultShape, ModeShape, FeederShape, WorkShape, FoundShape
  <2>9. FoundShape'
    BY <1>3, <2>1, <2>2 DEF BeginUrls, Asked, FoundShape, ModeShape, FeederShape, WorkShape, ResultShape
  <2>10. Registered'
    BY <1>3, <2>1, <2>2 DEF BeginUrls, Asked, Registered, ModeShape, FeederShape, WorkShape, ResultShape, FoundShape
  <2>11. QED
    BY <2>3, <2>4, <2>5, <2>6, <2>7, <2>8, <2>9, <2>10 DEF IntakeInv
<1>4. CASE UrlsRaise
  <2>1. IntakeTypeOK'
    BY <1>4 DEF UrlsRaise, Asked, FeederRaises, IntakeTypeOK, TypeOK, DiscoverTypeOK, IntakeInv, FeederShape
  <2>2. PendingTracked'
    BY <1>4 DEF UrlsRaise, Asked, FeederRaises, PendingTracked, OnItsWay, ModeShape, FeederShape, WorkShape, ResultShape, FoundShape
  <2>3. ModeShape'
    BY <1>4 DEF UrlsRaise, Asked, FeederRaises, ModeShape, FeederShape, WorkShape, ResultShape, FoundShape
  <2>4. FeederShape'
    BY <1>4 DEF UrlsRaise, Asked, FeederRaises, ModeShape, FeederShape, WorkShape, ResultShape, FoundShape
  <2>5. WorkShape'
    BY <1>4 DEF UrlsRaise, Asked, FeederRaises, WorkShape, ModeShape, FeederShape, ResultShape, FoundShape
  <2>6. ResultShape'
    BY <1>4 DEF UrlsRaise, Asked, FeederRaises, ResultShape, ModeShape, FeederShape, WorkShape, FoundShape
  <2>7. FoundShape'
    BY <1>4 DEF UrlsRaise, Asked, FeederRaises, FoundShape, ModeShape, FeederShape, WorkShape, ResultShape
  <2>8. Registered'
    BY <1>4 DEF UrlsRaise, Asked, FeederRaises, Registered, ModeShape, FeederShape, WorkShape, ResultShape, FoundShape
  <2>9. QED
    BY <2>1, <2>2, <2>3, <2>4, <2>5, <2>6, <2>7, <2>8 DEF IntakeInv
<1>5. CASE BeginChannels
  <2>1. ToSet(<<>>) = {}
    BY EmptyToSet
  <2>2. IntakeTypeOK'
    BY <1>5, <2>1 DEF BeginChannels, Asked, IntakeTypeOK, TypeOK, DiscoverTypeOK, IntakeInv, FeederShape
  <2>3. PendingTracked'
    BY <1>5, <2>1 DEF BeginChannels, Asked, PendingTracked, OnItsWay, ModeShape, FeederShape, WorkShape, ResultShape, FoundShape
  <2>4. ModeShape'
    BY <1>5, <2>1 DEF BeginChannels, Asked, ModeShape, FeederShape, WorkShape, ResultShape, FoundShape
  <2>5. FeederShape'
    BY <1>5, <2>1 DEF BeginChannels, Asked, ModeShape, FeederShape, WorkShape, ResultShape, FoundShape
  <2>6. WorkShape'
    BY <1>5, <2>1 DEF BeginChannels, Asked, WorkShape, ModeShape, FeederShape, ResultShape, FoundShape
  <2>7. ResultShape'
    BY <1>5, <2>1 DEF BeginChannels, Asked, ResultShape, ModeShape, FeederShape, WorkShape, FoundShape
  <2>8. FoundShape'
    BY <1>5, <2>1 DEF BeginChannels, Asked, FoundShape, ModeShape, FeederShape, WorkShape, ResultShape
  <2>9. Registered'
    BY <1>5, <2>1 DEF BeginChannels, Asked, Registered, ModeShape, FeederShape, WorkShape, ResultShape, FoundShape
  <2>10. QED
    BY <2>2, <2>3, <2>4, <2>5, <2>6, <2>7, <2>8, <2>9 DEF IntakeInv
<1>6. CASE TakeFound
  <2>1. /\ ToSet(foundQ) = {Head(foundQ)} \union ToSet(Tail(foundQ))
        /\ Head(foundQ) \in Listed \union {DiscoverError, NoMore}
        /\ Tail(foundQ) \in Seq(Listed \union {DiscoverError, NoMore})
        /\ OnlyLast(Tail(foundQ), NoMore)
        /\ Head(foundQ) = NoMore => Tail(foundQ) = <<>>
    BY <1>6, TailToSet, TailOnlyLast DEF TakeFound, Asked, Register, WorkShape, ResultShape, FoundShape, IntakeInv, IntakeTypeOK, TypeOK, Outcome
  <2>2. /\ \A v \in Video : rows'[v] = "PENDING" => rows[v] = "PENDING" \/ hand' = v
        /\ \A v \in Video : rows[v] # "absent" => rows'[v] # "absent"
        /\ Head(foundQ) # DiscoverError => rows'[Head(foundQ)] # "absent"
        /\ hand = NoVideo
    <3>1. hand = NoVideo /\ Head(foundQ) # NoMore
      BY <1>6 DEF TakeFound, Asked
    <3>2. CASE Head(foundQ) = DiscoverError
      BY <1>6, <3>1, <3>2 DEF TakeFound
    <3>3. CASE Head(foundQ) # DiscoverError
      <4>1. Register(Head(foundQ), 0)
        BY <1>6, <3>3 DEF TakeFound
      <4>2. Head(foundQ) \in Video
        BY <2>1, <3>1, <3>3
      <4>3. QED
        BY ONLY <1>0, <3>1, <4>1, <4>2, RegisterFacts
    <3>4. QED
      BY ONLY <3>2, <3>3
  <2>3. IntakeTypeOK'
    <3>1. hand = NoVideo /\ Head(foundQ) # NoMore /\ foundQ' = Tail(foundQ)
      BY <1>6 DEF TakeFound, Asked
    <3>2. UNCHANGED <<mode, place, upcoming, producer, found, listed, vars>>
      BY ONLY <1>6 DEF TakeFound
    <3>3. /\ rows' \in [Video -> {"absent", "PENDING", "RUNNING", "DONE", "FAILED"}]
          /\ hand' \in Video \union {NoVideo}
      <4>1. CASE Head(foundQ) = DiscoverError
        BY <1>6, <4>1 DEF TakeFound
      <4>2. CASE Head(foundQ) # DiscoverError
        <5>1. Register(Head(foundQ), 0)
          BY <1>6, <4>2 DEF TakeFound
        <5>2. Head(foundQ) \in Video
          BY <2>1, <3>1, <4>2
        <5>3. QED
          BY ONLY <1>0, <3>1, <5>1, <5>2, RegisterFacts
      <4>3. QED
        BY ONLY <4>1, <4>2
    <3>4. TypeOK'
      BY ONLY <3>2, IntakeInv DEF IntakeInv, IntakeTypeOK, TypeOK, vars
    <3>5. DiscoverTypeOK'
      BY ONLY <1>0, <2>1, <3>1, <3>2 DEF DiscoverTypeOK
    <3>6. mode \in {"youtube", "local"} /\ place \in {"rows", "urls", "channels", "folder", "end"}
      BY DEF IntakeInv, IntakeTypeOK
    <3>7. QED
      BY ONLY <1>0, <1>n, <3>2, <3>3, <3>4, <3>5, <3>6 DEF IntakeTypeOK
  <2>4. PendingTracked'
    <3> SUFFICES ASSUME NEW v \in Video, rows'[v] = "PENDING" PROVE OnItsWay(v)'
      BY DEF PendingTracked
    <3>1. UNCHANGED <<place, upcoming, workQ, busy, resultQ>> /\ place = "channels"
      BY ONLY <1>6 DEF TakeFound, vars
    <3>2. CASE hand' = v
      BY ONLY <3>2 DEF OnItsWay
    <3>3. CASE rows[v] = "PENDING"
      <4>1. OnItsWay(v) /\ hand # v
        BY ONLY <1>0, <2>2, <3>3, Constants DEF PendingTracked
      <4>2. QED
        BY ONLY <3>1, <4>1 DEF OnItsWay
    <3>4. QED
      BY <2>2, <3>2, <3>3
  <2>5. ModeShape'
    BY <1>6, <2>1, <2>2 DEF TakeFound, Asked, Register, ModeShape, FeederShape, WorkShape, ResultShape, FoundShape
  <2>6. FeederShape'
    BY <1>6, <2>1, <2>2 DEF TakeFound, Asked, Register, ModeShape, FeederShape, WorkShape, ResultShape, FoundShape
  <2>7. WorkShape'
    BY <1>6, <2>1, <2>2 DEF TakeFound, Asked, Register, WorkShape, ModeShape, FeederShape, ResultShape, FoundShape
  <2>8. ResultShape'
    BY <1>6, <2>1, <2>2 DEF TakeFound, Asked, Register, ResultShape, ModeShape, FeederShape, WorkShape, FoundShape
  <2>9. FoundShape'
    BY <1>6, <2>1, <2>2 DEF TakeFound, Asked, Register, FoundShape, ModeShape, FeederShape, WorkShape, ResultShape
  <2>10. Registered'
    <3>1. UNCHANGED <<mode, place, found, listed>> /\ place = "channels" /\ foundQ' = Tail(foundQ)
      BY ONLY <1>6 DEF TakeFound
    <3>2. place' # "urls" /\ place' # "folder" /\ place' # "end"
      BY ONLY <3>1
    <3>3. \A v \in ToSet(VideoUrls) : rows'[v] # "absent"
      BY ONLY <1>0, <1>s, <2>2, <3>1 DEF Registered
    <3>4. ASSUME NEW c \in listed, NEW v \in ToSet(Catalog[c])
          PROVE  rows'[v] # "absent" \/ v \in ToSet(found[c]) \/ v \in ToSet(Tail(foundQ))
      <4>1. v \in Video /\ v # DiscoverError
        BY ONLY <1>s, <3>4, Constants
      <4>2. rows[v] # "absent" \/ v \in ToSet(found[c]) \/ v \in ToSet(foundQ)
        BY ONLY <1>0, <3>4 DEF Registered
      <4>3. v \in ToSet(foundQ) => v = Head(foundQ) \/ v \in ToSet(Tail(foundQ))
        BY ONLY <2>1
      <4>4. QED
        BY ONLY <2>2, <4>1, <4>2, <4>3
    <3>5. QED
      BY ONLY <3>1, <3>2, <3>3, <3>4 DEF Registered
  <2>11. QED
    BY <2>3, <2>4, <2>5, <2>6, <2>7, <2>8, <2>9, <2>10 DEF IntakeInv
<1>7. CASE EndChannels
  <2>1. /\ ToSet(foundQ) = {Head(foundQ)} \union ToSet(Tail(foundQ))
        /\ Head(foundQ) \in Listed \union {DiscoverError, NoMore}
        /\ Tail(foundQ) \in Seq(Listed \union {DiscoverError, NoMore})
        /\ OnlyLast(Tail(foundQ), NoMore)
        /\ Head(foundQ) = NoMore => Tail(foundQ) = <<>>
    BY <1>7, TailToSet, TailOnlyLast DEF EndChannels, Asked, FeederEnds, WorkShape, ResultShape, FoundShape, IntakeInv, IntakeTypeOK, TypeOK, Outcome
  <2>2. ToSet(<<>>) = {}
    BY EmptyToSet
  <2>3. /\ \A v \in Video : v \notin ToSet(foundQ)
        /\ \A d \in Channel : ToSet(found[d]) = {}
    BY <1>7, <2>1, <2>2 DEF EndChannels, Asked, FeederEnds, WorkShape, ResultShape, FoundShape, IntakeInv, IntakeTypeOK, TypeOK, Outcome
  <2>4. IntakeTypeOK'
    BY <1>7, <2>1, <2>2, <2>3 DEF EndChannels, Asked, FeederEnds, IntakeTypeOK, TypeOK, DiscoverTypeOK, IntakeInv, FeederShape
  <2>5. PendingTracked'
    BY <1>7, <2>1, <2>2, <2>3 DEF EndChannels, Asked, FeederEnds, PendingTracked, OnItsWay, ModeShape, FeederShape, WorkShape, ResultShape, FoundShape
  <2>6. ModeShape'
    BY <1>7, <2>1, <2>2, <2>3 DEF EndChannels, Asked, FeederEnds, ModeShape, FeederShape, WorkShape, ResultShape, FoundShape
  <2>7. FeederShape'
    BY <1>7, <2>1, <2>2, <2>3 DEF EndChannels, Asked, FeederEnds, ModeShape, FeederShape, WorkShape, ResultShape, FoundShape
  <2>8. WorkShape'
    BY <1>7, <2>1, <2>2, <2>3 DEF EndChannels, Asked, FeederEnds, WorkShape, ModeShape, FeederShape, ResultShape, FoundShape
  <2>9. ResultShape'
    BY <1>7, <2>1, <2>2, <2>3 DEF EndChannels, Asked, FeederEnds, ResultShape, ModeShape, FeederShape, WorkShape, FoundShape
  <2>10. FoundShape'
    BY <1>7, <2>1, <2>2, <2>3 DEF EndChannels, Asked, FeederEnds, FoundShape, ModeShape, FeederShape, WorkShape, ResultShape
  <2>11. Registered'
    BY <1>7, <2>1, <2>3 DEF EndChannels, Asked, FeederEnds, Registered, ModeShape
  <2>12. QED
    BY <2>4, <2>5, <2>6, <2>7, <2>8, <2>9, <2>10, <2>11 DEF IntakeInv
<1>8. CASE PutHand
  <2>1. hand \in Video /\ hand \in Video \union {Sentinel} /\ workQ' = Append(workQ, hand) /\ OnlyBehind(workQ, Sentinel)
    BY <1>8 DEF PutHand, PutItem, Full, WorkShape, ResultShape, FoundShape, IntakeInv, IntakeTypeOK, TypeOK, Outcome
  <2>2. /\ workQ' \in Seq(Video \union {Sentinel}) /\ workQ' # <<>>
        /\ ToSet(workQ') = ToSet(workQ) \union {hand}
    BY ONLY <1>w, <2>1, AppendToSet
  <2>3. Sentinel \notin ToSet(workQ) => OnlyBehind(workQ', Sentinel)
    BY <2>1, <2>2, AppendOnlyBehind
  <2>4. IntakeTypeOK'
    BY <1>8, <2>1, <2>2, <2>3 DEF PutHand, PutItem, Full, IntakeTypeOK, TypeOK, DiscoverTypeOK, IntakeInv, FeederShape
  <2>5. PendingTracked'
    BY <1>8, <2>1, <2>2, <2>3 DEF PutHand, PutItem, Full, PendingTracked, OnItsWay, ModeShape, FeederShape, WorkShape, ResultShape, FoundShape
  <2>6. ModeShape'
    BY <1>8, <2>1, <2>2, <2>3 DEF PutHand, PutItem, Full, ModeShape, FeederShape, WorkShape, ResultShape, FoundShape
  <2>7. FeederShape'
    BY <1>8, <2>1, <2>2, <2>3 DEF PutHand, PutItem, Full, ModeShape, FeederShape, WorkShape, ResultShape, FoundShape
  <2>8. WorkShape'
    BY <1>8, <2>1, <2>2, <2>3 DEF PutHand, PutItem, Full, WorkShape, ModeShape, FeederShape, ResultShape, FoundShape
  <2>9. ResultShape'
    BY <1>8, <2>1, <2>2, <2>3 DEF PutHand, PutItem, Full, ResultShape, ModeShape, FeederShape, WorkShape, FoundShape
  <2>10. FoundShape'
    BY <1>8, <2>1, <2>2, <2>3 DEF PutHand, PutItem, Full, FoundShape, ModeShape, FeederShape, WorkShape, ResultShape
  <2>11. Registered'
    BY <1>8, <2>1, <2>2, <2>3 DEF PutHand, PutItem, Full, Registered, ModeShape, FeederShape, WorkShape, ResultShape, FoundShape
  <2>12. QED
    BY <2>4, <2>5, <2>6, <2>7, <2>8, <2>9, <2>10, <2>11 DEF IntakeInv
<1>9. CASE BeginFolder
  <2>1. ToSet(<<>>) = {}
    BY EmptyToSet
  <2>2. Folder \in Seq(Video)
    BY IntakeAssumption DEF IntakeAssumption
  <2>3. IntakeTypeOK'
    BY <1>9, <2>1, <2>2 DEF BeginFolder, Asked, IntakeTypeOK, TypeOK, DiscoverTypeOK, IntakeInv, FeederShape
  <2>4. PendingTracked'
    BY <1>9, <2>1, <2>2 DEF BeginFolder, Asked, PendingTracked, OnItsWay, ModeShape, FeederShape, WorkShape, ResultShape, FoundShape
  <2>5. ModeShape'
    BY <1>9, <2>1, <2>2 DEF BeginFolder, Asked, ModeShape, FeederShape, WorkShape, ResultShape, FoundShape
  <2>6. FeederShape'
    BY <1>9, <2>1, <2>2 DEF BeginFolder, Asked, ModeShape, FeederShape, WorkShape, ResultShape, FoundShape
  <2>7. WorkShape'
    BY <1>9, <2>1, <2>2 DEF BeginFolder, Asked, WorkShape, ModeShape, FeederShape, ResultShape, FoundShape
  <2>8. ResultShape'
    BY <1>9, <2>1, <2>2 DEF BeginFolder, Asked, ResultShape, ModeShape, FeederShape, WorkShape, FoundShape
  <2>9. FoundShape'
    BY <1>9, <2>1, <2>2 DEF BeginFolder, Asked, FoundShape, ModeShape, FeederShape, WorkShape, ResultShape
  <2>10. Registered'
    BY <1>9, <2>1, <2>2 DEF BeginFolder, Asked, Registered, ModeShape, FeederShape, WorkShape, ResultShape, FoundShape
  <2>11. QED
    BY <2>3, <2>4, <2>5, <2>6, <2>7, <2>8, <2>9, <2>10 DEF IntakeInv
<1>10. CASE FileMissing
  <2>1. answered' \in [Video -> Nat] /\ raw' \subseteq Video
    BY <1>10 DEF FileMissing, Answer, WorkShape, ResultShape, FoundShape, IntakeInv, IntakeTypeOK, TypeOK, Outcome
  <2>2. IntakeTypeOK'
    BY <1>10, <2>1 DEF FileMissing, Answer, IntakeTypeOK, TypeOK, DiscoverTypeOK, IntakeInv, FeederShape
  <2>3. PendingTracked'
    BY <1>10, <2>1 DEF FileMissing, Answer, PendingTracked, OnItsWay, ModeShape, FeederShape, WorkShape, ResultShape, FoundShape
  <2>4. ModeShape'
    BY <1>10, <2>1 DEF FileMissing, Answer, ModeShape, FeederShape, WorkShape, ResultShape, FoundShape
  <2>5. FeederShape'
    BY <1>10, <2>1 DEF FileMissing, Answer, ModeShape, FeederShape, WorkShape, ResultShape, FoundShape
  <2>6. WorkShape'
    BY <1>10, <2>1 DEF FileMissing, Answer, WorkShape, ModeShape, FeederShape, ResultShape, FoundShape
  <2>7. ResultShape'
    BY <1>10, <2>1 DEF FileMissing, Answer, ResultShape, ModeShape, FeederShape, WorkShape, FoundShape
  <2>8. FoundShape'
    BY <1>10, <2>1 DEF FileMissing, Answer, FoundShape, ModeShape, FeederShape, WorkShape, ResultShape
  <2>9. Registered'
    BY <1>10, <2>1 DEF FileMissing, Answer, Registered, ModeShape, FeederShape, WorkShape, ResultShape, FoundShape
  <2>10. QED
    BY <2>2, <2>3, <2>4, <2>5, <2>6, <2>7, <2>8, <2>9 DEF IntakeInv
<1>11. CASE FileProbed
  <2>1. answered' \in [Video -> Nat] /\ raw' \subseteq Video
    BY <1>11 DEF FileProbed, Answer, WorkShape, ResultShape, FoundShape, IntakeInv, IntakeTypeOK, TypeOK, Outcome
  <2>2. IntakeTypeOK'
    BY <1>11, <2>1 DEF FileProbed, Answer, IntakeTypeOK, TypeOK, DiscoverTypeOK, IntakeInv, FeederShape
  <2>3. PendingTracked'
    BY <1>11, <2>1 DEF FileProbed, Answer, PendingTracked, OnItsWay, ModeShape, FeederShape, WorkShape, ResultShape, FoundShape
  <2>4. ModeShape'
    BY <1>11, <2>1 DEF FileProbed, Answer, ModeShape, FeederShape, WorkShape, ResultShape, FoundShape
  <2>5. FeederShape'
    BY <1>11, <2>1 DEF FileProbed, Answer, ModeShape, FeederShape, WorkShape, ResultShape, FoundShape
  <2>6. WorkShape'
    BY <1>11, <2>1 DEF FileProbed, Answer, WorkShape, ModeShape, FeederShape, ResultShape, FoundShape
  <2>7. ResultShape'
    BY <1>11, <2>1 DEF FileProbed, Answer, ResultShape, ModeShape, FeederShape, WorkShape, FoundShape
  <2>8. FoundShape'
    BY <1>11, <2>1 DEF FileProbed, Answer, FoundShape, ModeShape, FeederShape, WorkShape, ResultShape
  <2>9. Registered'
    BY <1>11, <2>1 DEF FileProbed, Answer, Registered, ModeShape, FeederShape, WorkShape, ResultShape, FoundShape
  <2>10. QED
    BY <2>2, <2>3, <2>4, <2>5, <2>6, <2>7, <2>8, <2>9 DEF IntakeInv
<1>12. CASE EndFolder
  <2>1. ToSet(<<>>) = {}
    BY EmptyToSet
  <2>2. IntakeTypeOK'
    BY <1>12, <2>1 DEF EndFolder, Asked, IntakeTypeOK, TypeOK, DiscoverTypeOK, IntakeInv, FeederShape
  <2>3. PendingTracked'
    BY <1>12, <2>1 DEF EndFolder, Asked, PendingTracked, OnItsWay, ModeShape, FeederShape, WorkShape, ResultShape, FoundShape
  <2>4. ModeShape'
    BY <1>12, <2>1 DEF EndFolder, Asked, ModeShape, FeederShape, WorkShape, ResultShape, FoundShape
  <2>5. FeederShape'
    BY <1>12, <2>1 DEF EndFolder, Asked, ModeShape, FeederShape, WorkShape, ResultShape, FoundShape
  <2>6. WorkShape'
    BY <1>12, <2>1 DEF EndFolder, Asked, WorkShape, ModeShape, FeederShape, ResultShape, FoundShape
  <2>7. ResultShape'
    BY <1>12, <2>1 DEF EndFolder, Asked, ResultShape, ModeShape, FeederShape, WorkShape, FoundShape
  <2>8. FoundShape'
    BY <1>12, <2>1 DEF EndFolder, Asked, FoundShape, ModeShape, FeederShape, WorkShape, ResultShape
  <2>9. Registered'
    BY <1>12, <2>1 DEF EndFolder, Asked, Registered, ModeShape, FeederShape, WorkShape, ResultShape, FoundShape
  <2>10. QED
    BY <2>2, <2>3, <2>4, <2>5, <2>6, <2>7, <2>8, <2>9 DEF IntakeInv
<1>13. ASSUME NEW c \in Channel, StartListing(c),
              place = "channels", UNCHANGED <<vars, intakeVars>>
       PROVE IntakeInv'
  <2>1. IntakeTypeOK'
    BY <1>13 DEF StartListing, IntakeTypeOK, TypeOK, DiscoverTypeOK, IntakeInv, FeederShape
  <2>2. PendingTracked'
    BY <1>13 DEF StartListing, PendingTracked, OnItsWay, ModeShape, FeederShape, WorkShape, ResultShape, FoundShape
  <2>3. ModeShape'
    BY <1>13 DEF StartListing, ModeShape, FeederShape, WorkShape, ResultShape, FoundShape
  <2>4. FeederShape'
    BY <1>13 DEF StartListing, ModeShape, FeederShape, WorkShape, ResultShape, FoundShape
  <2>5. WorkShape'
    BY <1>13 DEF StartListing, WorkShape, ModeShape, FeederShape, ResultShape, FoundShape
  <2>6. ResultShape'
    BY <1>13 DEF StartListing, ResultShape, ModeShape, FeederShape, WorkShape, FoundShape
  <2>7. FoundShape'
    BY <1>13 DEF StartListing, FoundShape, ModeShape, FeederShape, WorkShape, ResultShape
  <2>8. Registered'
    BY <1>13 DEF StartListing, Registered, ModeShape, FeederShape, WorkShape, ResultShape, FoundShape
  <2>9. QED
    BY <2>1, <2>2, <2>3, <2>4, <2>5, <2>6, <2>7, <2>8 DEF IntakeInv
<1>14. ASSUME NEW c \in Channel, List(c),
              place = "channels", UNCHANGED <<vars, intakeVars>>
       PROVE IntakeInv'
  <2>1. <<DiscoverError>> \in Seq(Listed \union {DiscoverError})
    OBVIOUS
  <2>2. /\ found' \in [Channel -> Seq(Listed \union {DiscoverError})]
        /\ \A d \in Channel : d # c => found'[d] = found[d]
        /\ \A d \in listed' : (d \in listed /\ d # c) \/ (d = c /\ found'[c] = Catalog[c])
    <3>1. c \notin listed
      BY <1>14 DEF List, FoundShape
    <3>2. PICK puts \in Seq(Listed \union {DiscoverError}) : found' = [found EXCEPT ![c] = puts]
      <4>1. CASE found' = [found EXCEPT ![c] = Catalog[c]]
        BY <4>1
      <4>2. CASE found' = [found EXCEPT ![c] = <<DiscoverError>>]
        BY <2>1, <4>2
      <4>3. QED
        BY <1>14, <4>1, <4>2 DEF List
    <3>3. found' \in [Channel -> Seq(Listed \union {DiscoverError})]
      BY <3>2
    <3>4. \A d \in Channel : d # c => found'[d] = found[d]
      BY <3>2
    <3>5. \A d \in listed' : (d \in listed /\ d # c) \/ (d = c /\ found'[c] = Catalog[c])
      <4>1. CASE found' = [found EXCEPT ![c] = Catalog[c]] /\ listed' = listed \union {c}
        <5>1. found'[c] = Catalog[c]
          BY <4>1
        <5>2. QED
          BY <3>1, <4>1, <5>1
      <4>2. CASE listed' = listed
        BY <3>1, <4>2
      <4>3. QED
        BY <1>14, <4>1, <4>2 DEF List
    <3>6. QED
      BY <3>3, <3>4, <3>5
  <2>3. IntakeTypeOK'
    BY <1>14, <2>2 DEF List, IntakeTypeOK, TypeOK, DiscoverTypeOK, IntakeInv
  <2>4. PendingTracked'
    BY <1>14, <2>1, <2>2 DEF List, PendingTracked, OnItsWay, ModeShape, FeederShape, WorkShape, ResultShape, FoundShape
  <2>5. ModeShape'
    BY <1>14, <2>1, <2>2 DEF List, ModeShape, FeederShape, WorkShape, ResultShape, FoundShape
  <2>6. FeederShape'
    BY <1>14, <2>1, <2>2 DEF List, ModeShape, FeederShape, WorkShape, ResultShape, FoundShape
  <2>7. WorkShape'
    BY <1>14, <2>1, <2>2 DEF List, WorkShape, ModeShape, FeederShape, ResultShape, FoundShape
  <2>8. ResultShape'
    BY <1>14, <2>1, <2>2 DEF List, ResultShape, ModeShape, FeederShape, WorkShape, FoundShape
  <2>9. FoundShape'
    BY <1>14, <2>1, <2>2 DEF List, FoundShape, ModeShape, FeederShape, WorkShape, ResultShape
  <2>10. Registered'
    BY <1>14, <2>2 DEF List, Registered, FoundShape
  <2>11. QED
    BY <2>3, <2>4, <2>5, <2>6, <2>7, <2>8, <2>9, <2>10 DEF IntakeInv
<1>15. ASSUME NEW c \in Channel, EndDelay(c),
              place = "channels", UNCHANGED <<vars, intakeVars>>
       PROVE IntakeInv'
  <2>1. ToSet(<<>>) = {}
    BY EmptyToSet
  <2>2. IntakeTypeOK'
    BY <1>15, <2>1 DEF EndDelay, IntakeTypeOK, TypeOK, DiscoverTypeOK, IntakeInv, FeederShape
  <2>3. PendingTracked'
    BY <1>15, <2>1 DEF EndDelay, PendingTracked, OnItsWay, ModeShape, FeederShape, WorkShape, ResultShape, FoundShape
  <2>4. ModeShape'
    BY <1>15, <2>1 DEF EndDelay, ModeShape, FeederShape, WorkShape, ResultShape, FoundShape
  <2>5. FeederShape'
    BY <1>15, <2>1 DEF EndDelay, ModeShape, FeederShape, WorkShape, ResultShape, FoundShape
  <2>6. WorkShape'
    BY <1>15, <2>1 DEF EndDelay, WorkShape, ModeShape, FeederShape, ResultShape, FoundShape
  <2>7. ResultShape'
    BY <1>15, <2>1 DEF EndDelay, ResultShape, ModeShape, FeederShape, WorkShape, FoundShape
  <2>8. FoundShape'
    BY <1>15, <2>1 DEF EndDelay, FoundShape, ModeShape, FeederShape, WorkShape, ResultShape
  <2>9. Registered'
    BY <1>15, <2>1 DEF EndDelay, Registered, ModeShape, FeederShape, WorkShape, ResultShape, FoundShape
  <2>10. QED
    BY <2>2, <2>3, <2>4, <2>5, <2>6, <2>7, <2>8, <2>9 DEF IntakeInv
<1>16. ASSUME NEW c \in Channel, PutFound(c),
              place = "channels", UNCHANGED <<vars, intakeVars>>
       PROVE IntakeInv'
  <2>1. /\ ToSet(found[c]) = {Head(found[c])} \union ToSet(Tail(found[c]))
        /\ Head(found[c]) \in Listed \union {DiscoverError}
        /\ Tail(found[c]) \in Seq(Listed \union {DiscoverError})
        /\ Len(found[c]) = 1 => Tail(found[c]) = <<>>
        /\ Len(found[c]) # 1 => Tail(found[c]) # <<>>
    BY <1>16, TailToSet DEF PutFound, FoundFull, WorkShape, ResultShape, FoundShape, IntakeInv, IntakeTypeOK, TypeOK, Outcome
  <2>2. Head(found[c]) \in Listed \union {DiscoverError, NoMore} /\ foundQ' = Append(foundQ, Head(found[c])) /\ OnlyLast(foundQ, NoMore)
    BY <1>16, <2>1 DEF PutFound, FoundFull, WorkShape, ResultShape, FoundShape, IntakeInv, IntakeTypeOK, TypeOK, Outcome
  <2>3. /\ foundQ' \in Seq(Listed \union {DiscoverError, NoMore}) /\ foundQ' # <<>>
        /\ ToSet(foundQ') = ToSet(foundQ) \union {Head(found[c])}
    BY ONLY <1>f, <2>2, AppendToSet
  <2>4. NoMore \notin ToSet(foundQ) => OnlyLast(foundQ', NoMore)
    BY <2>1, <2>2, <2>3, AppendOnlyLast
  <2>5. IntakeTypeOK'
    BY <1>16, <2>1, <2>2, <2>3, <2>4 DEF PutFound, FoundFull, IntakeTypeOK, TypeOK, DiscoverTypeOK, IntakeInv, FeederShape
  <2>6. PendingTracked'
    BY <1>16, <2>1, <2>2, <2>3, <2>4 DEF PutFound, FoundFull, PendingTracked, OnItsWay, ModeShape, FeederShape, WorkShape, ResultShape, FoundShape
  <2>7. ModeShape'
    BY <1>16, <2>1, <2>2, <2>3, <2>4 DEF PutFound, FoundFull, ModeShape, FeederShape, WorkShape, ResultShape, FoundShape
  <2>8. FeederShape'
    BY <1>16, <2>1, <2>2, <2>3, <2>4 DEF PutFound, FoundFull, ModeShape, FeederShape, WorkShape, ResultShape, FoundShape
  <2>9. WorkShape'
    BY <1>16, <2>1, <2>2, <2>3, <2>4 DEF PutFound, FoundFull, WorkShape, ModeShape, FeederShape, ResultShape, FoundShape
  <2>10. ResultShape'
    BY <1>16, <2>1, <2>2, <2>3, <2>4 DEF PutFound, FoundFull, ResultShape, ModeShape, FeederShape, WorkShape, FoundShape
  <2>11. FoundShape'
    BY <1>16, <2>1, <2>2, <2>3, <2>4 DEF PutFound, FoundFull, FoundShape, ModeShape, FeederShape, WorkShape, ResultShape
  <2>12. Registered'
    BY <1>16, <2>1, <2>2, <2>3, <2>4 DEF PutFound, FoundFull, Registered, ModeShape, FeederShape, WorkShape, ResultShape, FoundShape
  <2>13. QED
    BY <2>5, <2>6, <2>7, <2>8, <2>9, <2>10, <2>11, <2>12 DEF IntakeInv
<1>17. ASSUME CloseDiscovery,
              place = "channels", UNCHANGED <<vars, intakeVars>>
       PROVE IntakeInv'
  <2>1. NoMore \in Listed \union {DiscoverError, NoMore} /\ foundQ' = Append(foundQ, NoMore) /\ OnlyLast(foundQ, NoMore)
    BY <1>17 DEF CloseDiscovery, FoundFull, WorkShape, ResultShape, FoundShape, IntakeInv, IntakeTypeOK, TypeOK, Outcome
  <2>2. /\ foundQ' \in Seq(Listed \union {DiscoverError, NoMore}) /\ foundQ' # <<>>
        /\ ToSet(foundQ') = ToSet(foundQ) \union {NoMore}
    BY ONLY <1>f, <2>1, AppendToSet
  <2>3. NoMore \notin ToSet(foundQ) => OnlyLast(foundQ', NoMore)
    BY <2>1, <2>2, AppendOnlyLast
  <2>4. IntakeTypeOK'
    BY <1>17, <2>1, <2>2, <2>3 DEF CloseDiscovery, FoundFull, IntakeTypeOK, TypeOK, DiscoverTypeOK, IntakeInv, FeederShape
  <2>5. PendingTracked'
    BY <1>17, <2>1, <2>2, <2>3 DEF CloseDiscovery, FoundFull, PendingTracked, OnItsWay, ModeShape, FeederShape, WorkShape, ResultShape, FoundShape
  <2>6. ModeShape'
    BY <1>17, <2>1, <2>2, <2>3 DEF CloseDiscovery, FoundFull, ModeShape, FeederShape, WorkShape, ResultShape, FoundShape
  <2>7. FeederShape'
    BY <1>17, <2>1, <2>2, <2>3 DEF CloseDiscovery, FoundFull, ModeShape, FeederShape, WorkShape, ResultShape, FoundShape
  <2>8. WorkShape'
    BY <1>17, <2>1, <2>2, <2>3 DEF CloseDiscovery, FoundFull, WorkShape, ModeShape, FeederShape, ResultShape, FoundShape
  <2>9. ResultShape'
    BY <1>17, <2>1, <2>2, <2>3 DEF CloseDiscovery, FoundFull, ResultShape, ModeShape, FeederShape, WorkShape, FoundShape
  <2>10. FoundShape'
    BY <1>17, <2>1, <2>2, <2>3 DEF CloseDiscovery, FoundFull, FoundShape, ModeShape, FeederShape, WorkShape, ResultShape
  <2>11. Registered'
    BY <1>17, <2>1, <2>2, <2>3 DEF CloseDiscovery, FoundFull, Registered, ModeShape, FeederShape, WorkShape, ResultShape, FoundShape
  <2>12. QED
    BY <2>4, <2>5, <2>6, <2>7, <2>8, <2>9, <2>10, <2>11 DEF IntakeInv
<1>18. ASSUME FeederPutsSentinel,
              mode = "youtube", UNCHANGED <<intakeVars, discoverVars>>
       PROVE IntakeInv'
  <2>1. Sentinel \in Video \union {Sentinel} /\ workQ' = Append(workQ, Sentinel) /\ OnlyBehind(workQ, Sentinel)
    BY <1>18 DEF FeederPutsSentinel, Full, WorkShape, ResultShape, FoundShape, IntakeInv, IntakeTypeOK, TypeOK, Outcome
  <2>2. /\ workQ' \in Seq(Video \union {Sentinel}) /\ workQ' # <<>>
        /\ ToSet(workQ') = ToSet(workQ) \union {Sentinel}
    BY ONLY <1>w, <2>1, AppendToSet
  <2>3. OnlyBehind(workQ', Sentinel)
    BY <2>1, <2>2, AppendOnlyBehind
  <2>4. IntakeTypeOK'
    <3>1. /\ sentinels' = sentinels - 1 /\ feeder' = (IF sentinels = 1 THEN "done" ELSE feeder)
          /\ UNCHANGED <<unseen, resultQ, busy, gone, stream, answered, raw>>
          /\ feeder = "closing"
      BY ONLY <1>18 DEF FeederPutsSentinel
    <3>2. sentinels' \in 0..Cardinality(Worker) /\ feeder' \in {"yielding", "closing", "done", "raised"}
      <4>1. sentinels \in 0..Cardinality(Worker) /\ sentinels > 0
        BY <1>18, <3>1 DEF IntakeInv, IntakeTypeOK, TypeOK, FeederShape
      <4>2. QED
        BY ONLY <3>1, <4>1, Constants
    <3>3. TypeOK'
      BY ONLY <1>0, <2>2, <3>1, <3>2, IntakeInv DEF IntakeInv, IntakeTypeOK, TypeOK
    <3>4. QED
      BY ONLY <1>n, <1>18, <3>3, IntakeInv DEF IntakeInv, IntakeTypeOK, DiscoverTypeOK, intakeVars, discoverVars
  <2>5. PendingTracked'
    BY <1>18, <2>1, <2>2, <2>3 DEF FeederPutsSentinel, Full, PendingTracked, OnItsWay, ModeShape, FeederShape, WorkShape, ResultShape, FoundShape
  <2>6. ModeShape'
    BY <1>18, <2>1, <2>2, <2>3 DEF FeederPutsSentinel, Full, ModeShape, FeederShape, WorkShape, ResultShape, FoundShape
  <2>7. FeederShape'
    BY <1>18, <2>1, <2>2, <2>3 DEF FeederPutsSentinel, Full, ModeShape, FeederShape, WorkShape, ResultShape, FoundShape
  <2>8. WorkShape'
    BY <1>18, <2>1, <2>2, <2>3 DEF FeederPutsSentinel, Full, WorkShape, ModeShape, FeederShape, ResultShape, FoundShape
  <2>9. ResultShape'
    BY <1>18, <2>1, <2>2, <2>3 DEF FeederPutsSentinel, Full, ResultShape, ModeShape, FeederShape, WorkShape, FoundShape
  <2>10. FoundShape'
    BY <1>18, <2>1, <2>2, <2>3 DEF FeederPutsSentinel, Full, FoundShape, ModeShape, FeederShape, WorkShape, ResultShape
  <2>11. Registered'
    BY <1>18, <2>1, <2>2, <2>3 DEF FeederPutsSentinel, Full, Registered, ModeShape, FeederShape, WorkShape, ResultShape, FoundShape
  <2>12. QED
    BY <2>4, <2>5, <2>6, <2>7, <2>8, <2>9, <2>10, <2>11 DEF IntakeInv
<1>19. ASSUME Closer,
              mode = "youtube", UNCHANGED <<intakeVars, discoverVars>>
       PROVE IntakeInv'
  <2>1. /\ resultQ' \in Seq(Outcome \union {Sentinel})
        /\ ToSet(resultQ') = ToSet(resultQ) \union {Sentinel}
        /\ OnlyLast(resultQ', Sentinel)
    BY <1>19, AppendToSet, AppendOnlyLast, ContainsToSet DEF Closer, WorkShape, ResultShape, FoundShape, IntakeInv, IntakeTypeOK, TypeOK, Outcome
  <2>2. IntakeTypeOK'
    BY <1>19, <2>1 DEF Closer, IntakeTypeOK, TypeOK, DiscoverTypeOK, IntakeInv, FeederShape
  <2>3. PendingTracked'
    BY <1>19, <2>1 DEF Closer, PendingTracked, OnItsWay, ModeShape, FeederShape, WorkShape, ResultShape, FoundShape
  <2>4. ModeShape'
    BY <1>19, <2>1 DEF Closer, ModeShape, FeederShape, WorkShape, ResultShape, FoundShape
  <2>5. FeederShape'
    BY <1>19, <2>1 DEF Closer, ModeShape, FeederShape, WorkShape, ResultShape, FoundShape
  <2>6. WorkShape'
    BY <1>19, <2>1 DEF Closer, WorkShape, ModeShape, FeederShape, ResultShape, FoundShape
  <2>7. ResultShape'
    BY <1>19, <2>1 DEF Closer, ResultShape, ModeShape, FeederShape, WorkShape, FoundShape
  <2>8. FoundShape'
    BY <1>19, <2>1 DEF Closer, FoundShape, ModeShape, FeederShape, WorkShape, ResultShape
  <2>9. Registered'
    BY <1>19, <2>1 DEF Closer, Registered, ModeShape, FeederShape, WorkShape, ResultShape, FoundShape
  <2>10. QED
    BY <2>2, <2>3, <2>4, <2>5, <2>6, <2>7, <2>8, <2>9 DEF IntakeInv
<1>20. ASSUME NEW w \in Worker, WorkerGets(w),
              mode = "youtube", UNCHANGED <<intakeVars, discoverVars>>
       PROVE IntakeInv'
  <2>1. /\ ToSet(workQ) = {Head(workQ)} \union ToSet(Tail(workQ))
        /\ Head(workQ) \in Video \union {Sentinel}
        /\ Tail(workQ) \in Seq(Video \union {Sentinel})
        /\ OnlyBehind(Tail(workQ), Sentinel)
        /\ Head(workQ) = Sentinel => ToSet(Tail(workQ)) \subseteq {Sentinel}
    BY <1>20, TailToSet, TailOnlyBehind DEF WorkerGets, WorkShape, ResultShape, FoundShape, IntakeInv, IntakeTypeOK, TypeOK, Outcome
  <2>2. /\ \A v \in Video : v \in ToSet(workQ) => v \in ToSet(workQ') \/ busy'[w] = v
        /\ \A v \in Video : \A u \in Worker : busy[u] = v => busy'[u] = v
    <3>1. w \notin gone /\ busy[w] = NoVideo /\ workQ' = Tail(workQ)
      BY <1>20 DEF WorkerGets
    <3>2. CASE Head(workQ) = Sentinel /\ busy' = busy
      BY ONLY <2>1, <3>1, <3>2, Constants
    <3>3. CASE busy' = [busy EXCEPT ![w] = Head(workQ)]
      <4>1. busy'[w] = Head(workQ) /\ \A u \in Worker : u # w => busy'[u] = busy[u]
        BY ONLY <1>0, <3>3
      <4>2. QED
        BY ONLY <2>1, <3>1, <4>1, Constants
    <3>4. QED
      BY <1>20, <3>2, <3>3 DEF WorkerGets
  <2>3. busy' \in [Worker -> Video \union {NoVideo}] /\ gone' \subseteq Worker
    <3>1. CASE Head(workQ) = Sentinel
      BY <1>20, <3>1 DEF WorkerGets
    <3>2. CASE Head(workQ) # Sentinel
      <4>1. busy' = [busy EXCEPT ![w] = Head(workQ)] /\ gone' = gone
        BY <1>20, <3>2 DEF WorkerGets
      <4>2. Head(workQ) \in Video \union {NoVideo}
        BY <2>1, <3>2
      <4>3. QED
        BY <4>1, <4>2
    <3>3. QED
      BY <3>1, <3>2
  <2>4. IntakeTypeOK'
    BY <1>20, <2>1, <2>3 DEF WorkerGets, IntakeTypeOK, TypeOK, DiscoverTypeOK, IntakeInv
  <2>5. PendingTracked'
    BY <1>20, <2>1, <2>2 DEF WorkerGets, PendingTracked, OnItsWay
  <2>6. ModeShape'
    BY <1>20, <2>1, <2>2, <2>3 DEF WorkerGets, ModeShape, FeederShape, WorkShape, ResultShape, FoundShape
  <2>7. FeederShape'
    BY <1>20, <2>1, <2>2, <2>3 DEF WorkerGets, ModeShape, FeederShape, WorkShape, ResultShape, FoundShape
  <2>8. WorkShape'
    BY <1>20, <2>1, <2>2, <2>3 DEF WorkerGets, WorkShape, ModeShape, FeederShape, ResultShape, FoundShape
  <2>9. ResultShape'
    BY <1>20, <2>1, <2>2, <2>3 DEF WorkerGets, ResultShape, ModeShape, FeederShape, WorkShape, FoundShape
  <2>10. FoundShape'
    BY <1>20, <2>1, <2>2, <2>3 DEF WorkerGets, FoundShape, ModeShape, FeederShape, WorkShape, ResultShape
  <2>11. Registered'
    BY <1>20, <2>1, <2>2, <2>3 DEF WorkerGets, Registered, ModeShape, FeederShape, WorkShape, ResultShape, FoundShape
  <2>12. QED
    BY <2>4, <2>5, <2>6, <2>7, <2>8, <2>9, <2>10, <2>11 DEF IntakeInv
<1>21. ASSUME NEW w \in Worker, WorkerReports(w),
              mode = "youtube", UNCHANGED <<intakeVars, discoverVars>>
       PROVE IntakeInv'
  <2>1. busy[w] \in Video
        /\ \E result \in Outcome :
            result.video = busy[w] /\ resultQ' = Append(resultQ, result)
    BY <1>21 DEF WorkerReports, DownloadOutcome, WorkShape, ResultShape, FoundShape, IntakeInv, IntakeTypeOK, TypeOK, Outcome
  <2>2. \E result \in Outcome :
            /\ result.video = busy[w]
            /\ resultQ' \in Seq(Outcome \union {Sentinel}) /\ resultQ' # <<>>
            /\ ToSet(resultQ') = ToSet(resultQ) \union {result}
    <3>1. PICK result \in Outcome : result.video = busy[w] /\ resultQ' = Append(resultQ, result)
      BY <2>1
    <3>2. result \in Outcome \union {Sentinel}
      OBVIOUS
    <3>3. /\ resultQ' \in Seq(Outcome \union {Sentinel}) /\ resultQ' # <<>>
          /\ ToSet(resultQ') = ToSet(resultQ) \union {result}
      BY ONLY <1>r, <3>1, <3>2, AppendToSet
    <3>4. QED
      BY <3>1, <3>3
  <2>3. Sentinel \notin ToSet(resultQ) => OnlyLast(resultQ', Sentinel)
    BY <2>1, <2>2, AppendOnlyLast
  <2>4. IntakeTypeOK'
    BY <1>21, <2>1, <2>2, <2>3 DEF WorkerReports, DownloadOutcome, IntakeTypeOK, TypeOK, DiscoverTypeOK, IntakeInv, FeederShape
  <2>5. PendingTracked'
    <3> SUFFICES ASSUME NEW v \in Video, rows'[v] = "PENDING" PROVE OnItsWay(v)'
      BY DEF PendingTracked
    <3>1. UNCHANGED <<rows, place, upcoming, hand, workQ>> /\ busy' = [busy EXCEPT ![w] = NoVideo]
      BY ONLY <1>21 DEF WorkerReports, intakeVars
    <3>2. OnItsWay(v)
      BY ONLY <1>0, <3>1, rows'[v] = "PENDING", v \in Video DEF PendingTracked
    <3>3. PICK result \in Outcome : result.video = busy[w] /\ ToSet(resultQ') = ToSet(resultQ) \union {result}
      BY ONLY <2>2
    <3>4. ASSUME NEW x \in Worker, busy[x] = v PROVE OnItsWay(v)'
      <4>1. CASE x = w
        BY ONLY <3>3, <3>4, <4>1, Constants DEF OnItsWay
      <4>2. CASE x # w
        <5>1. busy'[x] = v
          BY ONLY <1>0, <3>1, <3>4, <4>2
        <5>2. QED
          BY ONLY <3>4, <5>1 DEF OnItsWay
      <4>3. QED
        BY ONLY <4>1, <4>2
    <3>5. ASSUME NEW r \in ToSet(resultQ), r # Sentinel, r.video = v PROVE OnItsWay(v)'
      BY ONLY <3>3, <3>5 DEF OnItsWay
    <3>6. QED
      BY ONLY <3>1, <3>2, <3>4, <3>5 DEF OnItsWay
  <2>6. ModeShape'
    BY <1>21, <2>1, <2>2, <2>3 DEF WorkerReports, DownloadOutcome, ModeShape, FeederShape, WorkShape, ResultShape, FoundShape
  <2>7. FeederShape'
    BY <1>21, <2>1, <2>2, <2>3 DEF WorkerReports, DownloadOutcome, ModeShape, FeederShape, WorkShape, ResultShape, FoundShape
  <2>8. WorkShape'
    BY <1>21, <2>1, <2>2, <2>3 DEF WorkerReports, DownloadOutcome, WorkShape, ModeShape, FeederShape, ResultShape, FoundShape
  <2>9. ResultShape'
    BY <1>21, <2>1, <2>2, <2>3 DEF WorkerReports, DownloadOutcome, ResultShape, ModeShape, FeederShape, WorkShape, FoundShape
  <2>10. FoundShape'
    BY <1>21, <2>1, <2>2, <2>3 DEF WorkerReports, DownloadOutcome, FoundShape, ModeShape, FeederShape, WorkShape, ResultShape
  <2>11. Registered'
    BY <1>21, <2>1, <2>2, <2>3 DEF WorkerReports, DownloadOutcome, Registered, ModeShape, FeederShape, WorkShape, ResultShape, FoundShape
  <2>12. QED
    BY <2>4, <2>5, <2>6, <2>7, <2>8, <2>9, <2>10, <2>11 DEF IntakeInv
<1>22. CASE ConsumeResult
  <2>1. /\ ToSet(resultQ) = {Head(resultQ)} \union ToSet(Tail(resultQ))
        /\ Head(resultQ) \in Outcome \union {Sentinel}
        /\ Tail(resultQ) \in Seq(Outcome \union {Sentinel})
        /\ OnlyLast(Tail(resultQ), Sentinel)
        /\ Head(resultQ) = Sentinel => Tail(resultQ) = <<>>
    BY <1>22, TailToSet, TailOnlyLast DEF ConsumeResult, Consume, WorkShape, ResultShape, FoundShape, IntakeInv, IntakeTypeOK, TypeOK, Outcome
  <2>2. Head(resultQ) # Sentinel => Head(resultQ).video \in Video
    BY <1>22, <2>1 DEF ConsumeResult, Consume, WorkShape, ResultShape, FoundShape, IntakeInv, IntakeTypeOK, TypeOK, Outcome
  <2>3. /\ Head(resultQ) # Sentinel =>
            /\ answered' = [answered EXCEPT ![Head(resultQ).video] = answered[Head(resultQ).video] + 1]
            /\ raw' \subseteq raw \union {Head(resultQ).video}
        /\ Head(resultQ) = Sentinel => UNCHANGED <<answered, raw>>
    BY <1>22, <2>1, <2>2 DEF ConsumeResult, Consume, WorkShape, ResultShape, FoundShape, IntakeInv, IntakeTypeOK, TypeOK, Outcome
  <2>4. answered' \in [Video -> Nat] /\ raw' \subseteq Video
    <3>1. CASE Head(resultQ) = Sentinel
      BY <2>3, <3>1
    <3>2. CASE Head(resultQ) # Sentinel
      <4>1. answered \in [Video -> Nat] /\ raw \subseteq Video
        BY DEF IntakeInv, IntakeTypeOK, TypeOK
      <4>2. answered[Head(resultQ).video] + 1 \in Nat
        BY ONLY <2>2, <3>2, <4>1
      <4>3. answered' \in [Video -> Nat]
        BY ONLY <2>3, <3>2, <4>1, <4>2
      <4>4. raw' \subseteq Video
        BY ONLY <2>2, <2>3, <3>2, <4>1
      <4>5. QED
        BY ONLY <4>3, <4>4
    <3>3. QED
      BY <3>1, <3>2
  <2>5. IntakeTypeOK'
    BY <1>22, <2>1, <2>2, <2>3, <2>4 DEF ConsumeResult, Consume, IntakeTypeOK, TypeOK, DiscoverTypeOK, IntakeInv, FeederShape
  <2>6. PendingTracked'
    <3> SUFFICES ASSUME NEW v \in Video, rows'[v] = "PENDING" PROVE OnItsWay(v)'
      BY DEF PendingTracked
    <3>1. rows[v] = "PENDING" /\ (Head(resultQ) # Sentinel => Head(resultQ).video # v)
      BY <1>22, <2>2 DEF ConsumeResult
    <3>2. OnItsWay(v)
      BY <3>1 DEF PendingTracked
    <3>3. UNCHANGED <<place, upcoming, hand, workQ, busy>> /\ resultQ' = Tail(resultQ)
      BY <1>22 DEF ConsumeResult, Consume
    <3>4. \A result \in ToSet(resultQ) :
            result # Sentinel /\ result.video = v => result \in ToSet(resultQ')
      BY <2>1, <3>1, <3>3
    <3>5. QED
      BY <3>2, <3>3, <3>4 DEF OnItsWay
  <2>7. ModeShape'
    BY <1>22, <2>1, <2>2, <2>3, <2>4 DEF ConsumeResult, Consume, ModeShape, FeederShape, WorkShape, ResultShape, FoundShape
  <2>8. FeederShape'
    BY <1>22, <2>1, <2>2, <2>3, <2>4 DEF ConsumeResult, Consume, ModeShape, FeederShape, WorkShape, ResultShape, FoundShape
  <2>9. WorkShape'
    BY <1>22, <2>1, <2>2, <2>3, <2>4 DEF ConsumeResult, Consume, WorkShape, ModeShape, FeederShape, ResultShape, FoundShape
  <2>10. ResultShape'
    BY <1>22, <2>1, <2>2, <2>3, <2>4 DEF ConsumeResult, Consume, ResultShape, ModeShape, FeederShape, WorkShape, FoundShape
  <2>11. FoundShape'
    BY <1>22, <2>1, <2>2, <2>3, <2>4 DEF ConsumeResult, Consume, FoundShape, ModeShape, FeederShape, WorkShape, ResultShape
  <2>12. Registered'
    BY <1>22, <2>1, <2>2, <2>3, <2>4 DEF ConsumeResult, Consume, Registered, ModeShape, FeederShape, WorkShape, ResultShape, FoundShape
  <2>13. QED
    BY <2>5, <2>6, <2>7, <2>8, <2>9, <2>10, <2>11, <2>12 DEF IntakeInv
<1>23. ASSUME NEW v \in Video, ProcessVideo(v) PROVE IntakeInv'
  <2>1. IntakeTypeOK'
    BY <1>23 DEF ProcessVideo, Process, IntakeTypeOK, TypeOK, DiscoverTypeOK, IntakeInv, FeederShape
  <2>2. PendingTracked'
    <3>1. /\ UNCHANGED <<place, upcoming, hand, workQ, busy, resultQ>>
          /\ \A u \in Video : rows'[u] = "PENDING" => rows[u] = "PENDING"
      <4>1. UNCHANGED <<place, upcoming, hand, workQ, busy, resultQ>>
        BY ONLY <1>23 DEF ProcessVideo, Process
      <4>2. PICK status \in {"DONE", "FAILED"} : rows' = [rows EXCEPT ![v] = status]
        BY ONLY <1>23 DEF ProcessVideo
      <4>3. \A u \in Video : rows'[u] = "PENDING" => rows[u] = "PENDING"
        BY ONLY <1>0, <4>2
      <4>4. QED
        BY ONLY <4>1, <4>3
    <3>2. QED
      BY ONLY <1>0, <3>1 DEF PendingTracked, OnItsWay
  <2>3. ModeShape'
    BY <1>23 DEF ProcessVideo, Process, ModeShape, FeederShape, WorkShape, ResultShape, FoundShape
  <2>4. FeederShape'
    BY <1>23 DEF ProcessVideo, Process, ModeShape, FeederShape, WorkShape, ResultShape, FoundShape
  <2>5. WorkShape'
    BY <1>23 DEF ProcessVideo, Process, WorkShape, ModeShape, FeederShape, ResultShape, FoundShape
  <2>6. ResultShape'
    BY <1>23 DEF ProcessVideo, Process, ResultShape, ModeShape, FeederShape, WorkShape, FoundShape
  <2>7. FoundShape'
    BY <1>23 DEF ProcessVideo, Process, FoundShape, ModeShape, FeederShape, WorkShape, ResultShape
  <2>8. Registered'
    BY <1>23 DEF ProcessVideo, Process, Registered, ModeShape, FeederShape, WorkShape, ResultShape, FoundShape
  <2>9. QED
    BY <2>1, <2>2, <2>3, <2>4, <2>5, <2>6, <2>7, <2>8 DEF IntakeInv
<1>24. CASE UNCHANGED allVars
  <2>1. IntakeTypeOK'
    BY <1>24 DEF allVars, IntakeTypeOK, TypeOK, DiscoverTypeOK, IntakeInv, FeederShape
  <2>2. PendingTracked'
    BY <1>24 DEF allVars, PendingTracked, OnItsWay, ModeShape, FeederShape, WorkShape, ResultShape, FoundShape
  <2>3. ModeShape'
    BY <1>24 DEF allVars, ModeShape, FeederShape, WorkShape, ResultShape, FoundShape
  <2>4. FeederShape'
    BY <1>24 DEF allVars, ModeShape, FeederShape, WorkShape, ResultShape, FoundShape
  <2>5. WorkShape'
    BY <1>24 DEF allVars, WorkShape, ModeShape, FeederShape, ResultShape, FoundShape
  <2>6. ResultShape'
    BY <1>24 DEF allVars, ResultShape, ModeShape, FeederShape, WorkShape, FoundShape
  <2>7. FoundShape'
    BY <1>24 DEF allVars, FoundShape, ModeShape, FeederShape, WorkShape, ResultShape
  <2>8. Registered'
    BY <1>24 DEF allVars, Registered, ModeShape, FeederShape, WorkShape, ResultShape, FoundShape
  <2>9. QED
    BY <2>1, <2>2, <2>3, <2>4, <2>5, <2>6, <2>7, <2>8 DEF IntakeInv
<1> HIDE <1>0, Constants DEF vars, discoverVars, intakeVars
<1>25. QED
  BY <1>1, <1>2, <1>3, <1>4, <1>5, <1>6, <1>7, <1>8, <1>9, <1>10, <1>11, <1>12, <1>13, <1>14, <1>15, <1>16, <1>17, <1>18, <1>19, <1>20, <1>21, <1>22, <1>23, <1>24 DEF IntakeNext, Generator, Discovering, Downloading, DiscoverStep

\* Each link of the chain has finished its work when it ends (IntakeInv), in
\* every reachable state.
THEOREM IntakeInvariant == IntakeSpec => []IntakeInv
<1>1. QED
  BY IntakeInvInit, IntakeInvNext, PTL DEF IntakeSpec

\* Type correctness of Intake, with that of Download and Discover (the queues,
\* the workers, the producers).
THEOREM IntakeTypeCorrect == IntakeSpec => []IntakeTypeOK
<1>1. IntakeInv => IntakeTypeOK
  BY DEF IntakeInv
<1>2. QED
  BY <1>1, IntakeInvariant, PTL

\* orchestrator.py 58-62, 112: when the loop of run_pipeline_async has ended, no
\* row is left PENDING, everything that was asked for has a row, and no worker
\* and no result is left behind, whatever the queues' bounds, the numbers of
\* workers and channels and the order in which they run.
THEOREM IntakeCompletes == IntakeSpec => []IntakeIsComplete
<1>1. ASSUME IntakeInv PROVE IntakeIsComplete
  <2> DEFINE Named == \A i \in DOMAIN Folder : OwnsItsStem(i) => file[Folder[i]] = i
  <2> SUFFICES ASSUME stream = "ended"
               PROVE  /\ Pending = {}
                      /\ \A v \in Wanted : rows[v] # "absent"
                      /\ mode = "youtube" => gone = Worker /\ resultQ = <<>> /\ foundQ = <<>>
                      /\ mode = "local" => Named
    BY DEF IntakeIsComplete
  <2>1. mode \in {"youtube", "local"} /\ workQ \in Seq(Video \union {Sentinel})
    BY <1>1 DEF IntakeInv, IntakeTypeOK, TypeOK
  <2>2. CASE mode = "youtube"
    <3>1. gone = Worker /\ resultQ = <<>>
      BY <1>1, <2>2 DEF IntakeInv, ResultShape
    <3>2. place = "end" /\ hand = NoVideo /\ ToSet(workQ) \subseteq {Sentinel}
      BY <1>1, <3>1, Constants DEF IntakeInv, FeederShape, WorkShape
    <3>3. foundQ = <<>> /\ \A c \in Channel : producer[c] = "closed" /\ found[c] = <<>>
      BY <1>1, <2>2, <3>2 DEF IntakeInv, FoundShape
    <3>4. \A w \in Worker : busy[w] = NoVideo
      BY <1>1, <3>1 DEF IntakeInv, WorkShape
    <3>5. \A v \in Video : ~OnItsWay(v)
      BY <3>1, <3>2, <3>4, Constants, EmptyToSet DEF OnItsWay
    <3>6. Pending = {}
      BY <1>1, <3>5 DEF IntakeInv, PendingTracked, Pending
    <3>7. \A c \in listed : \A v \in ToSet(Catalog[c]) : rows[v] # "absent"
      <4>1. listed \subseteq Channel
        BY <1>1 DEF IntakeInv, IntakeTypeOK, DiscoverTypeOK
      <4>2. QED
        BY <1>1, <3>3, <4>1, EmptyToSet DEF IntakeInv, Registered
    <3>8. \A v \in ToSet(VideoUrls) : rows[v] # "absent"
      BY <1>1, <2>2, <3>2 DEF IntakeInv, Registered
    <3>9. \A v \in Wanted : rows[v] # "absent"
      BY <2>2, <3>7, <3>8 DEF Wanted
    <3>10. QED
      BY <2>2, <3>1, <3>3, <3>6, <3>9
  <2>3. CASE mode = "local"
    <3>1. place = "end" /\ hand = NoVideo
      BY <1>1, <2>3 DEF IntakeInv, ResultShape
    <3>2. workQ = <<>> /\ resultQ = <<>> /\ \A w \in Worker : busy[w] = NoVideo
      BY <1>1, <2>3 DEF IntakeInv, ModeShape
    <3>3. \A v \in Video : ~OnItsWay(v)
      BY <3>1, <3>2, Constants, EmptyToSet DEF OnItsWay
    <3>4. Pending = {}
      BY <1>1, <3>3 DEF IntakeInv, PendingTracked, Pending
    <3>5. \A v \in Wanted : rows[v] # "absent"
      BY <1>1, <2>3, <3>1 DEF IntakeInv, Registered, Wanted
    <3>6. Named
      <4>1. \A i \in DOMAIN Folder : Folder[i] \in Wanted
        BY <2>3 DEF Wanted, ToSet
      <4>2. ScanShape
        BY <1>1 DEF IntakeInv
      <4>3. QED
        BY <2>3, <3>5, <4>1, <4>2 DEF ScanShape
    <3> HIDE DEF Named
    <3>7. QED
      BY <2>3, <3>4, <3>5, <3>6
  <2>4. QED
    BY <2>1, <2>2, <2>3
<1>2. QED
  BY <1>1, IntakeInvariant, PTL

-----------------------------------------------------------------------------
(***************************************************************************)
(* Intake implements Download: in YouTube mode every step of the generator,*)
(* the queues and the loop is a step that Download allows, or a stutter;   *)
(* above all, no video is put on the work queue a second time.             *)
(***************************************************************************)

LEMMA TailInjective ==
  ASSUME NEW S, NEW s \in Seq(S), s # <<>>, IsInjective(s)
  PROVE  IsInjective(Tail(s)) /\ Head(s) \notin ToSet(Tail(s))
<1>1. /\ DOMAIN s = 1..Len(s) /\ Len(s) \in Nat \ {0} /\ Head(s) = s[1]
      /\ DOMAIN Tail(s) = 1..(Len(s) - 1)
      /\ \A i \in 1..(Len(s) - 1) : Tail(s)[i] = s[i + 1] /\ i + 1 \in 1..Len(s) /\ 1 < i + 1
  OBVIOUS
<1>2. \A i, j \in DOMAIN s : s[i] = s[j] => i = j
  BY DEF IsInjective
<1>3. ASSUME NEW i \in DOMAIN Tail(s), NEW j \in DOMAIN Tail(s), Tail(s)[i] = Tail(s)[j]
      PROVE  i = j
  <2>1. i + 1 \in DOMAIN s /\ j + 1 \in DOMAIN s /\ s[i + 1] = s[j + 1]
    BY <1>1, <1>3
  <2>2. i + 1 = j + 1
    BY <1>2, <2>1
  <2>3. i \in Int /\ j \in Int
    BY <1>1
  <2>4. QED
    BY <2>2, <2>3
<1>4. ASSUME NEW i \in DOMAIN Tail(s), Tail(s)[i] = Head(s) PROVE FALSE
  <2>1. i + 1 \in DOMAIN s /\ 1 \in DOMAIN s /\ s[i + 1] = s[1] /\ 1 < i + 1
    BY <1>1, <1>4
  <2>2. i + 1 = 1
    BY <1>2, <2>1
  <2>3. QED
    BY <2>1, <2>2
<1>5. IsInjective(Tail(s))
  BY <1>3 DEF IsInjective
<1>6. QED
  BY <1>4, <1>5 DEF ToSet

\* What has been put on the work queue has a row and is not yielded again: it
\* is not in the generator's hand and not among the PENDING rows still to come.
Fresh ==
    mode = "youtube" =>
        /\ \A v \in Video \ unseen :
              rows[v] # "absent" /\ hand # v /\ (place = "rows" => v \notin ToSet(upcoming))
        /\ hand # NoVideo => rows[hand] # "absent"
        /\ place = "rows" =>
              /\ IsInjective(upcoming) /\ hand \notin ToSet(upcoming)
              /\ \A v \in ToSet(upcoming) : rows[v] # "absent"

LEMMA FreshInit == IntakeInit => Fresh
<1> SUFFICES ASSUME IntakeInit PROVE Fresh
  OBVIOUS
<1>1. Pending \in SUBSET Video
  BY DEF Pending
<1>2. upcoming \in Seq(Video) /\ ToSet(upcoming) = Pending /\ IsInjective(upcoming)
  BY <1>1, ListingsAreSequences DEF IntakeInit
<1>3. unseen = Video /\ hand = NoVideo
  BY DEF IntakeInit, Init
<1>4. hand \notin ToSet(upcoming) /\ \A v \in ToSet(upcoming) : rows[v] # "absent"
  BY <1>1, <1>2, <1>3, Constants DEF Pending
<1>5. QED
  BY <1>2, <1>3, <1>4 DEF Fresh

LEMMA FreshNext == IntakeInv /\ Fresh /\ [IntakeNext]_allVars => Fresh'
<1> SUFFICES ASSUME IntakeInv, Fresh, [IntakeNext]_allVars, mode' = "youtube" PROVE Fresh'
  BY DEF Fresh
<1>0. /\ upcoming \in Seq(Video) /\ hand \in Video \union {NoVideo} /\ unseen \subseteq Video
      /\ rows \in [Video -> {"absent", "PENDING", "RUNNING", "DONE", "FAILED"}]
      /\ foundQ \in Seq(Listed \union {DiscoverError, NoMore})
      /\ resultQ \in Seq(Outcome \union {Sentinel})
      /\ NoVideo \notin Video
  BY Constants DEF IntakeInv, IntakeTypeOK, TypeOK, DiscoverTypeOK
<1>1. mode = "youtube"
  BY DEF IntakeNext, Generator, YieldPending, YieldListed, BeginUrls, UrlsRaise, BeginChannels,
     TakeFound, EndChannels, PutHand, BeginFolder, FileMissing, FileProbed, EndFolder,
     Discovering, Downloading, ConsumeResult, ProcessVideo, intakeVars, allVars
<1>2. CASE UNCHANGED <<mode, rows, place, upcoming, hand, unseen>>
  BY <1>2 DEF Fresh
<1>3. CASE YieldPending
  <2>1. /\ ToSet(upcoming) = {Head(upcoming)} \union ToSet(Tail(upcoming))
        /\ Head(upcoming) \in Video
        /\ IsInjective(Tail(upcoming)) /\ Head(upcoming) \notin ToSet(Tail(upcoming))
    BY <1>0, <1>1, <1>3, TailToSet, TailInjective DEF YieldPending, Fresh
  <2>2. UNCHANGED <<mode, rows, place, unseen>> /\ place = "rows"
        /\ hand' = Head(upcoming) /\ upcoming' = Tail(upcoming)
    BY <1>3 DEF YieldPending, vars
  <2>3. QED
    BY <1>1, <2>1, <2>2 DEF Fresh
<1>4. ASSUME NEW v \in Video, NEW n, Register(v, n), place \in {"urls", "channels"},
             UNCHANGED <<mode, unseen, place>>
      PROVE Fresh'
  <2>1. CASE rows[v] # "absent"
    BY <1>1, <1>4, <2>1 DEF Register, Fresh
  <2>2. CASE rows[v] = "absent"
    <3>1. v \in unseen
      BY <1>1, <2>2 DEF Fresh
    <3>2. hand' = v /\ rows' = [rows EXCEPT ![v] = "PENDING"]
      BY <1>4, <2>2 DEF Register
    <3>3. \A u \in Video : rows[u] # "absent" => rows'[u] # "absent"
      BY <1>0, <3>2
    <3>4. rows'[v] # "absent"
      BY <1>0, <3>2
    <3>5. QED
      BY <1>1, <1>4, <3>1, <3>2, <3>3, <3>4 DEF Fresh
  <2>3. QED
    BY <2>1, <2>2
<1>5. CASE YieldListed
  <2>1. Head(upcoming) \in Video
    BY <1>0, <1>5, TailToSet DEF YieldListed
  <2>2. place # "folder"
    BY <1>1 DEF IntakeInv, ModeShape
  <2>3. QED
    BY <1>4, <1>5, <2>1, <2>2 DEF YieldListed, vars
<1>6. CASE TakeFound
  <2>1. CASE Head(foundQ) = DiscoverError
    BY <1>2, <1>6, <2>1 DEF TakeFound, vars
  <2>2. CASE Head(foundQ) # DiscoverError
    <3>1. Head(foundQ) \in Listed \union {DiscoverError, NoMore} /\ Head(foundQ) # NoMore
      BY <1>0, <1>6, TailToSet DEF TakeFound
    <3>2. Head(foundQ) \in Video
      BY <2>2, <3>1, Constants
    <3>3. QED
      BY <1>4, <1>6, <2>2, <3>2 DEF TakeFound, vars
  <2>3. QED
    BY <2>1, <2>2
<1>7. CASE place' # "rows" /\ UNCHANGED <<mode, rows, hand, unseen>>
  BY <1>1, <1>7 DEF Fresh
<1>8. CASE PutHand
  <2>1. hand \in Video /\ hand' = NoVideo /\ unseen' = unseen \ {hand}
        /\ UNCHANGED <<mode, rows, place, upcoming>>
    BY <1>0, <1>8 DEF PutHand, PutItem
  <2>2. NoVideo \notin ToSet(upcoming)
    BY <1>0, ToSetRange
  <2>3. QED
    BY <1>0, <1>1, <2>1, <2>2 DEF Fresh
<1>9. ASSUME NEW u \in Video, NEW status \in {"RUNNING", "FAILED", "DONE"},
             rows' = [rows EXCEPT ![u] = status], UNCHANGED <<mode, place, upcoming, hand, unseen>>
      PROVE Fresh'
  <2>1. \A v \in Video : rows[v] # "absent" => rows'[v] # "absent"
    BY <1>0, <1>9
  <2>2. ToSet(upcoming) \subseteq Video
    BY <1>0, ToSetRange
  <2>3. QED
    BY <1>0, <1>1, <1>9, <2>1, <2>2 DEF Fresh
<1>10. CASE ConsumeResult
  <2>1. CASE Head(resultQ) = Sentinel
    BY <1>2, <1>10, <2>1 DEF ConsumeResult, Consume
  <2>2. CASE Head(resultQ) # Sentinel
    <3>1. Head(resultQ) \in Outcome
      BY <1>0, <1>10, <2>2, TailToSet DEF ConsumeResult, Consume
    <3>2. Head(resultQ).video \in Video
      BY <3>1 DEF Outcome
    <3>3. QED
      BY <1>9, <1>10, <2>2, <3>2 DEF ConsumeResult, Consume
  <2>3. QED
    BY <2>1, <2>2
<1>11. ASSUME NEW v \in Video, ProcessVideo(v) PROVE Fresh'
  BY <1>9, <1>11 DEF ProcessVideo, Process
<1>12. CASE BeginUrls \/ BeginChannels \/ EndChannels
  BY <1>7, <1>12 DEF BeginUrls, BeginChannels, EndChannels, FeederEnds, vars
<1>13. CASE UrlsRaise \/ Discovering \/ Downloading
  BY <1>2, <1>13 DEF UrlsRaise, FeederRaises, Discovering, Downloading, FeederPutsSentinel, Closer,
     WorkerGets, WorkerReports, vars, intakeVars
<1>14. CASE BeginFolder \/ FileMissing \/ FileProbed \/ EndFolder
  <2>1. ~(BeginFolder \/ FileMissing \/ FileProbed)
    BY <1>1 DEF BeginFolder, FileMissing, FileProbed
  <2>2. ~EndFolder
    BY <1>1 DEF EndFolder, IntakeInv, ModeShape
  <2>3. QED
    BY <1>14, <2>1, <2>2
<1>15. CASE UNCHANGED allVars
  BY <1>2, <1>15 DEF allVars, vars, intakeVars
<1>16. QED
  BY <1>3, <1>5, <1>6, <1>8, <1>10, <1>11, <1>12, <1>13, <1>14, <1>15 DEF IntakeNext, Generator

\* download.py 134-156, orchestrator.py 58-73: Intake implements Download.  Every
\* put is of a video that was not put before; every other step that changes the
\* queues, the workers or the consumer is one of Download's.
THEOREM IntakeImplementsDownload == IntakeSpec => ImplementsDownload
<1>1. ASSUME IntakeInv, Fresh, [IntakeNext]_allVars PROVE [mode = "youtube" => Next]_vars
  <2> SUFFICES ASSUME mode = "youtube", IntakeNext, vars' # vars PROVE Next
    BY <1>1 DEF allVars
  <2>1. CASE PutHand
    <3>1. hand \in Video /\ hand \in unseen
      BY <1>1, <2>1 DEF PutHand, IntakeInv, IntakeTypeOK, Fresh
    <3>2. FeederPut(hand)
      BY <2>1, <3>1 DEF PutHand, FeederPut
    <3>3. QED
      BY <3>1, <3>2 DEF Next
  <2>2. CASE UrlsRaise \/ EndChannels
    BY <2>2 DEF UrlsRaise, EndChannels, Next
  <2>3. CASE Downloading
    BY <2>3 DEF Downloading, Next
  <2>4. CASE ConsumeResult
    BY <2>4 DEF ConsumeResult, Next
  <2>5. ASSUME NEW v \in Video, ProcessVideo(v) PROVE Next
    BY <2>5 DEF ProcessVideo, Next
  <2>6. ~(YieldPending \/ YieldListed \/ BeginUrls \/ BeginChannels \/ TakeFound \/ BeginFolder \/ Discovering)
    BY DEF YieldPending, YieldListed, BeginUrls, BeginChannels, TakeFound, BeginFolder, Discovering
  <2>7. ~(FileMissing \/ FileProbed)
    BY DEF FileMissing, FileProbed
  <2>8. ~EndFolder
    BY <1>1 DEF EndFolder, IntakeInv, ModeShape
  <2>9. QED
    BY <2>1, <2>2, <2>3, <2>4, <2>5, <2>6, <2>7, <2>8 DEF IntakeNext, Generator
<1>2. QED
  BY <1>1, IntakeInvariant, FreshInit, FreshNext, PTL DEF IntakeSpec, ImplementsDownload

-----------------------------------------------------------------------------
(***************************************************************************)
(* Every PENDING video is on its way to the loop or to a worker while the  *)
(* stream runs.  The argument counts: what is in each queue, and who still *)
(* owes a sentinel.                                                        *)
(***************************************************************************)

-----------------------------------------------------------------------------
(* How many elements of a sequence are in a set. *)

Count(s, T) == Cardinality({i \in DOMAIN s : s[i] \in T})

LEMMA CountType ==
  ASSUME NEW S, NEW s \in Seq(S), NEW T
  PROVE  IsFiniteSet({i \in DOMAIN s : s[i] \in T}) /\ Count(s, T) \in Nat
<1>1. DOMAIN s = 1..Len(s) /\ Len(s) \in Nat
  OBVIOUS
<1>2. IsFiniteSet(1..Len(s))
  BY <1>1, FS_Interval
<1>3. {i \in DOMAIN s : s[i] \in T} \in SUBSET (1..Len(s))
  BY <1>1
<1>4. IsFiniteSet({i \in DOMAIN s : s[i] \in T})
  BY <1>2, <1>3, FS_Subset
<1>5. QED
  BY <1>4, FS_CardinalityType DEF Count

LEMMA CountEmpty == \A T : Count(<<>>, T) = 0
<1>1. \A T : {i \in DOMAIN <<>> : <<>>[i] \in T} = {}
  OBVIOUS
<1>2. QED
  BY <1>1, FS_EmptySet DEF Count

LEMMA CountAppend ==
  ASSUME NEW S, NEW s \in Seq(S), NEW x \in S, NEW T
  PROVE  Count(Append(s, x), T) = Count(s, T) + (IF x \in T THEN 1 ELSE 0)
<1> DEFINE old == {i \in DOMAIN s : s[i] \in T}
           new == {i \in DOMAIN Append(s, x) : Append(s, x)[i] \in T}
<1>1. /\ DOMAIN s = 1..Len(s) /\ Len(s) \in Nat
      /\ DOMAIN Append(s, x) = 1..(Len(s) + 1)
      /\ \A i \in 1..Len(s) : Append(s, x)[i] = s[i]
      /\ Append(s, x)[Len(s) + 1] = x
  OBVIOUS
<1>2. IsFiniteSet(old) /\ Count(s, T) = Cardinality(old) /\ Cardinality(old) \in Nat
  BY CountType DEF Count
<1>n. Count(Append(s, x), T) = Cardinality(new)
  BY DEF Count
<1>3. CASE x \in T
  <2>1. new = old \union {Len(s) + 1} /\ Len(s) + 1 \notin old
    BY <1>1, <1>3
  <2>2. Cardinality(new) = Cardinality(old) + 1
    BY <1>2, <2>1, FS_AddElement
  <2>3. QED
    BY <1>2, <1>n, <1>3, <2>2
<1>4. CASE x \notin T
  <2>1. new = old
    BY <1>1, <1>4
  <2> HIDE DEF old, new
  <2>2. QED
    BY <1>2, <1>n, <1>4, <2>1
<1>5. QED
  BY <1>3, <1>4

LEMMA CountTail ==
  ASSUME NEW S, NEW s \in Seq(S), s # <<>>, NEW T
  PROVE  Count(s, T) = Count(Tail(s), T) + (IF Head(s) \in T THEN 1 ELSE 0)
<1> DEFINE all == {i \in DOMAIN s : s[i] \in T}
           rest == {i \in DOMAIN Tail(s) : Tail(s)[i] \in T}
           next == [i \in rest |-> i + 1]
<1>1. /\ DOMAIN s = 1..Len(s) /\ Len(s) \in Nat \ {0} /\ Head(s) = s[1]
      /\ DOMAIN Tail(s) = 1..(Len(s) - 1) /\ Tail(s) \in Seq(S)
      /\ \A i \in 1..(Len(s) - 1) : Tail(s)[i] = s[i + 1] /\ i + 1 \in 1..Len(s) /\ i + 1 # 1
  OBVIOUS
<1>2. /\ IsFiniteSet(all) /\ Count(s, T) = Cardinality(all) /\ Cardinality(all) \in Nat
      /\ IsFiniteSet(rest) /\ Count(Tail(s), T) = Cardinality(rest) /\ Cardinality(rest) \in Nat
  <2>1. Count(s, T) = Cardinality(all) /\ Count(Tail(s), T) = Cardinality(rest)
    BY DEF Count
  <2>2. IsFiniteSet(all) /\ Count(s, T) \in Nat
    BY CountType
  <2>3. Tail(s) \in Seq(S)
    BY <1>1
  <2>4. IsFiniteSet(rest) /\ Count(Tail(s), T) \in Nat
    BY <2>3, CountType
  <2> HIDE DEF all, rest
  <2>5. QED
    BY <2>1, <2>2, <2>4
<1>3. next \in Bijection(rest, all \ {1})
  <2>1. next \in [rest -> all \ {1}]
    BY <1>1
  <2>2. \A i, j \in rest : next[i] = next[j] => i = j
    BY <1>1
  <2>3. \A j \in all \ {1} : \E i \in rest : next[i] = j
    <3> SUFFICES ASSUME NEW j \in all \ {1} PROVE \E i \in rest : next[i] = j
      OBVIOUS
    <3>1. j - 1 \in 1..(Len(s) - 1) /\ (j - 1) + 1 = j
      BY <1>1
    <3>2. j - 1 \in rest
      BY <1>1, <3>1
    <3>3. QED
      BY <3>1, <3>2
  <2> HIDE DEF next, rest, all
  <2>4. next \in Injection(rest, all \ {1})
    BY <2>1, <2>2 DEF Injection, IsInjective
  <2>5. next \in Surjection(rest, all \ {1})
    BY <2>1, <2>3 DEF Surjection
  <2>6. QED
    BY <2>4, <2>5 DEF Bijection
<1>4. Cardinality(all \ {1}) = Cardinality(rest)
  <2> HIDE DEF next, rest, all
  <2>1. ExistsBijection(rest, all \ {1})
    BY <1>3 DEF ExistsBijection
  <2>2. QED
    BY <1>2, <2>1, FS_Bijection
<1>5. 1 \in all <=> Head(s) \in T
  BY <1>1
<1>6. Cardinality(all \ {1}) = IF 1 \in all THEN Cardinality(all) - 1 ELSE Cardinality(all)
  <2> HIDE DEF all
  <2>1. QED
    BY <1>2, FS_RemoveElement
<1> HIDE DEF all, rest
<1>7. CASE Head(s) \in T
  BY <1>2, <1>4, <1>5, <1>6, <1>7
<1>8. CASE Head(s) \notin T
  BY <1>2, <1>4, <1>5, <1>6, <1>8
<1>9. QED
  BY <1>7, <1>8

-----------------------------------------------------------------------------
(* Where a video is. *)

Ahead(v) == IF place = "rows" /\ Contains(upcoming, v) THEN 1 ELSE 0
Held(v) == IF hand = v THEN 1 ELSE 0
Doing(v) == Cardinality({w \in Worker : busy[w] = v})
About(v) == {result \in Outcome : result.video = v}

\* In how many places on its way a video is.
OnWay(v) == Ahead(v) + Held(v) + Count(workQ, {v}) + Doing(v) + Count(resultQ, About(v))

\* A video that is not PENDING is nowhere on its way, one that is PENDING is in
\* one place, and only once; what has been handed over is PENDING no more.
Tally ==
    /\ place = "rows" => IsInjective(upcoming)
    /\ \A v \in Video :
        /\ OnWay(v) = IF rows[v] = "PENDING" THEN 1 ELSE 0
        /\ answered[v] <= 1
        /\ answered[v] # 0 => rows[v] \notin {"absent", "PENDING"}
        /\ v \in raw => rows[v] = "RUNNING"

LEMMA PlacesAreCounts ==
  ASSUME IntakeTypeOK, NEW v \in Video
  PROVE  Places(v) = Count(workQ, {v}) + Doing(v) + Count(resultQ, About(v)) + answered[v]
<1>1. {i \in DOMAIN workQ : workQ[i] = v} = {i \in DOMAIN workQ : workQ[i] \in {v}}
  OBVIOUS
<1>2. \A i \in DOMAIN resultQ : resultQ[i] \in Outcome \union {Sentinel}
  BY DEF IntakeTypeOK, TypeOK
<1>3. {i \in DOMAIN resultQ : resultQ[i] # Sentinel /\ resultQ[i].video = v} =
        {i \in DOMAIN resultQ : resultQ[i] \in About(v)}
  BY <1>2, Constants DEF About
<1>4. QED
  BY <1>1, <1>3 DEF Places, Count, Doing

LEMMA TallyShape ==
  ASSUME IntakeTypeOK, NEW v \in Video
  PROVE  /\ Ahead(v) \in Nat /\ Held(v) \in Nat
         /\ Count(workQ, {v}) \in Nat /\ Count(resultQ, About(v)) \in Nat
         /\ Doing(v) \in Nat /\ IsFiniteSet({w \in Worker : busy[w] = v})
<1>1. workQ \in Seq(Video \union {Sentinel})
  BY DEF IntakeTypeOK, TypeOK
<1>2. resultQ \in Seq(Outcome \union {Sentinel})
  BY DEF IntakeTypeOK, TypeOK
<1>3. {w \in Worker : busy[w] = v} \in SUBSET Worker /\ IsFiniteSet(Worker)
  BY DownloadAssumption DEF DownloadAssumption
<1>4. IsFiniteSet({w \in Worker : busy[w] = v}) /\ Doing(v) \in Nat
  BY <1>3, FS_Subset, FS_CardinalityType DEF Doing
<1>5. QED
  BY <1>1, <1>2, <1>4, CountType DEF Ahead, Held

LEMMA TallyMeansPending ==
  ASSUME IntakeInv, Tally
  PROVE  PendingIsOnItsWay
<1> SUFFICES ASSUME NEW v \in Video
             PROVE  /\ Ahead(v) + Held(v) + (Places(v) - answered[v])
                          = (IF rows[v] = "PENDING" THEN 1 ELSE 0)
                    /\ answered[v] <= 1
                    /\ v \in raw => rows[v] = "RUNNING"
  BY DEF PendingIsOnItsWay, Ahead, Held
<1>1. IntakeTypeOK /\ answered[v] \in Nat
  BY DEF IntakeInv, IntakeTypeOK, TypeOK
<1>2. \A a, h, w, d, r, n \in Nat : a + h + ((w + d + r + n) - n) = a + h + w + d + r
  OBVIOUS
<1>3. Ahead(v) + Held(v) + (Places(v) - answered[v]) = OnWay(v)
  <2>1. /\ Ahead(v) \in Nat /\ Held(v) \in Nat /\ Doing(v) \in Nat
        /\ Count(workQ, {v}) \in Nat /\ Count(resultQ, About(v)) \in Nat
    BY <1>1, TallyShape
  <2>2. Places(v) = Count(workQ, {v}) + Doing(v) + Count(resultQ, About(v)) + answered[v]
    BY <1>1, PlacesAreCounts
  <2>3. QED
    BY <1>1, <1>2, <2>1, <2>2 DEF OnWay
<1>4. QED
  BY <1>3 DEF Tally

LEMMA TallyInit == IntakeInit => Tally
<1> SUFFICES ASSUME IntakeInit PROVE Tally
  OBVIOUS
<1>1. Pending \in SUBSET Video
  BY DEF Pending
<1>2. upcoming \in Seq(Video) /\ ToSet(upcoming) = Pending /\ IsInjective(upcoming)
  BY <1>1, ListingsAreSequences DEF IntakeInit
<1>3. /\ hand = NoVideo /\ workQ = <<>> /\ resultQ = <<>> /\ raw = {} /\ place = "rows"
      /\ busy = [w \in Worker |-> NoVideo] /\ answered = [v \in Video |-> 0]
  BY DEF IntakeInit, Init
<1>4. ASSUME NEW v \in Video PROVE OnWay(v) = IF rows[v] = "PENDING" THEN 1 ELSE 0
  <2>1. Ahead(v) = IF rows[v] = "PENDING" THEN 1 ELSE 0
    BY <1>2, <1>3, ContainsToSet DEF Ahead, Pending
  <2>2. Held(v) = 0
    BY <1>3, Constants DEF Held
  <2>3. Count(workQ, {v}) = 0 /\ Count(resultQ, About(v)) = 0
    BY <1>3, CountEmpty
  <2>4. {w \in Worker : busy[w] = v} = {}
    BY <1>3, Constants
  <2>5. Doing(v) = 0
    BY <2>4, FS_EmptySet DEF Doing
  <2>6. QED
    BY <2>1, <2>2, <2>3, <2>5 DEF OnWay
<1>5. QED
  BY <1>2, <1>3, <1>4 DEF Tally

\* The state of one video is in order.
Settled(v) ==
    /\ OnWay(v) = IF rows[v] = "PENDING" THEN 1 ELSE 0
    /\ answered[v] <= 1
    /\ answered[v] # 0 => rows[v] \notin {"absent", "PENDING"}
    /\ v \in raw => rows[v] = "RUNNING"

LEMMA TallyNext == IntakeInv /\ Tally /\ [IntakeNext]_allVars => Tally'
<1> SUFFICES ASSUME IntakeInv, Tally, [IntakeNext]_allVars PROVE Tally'
  OBVIOUS
<1>w. workQ \in Seq(Video \union {Sentinel})
  BY DEF IntakeInv, IntakeTypeOK, TypeOK
<1>r. resultQ \in Seq(Outcome \union {Sentinel})
  BY DEF IntakeInv, IntakeTypeOK, TypeOK
<1>f. foundQ \in Seq(Listed \union {DiscoverError, NoMore})
  BY DEF IntakeInv, IntakeTypeOK, DiscoverTypeOK
<1>0. /\ upcoming \in Seq(Video) /\ hand \in Video \union {NoVideo}
      /\ busy \in [Worker -> Video \union {NoVideo}]
      /\ rows \in [Video -> {"absent", "PENDING", "RUNNING", "DONE", "FAILED"}]
      /\ answered \in [Video -> Nat] /\ raw \subseteq Video
      /\ NoVideo \notin Video /\ Sentinel \notin Video /\ Sentinel \notin Outcome
      /\ IntakeTypeOK
  BY Constants DEF IntakeInv, IntakeTypeOK, TypeOK
<1>1. \A v \in Video : Settled(v)
  BY DEF Tally, Settled
<1>2. \A v \in Video : /\ Ahead(v) \in Nat /\ Held(v) \in Nat /\ Doing(v) \in Nat
                       /\ Count(workQ, {v}) \in Nat /\ Count(resultQ, About(v)) \in Nat
                       /\ OnWay(v) \in Nat
  <2>1. ASSUME NEW v \in Video
        PROVE  /\ Ahead(v) \in Nat /\ Held(v) \in Nat /\ Doing(v) \in Nat
               /\ Count(workQ, {v}) \in Nat /\ Count(resultQ, About(v)) \in Nat
    BY <1>0, TallyShape
  <2>2. QED
    BY <2>1 DEF OnWay
\* A video that is somewhere on its way is PENDING and has not been answered.
<1>3. \A v \in Video : OnWay(v) >= 1 => /\ OnWay(v) = 1 /\ rows[v] = "PENDING"
                                        /\ answered[v] = 0 /\ v \notin raw
  BY <1>0, <1>1 DEF Settled
<1>c. \A v \in Video :
        /\ place = "rows" /\ v \in ToSet(upcoming) => OnWay(v) >= 1
        /\ hand = v => OnWay(v) >= 1
        /\ \A w \in Worker : busy[w] = v => OnWay(v) >= 1
        /\ Count(resultQ, About(v)) >= 1 => OnWay(v) >= 1
  <2> SUFFICES ASSUME NEW v \in Video
               PROVE  /\ place = "rows" /\ v \in ToSet(upcoming) => OnWay(v) >= 1
                      /\ hand = v => OnWay(v) >= 1
                      /\ \A w \in Worker : busy[w] = v => OnWay(v) >= 1
                      /\ Count(resultQ, About(v)) >= 1 => OnWay(v) >= 1
    OBVIOUS
  <2>1. /\ Ahead(v) \in Nat /\ Held(v) \in Nat /\ Doing(v) \in Nat
        /\ Count(workQ, {v}) \in Nat /\ Count(resultQ, About(v)) \in Nat
    BY <1>2
  <2>2. place = "rows" /\ v \in ToSet(upcoming) => Ahead(v) = 1
    BY <1>0, ContainsToSet DEF Ahead
  <2>3. hand = v => Held(v) = 1
    BY DEF Held
  <2>4. ASSUME NEW w \in Worker, busy[w] = v PROVE Doing(v) >= 1
    <3>1. IsFiniteSet({x \in Worker : busy[x] = v}) /\ w \in {x \in Worker : busy[x] = v}
      BY <1>0, <2>4, TallyShape
    <3>2. Doing(v) # 0
      BY <3>1, FS_EmptySet DEF Doing
    <3>3. QED
      BY <2>1, <3>2
  <2>5. QED
    BY <2>1, <2>2, <2>3, <2>4 DEF OnWay
<1>u. (place = "rows" => IsInjective(upcoming))'
  <2>1. CASE UNCHANGED <<place, upcoming>>
    BY <2>1 DEF Tally
  <2>2. CASE place' # "rows"
    BY <2>2
  <2>3. CASE place = "rows" /\ upcoming # <<>> /\ upcoming' = Tail(upcoming)
    BY <1>0, <2>3, TailInjective DEF Tally
  <2>4. QED
    BY <2>1, <2>2, <2>3 DEF IntakeNext, Generator, YieldPending, YieldListed, BeginUrls,
       UrlsRaise, BeginChannels, TakeFound, EndChannels, PutHand, BeginFolder, FileMissing,
       FileProbed, EndFolder, Discovering, Downloading, ConsumeResult, ProcessVideo,
       intakeVars, allVars
<1> DEFINE All == \A v \in Video : Settled(v)'
\* Nothing that counts has changed.
<1>4. ASSUME UNCHANGED <<rows, hand, busy, answered, raw, workQ, resultQ>>,
             \A v \in Video : Ahead(v)' = Ahead(v)
      PROVE  All
  BY <1>1, <1>4 DEF Settled, OnWay, Held, Doing
<1>5. ASSUME YieldPending PROVE All
  <2>1. /\ ToSet(upcoming) = {Head(upcoming)} \union ToSet(Tail(upcoming))
        /\ Head(upcoming) \in Video /\ Tail(upcoming) \in Seq(Video)
        /\ Head(upcoming) \notin ToSet(Tail(upcoming))
    BY <1>0, <1>5, TailToSet, TailInjective DEF YieldPending, Tally
  <2>2. /\ UNCHANGED <<rows, busy, answered, raw, workQ, resultQ, place>> /\ place = "rows"
        /\ hand = NoVideo /\ hand' = Head(upcoming) /\ upcoming' = Tail(upcoming)
    BY <1>5 DEF YieldPending, Asked, vars
  <2>3. ASSUME NEW v \in Video PROVE Settled(v)'
    <3>a. /\ Ahead(v) = IF v \in ToSet(upcoming) THEN 1 ELSE 0
          /\ Ahead(v)' = IF v \in ToSet(Tail(upcoming)) THEN 1 ELSE 0
      BY <1>0, <2>1, <2>2, ContainsToSet DEF Ahead
    <3>b. /\ Held(v) = 0 /\ Held(v)' = IF v = Head(upcoming) THEN 1 ELSE 0
      BY <1>0, <2>2 DEF Held
    <3>1. Ahead(v) + Held(v) = Ahead(v)' + Held(v)'
      <4>1. CASE v = Head(upcoming)
        BY <2>1, <3>a, <3>b, <4>1
      <4>2. CASE v # Head(upcoming)
        BY <2>1, <3>a, <3>b, <4>2
      <4>3. QED
        BY <4>1, <4>2
    <3>2. /\ Count(workQ, {v})' = Count(workQ, {v}) /\ Doing(v)' = Doing(v)
          /\ Count(resultQ, About(v))' = Count(resultQ, About(v))
      BY <2>2 DEF Doing
    <3>0. /\ Ahead(v) \in Nat /\ Held(v) \in Nat /\ Doing(v) \in Nat
          /\ Count(workQ, {v}) \in Nat /\ Count(resultQ, About(v)) \in Nat
          /\ Ahead(v)' \in Nat /\ Held(v)' \in Nat
      BY <1>2 DEF Ahead, Held
    <3>3. OnWay(v)' = OnWay(v)
      BY <3>0, <3>1, <3>2 DEF OnWay
    <3>4. QED
      BY <1>1, <2>2, <3>3 DEF Settled
  <2>4. QED
    BY <2>3
<1>6. ASSUME NEW u \in Video, NEW n, Register(u, n), place # "rows", hand = NoVideo,
             UNCHANGED <<place, busy, answered, raw, workQ, resultQ>>
      PROVE  All
  <2>1. CASE rows[u] # "absent"
    <3>1. UNCHANGED <<hand, rows>>
      BY <1>6, <2>1 DEF Register
    <3>2. \A v \in Video : Ahead(v)' = Ahead(v)
      BY <1>6 DEF Ahead
    <3>3. QED
      BY <1>4, <1>6, <3>1, <3>2
  <2>2. CASE rows[u] = "absent"
    <3>1. hand' = u /\ rows' = [rows EXCEPT ![u] = "PENDING"]
      BY <1>6, <2>2 DEF Register
    <3>2. ASSUME NEW v \in Video PROVE Settled(v)'
      <4>1. Ahead(v)' = 0 /\ Ahead(v) = 0 /\ Held(v) = 0 /\ Held(v)' = IF v = u THEN 1 ELSE 0
        BY <1>0, <1>6, <3>1 DEF Ahead, Held
      <4>2. /\ Count(workQ, {v})' = Count(workQ, {v}) /\ Doing(v)' = Doing(v)
            /\ Count(resultQ, About(v))' = Count(resultQ, About(v))
        BY <1>6 DEF Doing
      <4>0. /\ Doing(v) \in Nat /\ Count(workQ, {v}) \in Nat /\ Count(resultQ, About(v)) \in Nat
        BY <1>2
      <4>3. OnWay(v)' = OnWay(v) + IF v = u THEN 1 ELSE 0
        BY <4>0, <4>1, <4>2 DEF OnWay
      <4>4. rows'[v] = IF v = u THEN "PENDING" ELSE rows[v]
        BY <1>0, <3>1
      <4>5. CASE v = u
        <5>1. OnWay(v) = 0 /\ answered[v] = 0 /\ v \notin raw
          BY <1>1, <2>2, <4>5 DEF Settled
        <5>2. QED
          BY <1>6, <4>3, <4>4, <4>5, <5>1 DEF Settled
      <4>6. CASE v # u
        <5>1. OnWay(v) \in Nat
          BY <1>2
        <5>2. OnWay(v)' = OnWay(v)
          BY <4>3, <4>6, <5>1
        <5>3. QED
          BY <1>1, <1>6, <4>4, <4>6, <5>2 DEF Settled
      <4>7. QED
        BY <4>5, <4>6
    <3>3. QED
      BY <3>2
  <2>3. QED
    BY <2>1, <2>2
<1>7. ASSUME PutHand PROVE All
  <2>1. /\ UNCHANGED <<rows, busy, answered, raw, resultQ, place, upcoming>>
        /\ hand \in Video /\ hand' = NoVideo /\ workQ' = Append(workQ, hand)
    BY <1>0, <1>7 DEF PutHand, PutItem
  <2>2. ASSUME NEW v \in Video PROVE Settled(v)'
    <3>0. /\ Ahead(v) \in Nat /\ Held(v) \in Nat /\ Doing(v) \in Nat
          /\ Count(workQ, {v}) \in Nat /\ Count(resultQ, About(v)) \in Nat
      BY <1>2
    <3>1. /\ Ahead(v)' = Ahead(v) /\ Doing(v)' = Doing(v)
          /\ Count(resultQ, About(v))' = Count(resultQ, About(v))
      BY <2>1 DEF Ahead, Doing
    <3>2. Count(workQ, {v})' = Count(workQ, {v}) + (IF v = hand THEN 1 ELSE 0)
      <4>1. hand \in Video \union {Sentinel}
        BY <2>1
      <4>2. Count(Append(workQ, hand), {v}) = Count(workQ, {v}) + (IF hand \in {v} THEN 1 ELSE 0)
        BY <1>w, <4>1, CountAppend
      <4>3. QED
        BY <2>1, <4>2
    <3>3. /\ Held(v) = (IF v = hand THEN 1 ELSE 0) /\ Held(v)' = 0
      BY <1>0, <2>1 DEF Held
    <3>4. OnWay(v)' = OnWay(v)
      <4>1. CASE v = hand
        BY <3>0, <3>1, <3>2, <3>3, <4>1 DEF OnWay
      <4>2. CASE v # hand
        BY <3>0, <3>1, <3>2, <3>3, <4>2 DEF OnWay
      <4>3. QED
        BY <4>1, <4>2
    <3>5. QED
      BY <1>1, <2>1, <3>4 DEF Settled
  <2>3. QED
    BY <2>2
\* A sentinel is no video.
<1>8. ASSUME UNCHANGED <<rows, hand, busy, answered, raw, place, upcoming>>,
             \/ workQ' = Append(workQ, Sentinel) /\ resultQ' = resultQ
             \/ workQ' = workQ /\ resultQ' = Append(resultQ, Sentinel)
             \/ /\ workQ # <<>> /\ Head(workQ) = Sentinel /\ workQ' = Tail(workQ)
                /\ resultQ' = resultQ
             \/ /\ resultQ # <<>> /\ Head(resultQ) = Sentinel /\ resultQ' = Tail(resultQ)
                /\ workQ' = workQ
      PROVE  All
  <2> SUFFICES ASSUME NEW v \in Video PROVE Settled(v)'
    OBVIOUS
  <2>0. /\ Count(workQ, {v}) \in Nat /\ Count(resultQ, About(v)) \in Nat
        /\ Sentinel \notin {v} /\ Sentinel \notin About(v)
    BY <1>0, <1>2 DEF About
  <2>1. Count(Append(workQ, Sentinel), {v}) = Count(workQ, {v})
    <3>1. Count(Append(workQ, Sentinel), {v}) =
            Count(workQ, {v}) + (IF Sentinel \in {v} THEN 1 ELSE 0)
      BY <1>w, CountAppend
    <3>2. QED
      BY <2>0, <3>1
  <2>2. Count(Append(resultQ, Sentinel), About(v)) = Count(resultQ, About(v))
    <3>1. Count(Append(resultQ, Sentinel), About(v)) =
            Count(resultQ, About(v)) + (IF Sentinel \in About(v) THEN 1 ELSE 0)
      BY <1>r, CountAppend
    <3>2. QED
      BY <2>0, <3>1
  <2>3. workQ # <<>> /\ Head(workQ) = Sentinel => Count(Tail(workQ), {v}) = Count(workQ, {v})
    <3> SUFFICES ASSUME workQ # <<>>, Head(workQ) = Sentinel
                 PROVE  Count(Tail(workQ), {v}) = Count(workQ, {v})
      OBVIOUS
    <3>1. Count(workQ, {v}) = Count(Tail(workQ), {v}) + (IF Head(workQ) \in {v} THEN 1 ELSE 0)
      BY <1>w, CountTail
    <3>2. Tail(workQ) \in Seq(Video \union {Sentinel})
      BY <1>w
    <3>3. Count(Tail(workQ), {v}) \in Nat
      BY <3>2, CountType
    <3>4. QED
      BY <2>0, <3>1, <3>3
  <2>4. resultQ # <<>> /\ Head(resultQ) = Sentinel =>
            Count(Tail(resultQ), About(v)) = Count(resultQ, About(v))
    <3> SUFFICES ASSUME resultQ # <<>>, Head(resultQ) = Sentinel
                 PROVE  Count(Tail(resultQ), About(v)) = Count(resultQ, About(v))
      OBVIOUS
    <3>1. Count(resultQ, About(v)) =
            Count(Tail(resultQ), About(v)) + (IF Head(resultQ) \in About(v) THEN 1 ELSE 0)
      BY <1>r, CountTail
    <3>2. Tail(resultQ) \in Seq(Outcome \union {Sentinel})
      BY <1>r
    <3>3. Count(Tail(resultQ), About(v)) \in Nat
      BY <3>2, CountType
    <3>4. QED
      BY <2>0, <3>1, <3>3
  <2>5. /\ Count(workQ, {v})' = Count(workQ, {v})
        /\ Count(resultQ, About(v))' = Count(resultQ, About(v))
    BY <1>8, <2>1, <2>2, <2>3, <2>4
  <2>6. OnWay(v)' = OnWay(v)
    BY <1>8, <2>5 DEF OnWay, Ahead, Held, Doing
  <2>7. QED
    BY <1>1, <1>8, <2>6 DEF Settled
<1>9. ASSUME NEW w \in Worker, WorkerGets(w), UNCHANGED intakeVars PROVE All
  <2>1. /\ UNCHANGED <<rows, hand, place, upcoming, resultQ, answered, raw>>
        /\ workQ # <<>> /\ workQ' = Tail(workQ) /\ busy[w] = NoVideo
    BY <1>9 DEF WorkerGets, intakeVars
  <2>2. CASE Head(workQ) = Sentinel
    BY <1>8, <1>9, <2>1, <2>2 DEF WorkerGets
  <2>3. CASE Head(workQ) # Sentinel
    <3>1. busy' = [busy EXCEPT ![w] = Head(workQ)] /\ Head(workQ) \in Video
      BY <1>9, <1>w, <2>1, <2>3 DEF WorkerGets
    <3>2. ASSUME NEW v \in Video PROVE Settled(v)'
      <4>0. /\ Ahead(v) \in Nat /\ Held(v) \in Nat /\ Doing(v) \in Nat
            /\ Count(resultQ, About(v)) \in Nat
        BY <1>2
      <4>1. /\ Ahead(v)' = Ahead(v) /\ Held(v)' = Held(v)
            /\ Count(resultQ, About(v))' = Count(resultQ, About(v))
        BY <2>1 DEF Ahead, Held
      <4>2. /\ Count(workQ, {v}) = Count(workQ, {v})' + (IF v = Head(workQ) THEN 1 ELSE 0)
            /\ Count(workQ, {v})' \in Nat
        <5>1. /\ Count(workQ, {v}) = Count(Tail(workQ), {v})
                                      + (IF Head(workQ) \in {v} THEN 1 ELSE 0)
          BY <1>w, <2>1, CountTail
        <5>2. Tail(workQ) \in Seq(Video \union {Sentinel})
          BY <1>w, <2>1
        <5>3. Count(Tail(workQ), {v}) \in Nat
          BY <5>2, CountType
        <5>4. QED
          BY <2>1, <5>1, <5>3
      <4>3. Doing(v)' = Doing(v) + (IF v = Head(workQ) THEN 1 ELSE 0)
        <5>1. IsFiniteSet({x \in Worker : busy[x] = v}) /\ w \notin {x \in Worker : busy[x] = v}
          BY <1>0, <2>1, TallyShape
        <5>2. CASE v = Head(workQ)
          <6>1. {x \in Worker : busy'[x] = v} = {x \in Worker : busy[x] = v} \union {w}
            BY <1>0, <3>1, <5>2
          <6>2. QED
            BY <4>0, <5>1, <5>2, <6>1, FS_AddElement DEF Doing
        <5>3. CASE v # Head(workQ)
          <6>1. {x \in Worker : busy'[x] = v} = {x \in Worker : busy[x] = v}
            BY <1>0, <2>1, <3>1, <5>3
          <6>2. QED
            BY <4>0, <5>3, <6>1 DEF Doing
        <5>4. QED
          BY <5>2, <5>3
      <4>4. OnWay(v)' = OnWay(v)
        <5>1. CASE v = Head(workQ)
          BY <4>0, <4>1, <4>2, <4>3, <5>1 DEF OnWay
        <5>2. CASE v # Head(workQ)
          BY <4>0, <4>1, <4>2, <4>3, <5>2 DEF OnWay
        <5>3. QED
          BY <5>1, <5>2
      <4>5. QED
        BY <1>1, <2>1, <4>4 DEF Settled
    <3>3. QED
      BY <3>2
  <2>4. QED
    BY <2>2, <2>3
<1>10. ASSUME NEW w \in Worker, WorkerReports(w), UNCHANGED intakeVars PROVE All
  <2>1. /\ UNCHANGED <<rows, hand, place, upcoming, workQ, answered, raw>>
        /\ busy' = [busy EXCEPT ![w] = NoVideo] /\ busy[w] \in Video
    BY <1>0, <1>10 DEF WorkerReports, intakeVars
  <2>2. PICK result \in DownloadOutcome(busy[w]) : resultQ' = Append(resultQ, result)
    BY <1>10 DEF WorkerReports
  <2>3. result \in Outcome /\ result.video = busy[w]
    BY <2>1 DEF DownloadOutcome, Outcome
  <2>4. ASSUME NEW v \in Video PROVE Settled(v)'
    <3>0. /\ Ahead(v) \in Nat /\ Held(v) \in Nat /\ Doing(v) \in Nat
          /\ Count(workQ, {v}) \in Nat /\ Count(resultQ, About(v)) \in Nat
      BY <1>2
    <3>1. /\ Ahead(v)' = Ahead(v) /\ Held(v)' = Held(v) /\ Count(workQ, {v})' = Count(workQ, {v})
      BY <2>1 DEF Ahead, Held
    <3>2. Count(resultQ, About(v))' = Count(resultQ, About(v)) + (IF v = busy[w] THEN 1 ELSE 0)
      <4>1. result \in Outcome \union {Sentinel} /\ (result \in About(v) <=> v = busy[w])
        BY <2>3 DEF About
      <4>2. Count(Append(resultQ, result), About(v)) =
              Count(resultQ, About(v)) + (IF result \in About(v) THEN 1 ELSE 0)
        BY <1>r, <4>1, CountAppend
      <4>3. QED
        BY <2>2, <4>1, <4>2
    <3>3. Doing(v)' = Doing(v) - (IF v = busy[w] THEN 1 ELSE 0)
      <4>1. IsFiniteSet({x \in Worker : busy[x] = v})
        BY <1>0, TallyShape
      <4>2. CASE v = busy[w]
        <5>1. /\ {x \in Worker : busy'[x] = v} = {x \in Worker : busy[x] = v} \ {w}
              /\ w \in {x \in Worker : busy[x] = v}
          BY <1>0, <2>1, <4>2
        <5>2. QED
          BY <3>0, <4>1, <4>2, <5>1, FS_RemoveElement DEF Doing
      <4>3. CASE v # busy[w]
        <5>1. {x \in Worker : busy'[x] = v} = {x \in Worker : busy[x] = v}
          BY <1>0, <2>1, <4>3
        <5>2. QED
          BY <3>0, <4>3, <5>1 DEF Doing
      <4>4. QED
        BY <4>2, <4>3
    <3>4. OnWay(v)' = OnWay(v)
      <4>1. CASE v = busy[w]
        BY <3>0, <3>1, <3>2, <3>3, <4>1 DEF OnWay
      <4>2. CASE v # busy[w]
        BY <3>0, <3>1, <3>2, <3>3, <4>2 DEF OnWay
      <4>3. QED
        BY <4>1, <4>2
    <3>5. QED
      BY <1>1, <2>1, <3>4 DEF Settled
  <2>5. QED
    BY <2>4
<1>11. ASSUME ConsumeResult PROVE All
  <2>1. /\ UNCHANGED <<hand, place, upcoming, workQ, busy>>
        /\ resultQ # <<>> /\ resultQ' = Tail(resultQ)
    BY <1>11 DEF ConsumeResult, Consume
  <2>2. CASE Head(resultQ) = Sentinel
    BY <1>8, <1>11, <2>1, <2>2 DEF ConsumeResult, Consume
  <2>3. CASE Head(resultQ) # Sentinel
    <3> DEFINE u == Head(resultQ).video
    <3>1. Head(resultQ) \in Outcome /\ u \in Video
      BY <1>r, <2>1, <2>3 DEF Outcome
    <3>2. /\ answered' = [answered EXCEPT ![u] = @ + 1]
          /\ raw' = IF Head(resultQ).ok THEN raw \union {u} ELSE raw
          /\ rows' = [rows EXCEPT ![u] = IF Head(resultQ).ok THEN "RUNNING" ELSE "FAILED"]
      BY <1>11, <2>3 DEF ConsumeResult, Consume
    <3>3. \A v \in Video : /\ Count(resultQ, About(v)) = Count(Tail(resultQ), About(v))
                                                          + (IF v = u THEN 1 ELSE 0)
                           /\ Count(Tail(resultQ), About(v)) \in Nat
      <4> SUFFICES ASSUME NEW v \in Video
                   PROVE  /\ Count(resultQ, About(v)) = Count(Tail(resultQ), About(v))
                                                          + (IF v = u THEN 1 ELSE 0)
                          /\ Count(Tail(resultQ), About(v)) \in Nat
        OBVIOUS
      <4>1. Head(resultQ) \in About(v) <=> v = u
        BY <3>1 DEF About
      <4>2. Count(resultQ, About(v)) =
              Count(Tail(resultQ), About(v)) + (IF Head(resultQ) \in About(v) THEN 1 ELSE 0)
        BY <1>r, <2>1, CountTail
      <4>3. Tail(resultQ) \in Seq(Outcome \union {Sentinel})
        BY <1>r, <2>1
      <4>4. Count(Tail(resultQ), About(v)) \in Nat
        BY <4>3, CountType
      <4>5. QED
        BY <4>1, <4>2, <4>4
    <3> HIDE DEF u
    <3>4. Count(resultQ, About(u)) >= 1
      <4>1. \A n \in Nat : n + 1 >= 1
        OBVIOUS
      <4>2. QED
        BY <3>1, <3>3, <4>1
    <3>5. OnWay(u) = 1 /\ answered[u] = 0
      BY <1>3, <1>c, <3>1, <3>4
    <3>6. ASSUME NEW v \in Video PROVE Settled(v)'
      <4>0. /\ Ahead(v) \in Nat /\ Held(v) \in Nat /\ Doing(v) \in Nat
            /\ Count(workQ, {v}) \in Nat
        BY <1>2
      <4>1. /\ Ahead(v)' = Ahead(v) /\ Held(v)' = Held(v) /\ Doing(v)' = Doing(v)
            /\ Count(workQ, {v})' = Count(workQ, {v})
        BY <2>1 DEF Ahead, Held, Doing
      <4>2. /\ Count(resultQ, About(v)) = Count(resultQ, About(v))' + (IF v = u THEN 1 ELSE 0)
            /\ Count(resultQ, About(v))' \in Nat
        BY <2>1, <3>3
      <4>3. CASE v = u
        <5>1. OnWay(v)' = 0
          BY <3>5, <4>0, <4>1, <4>2, <4>3 DEF OnWay
        <5>2. answered'[v] = 1 /\ rows'[v] \in {"RUNNING", "FAILED"}
          BY <1>0, <3>2, <3>5, <4>3
        <5>3. v \in raw' => rows'[v] = "RUNNING"
          <6>1. v \notin raw
            BY <1>3, <1>c, <3>1, <3>4, <4>3
          <6>2. QED
            BY <1>0, <3>2, <4>3, <6>1
        <5>4. QED
          BY <5>1, <5>2, <5>3 DEF Settled
      <4>4. CASE v # u
        <5>1. OnWay(v)' = OnWay(v)
          BY <4>0, <4>1, <4>2, <4>4 DEF OnWay
        <5>2. answered'[v] = answered[v] /\ rows'[v] = rows[v] /\ (v \in raw' <=> v \in raw)
          BY <1>0, <3>2, <4>4
        <5>3. QED
          BY <1>1, <5>1, <5>2 DEF Settled
      <4>5. QED
        BY <4>3, <4>4
    <3>7. QED
      BY <3>6
  <2>4. QED
    BY <2>2, <2>3
\* A video of local mode is handed over, or reported missing.
<1>12. ASSUME NEW u \in Video, OnWay(u) >= 1,
              UNCHANGED <<workQ, resultQ, busy, place>>,
              answered' = [answered EXCEPT ![u] = @ + 1],
              \A v \in Video : /\ Ahead(v)' \in Nat /\ Held(v)' \in Nat
                               /\ Ahead(v)' + Held(v)' = Ahead(v) + Held(v)
                                                          - (IF v = u THEN 1 ELSE 0),
              \/ rows' = [rows EXCEPT ![u] = "FAILED"] /\ raw' = raw
              \/ rows' = [rows EXCEPT ![u] = "RUNNING"] /\ raw' = raw \union {u}
       PROVE  All
  <2>1. ASSUME NEW v \in Video PROVE Settled(v)'
    <3>0. /\ Ahead(v) \in Nat /\ Held(v) \in Nat /\ Doing(v) \in Nat
          /\ Count(workQ, {v}) \in Nat /\ Count(resultQ, About(v)) \in Nat
      BY <1>2
    <3>1. /\ Doing(v)' = Doing(v) /\ Count(workQ, {v})' = Count(workQ, {v})
          /\ Count(resultQ, About(v))' = Count(resultQ, About(v))
      BY <1>12 DEF Doing
    <3>2. /\ Ahead(v)' \in Nat /\ Held(v)' \in Nat
          /\ Ahead(v)' + Held(v)' = Ahead(v) + Held(v) - (IF v = u THEN 1 ELSE 0)
      BY <1>12
    <3>3. CASE v = u
      <4>1. OnWay(v)' = OnWay(v) - 1
        BY <3>0, <3>1, <3>2, <3>3 DEF OnWay
      <4>2. OnWay(v) = 1 /\ answered[v] = 0 /\ v \notin raw
        BY <1>3, <1>12, <3>3
      <4>3. answered'[v] = 1 /\ rows'[v] \in {"RUNNING", "FAILED"}
        BY <1>0, <1>12, <3>3, <4>2
      <4>4. v \in raw' => rows'[v] = "RUNNING"
        BY <1>0, <1>12, <3>3, <4>2
      <4>5. QED
        BY <4>1, <4>2, <4>3, <4>4 DEF Settled
    <3>4. CASE v # u
      <4>1. OnWay(v)' = OnWay(v)
        BY <3>0, <3>1, <3>2, <3>4 DEF OnWay
      <4>2. answered'[v] = answered[v] /\ rows'[v] = rows[v] /\ (v \in raw' <=> v \in raw)
        BY <1>0, <1>12, <3>4
      <4>3. QED
        BY <1>1, <4>1, <4>2 DEF Settled
    <3>5. QED
      BY <3>3, <3>4
  <2>2. QED
    BY <2>1
<1>13. ASSUME FileMissing PROVE All
  <2>1. /\ UNCHANGED <<workQ, resultQ, busy, place, upcoming>>
        /\ hand \in Video /\ hand' = NoVideo
        /\ answered' = [answered EXCEPT ![hand] = @ + 1]
        /\ rows' = [rows EXCEPT ![hand] = "FAILED"] /\ raw' = raw
    BY <1>0, <1>13 DEF FileMissing, Answer
  <2>2. OnWay(hand) >= 1
    BY <1>c, <2>1
  <2>3. ASSUME NEW v \in Video
        PROVE  /\ Ahead(v)' \in Nat /\ Held(v)' \in Nat
               /\ Ahead(v)' + Held(v)' = Ahead(v) + Held(v) - (IF v = hand THEN 1 ELSE 0)
    <3>1. /\ Ahead(v)' = Ahead(v) /\ Ahead(v) \in Nat /\ Held(v)' = 0
          /\ Held(v) = IF v = hand THEN 1 ELSE 0
      BY <1>0, <1>2, <2>1 DEF Ahead, Held
    <3>2. CASE v = hand
      BY <3>1, <3>2
    <3>3. CASE v # hand
      BY <3>1, <3>3
    <3>4. QED
      BY <3>2, <3>3
  <2>4. QED
    BY <1>12, <2>1, <2>2, <2>3
<1>14. ASSUME FileProbed PROVE All
  <2>1. /\ UNCHANGED <<workQ, resultQ, busy, place, upcoming>>
        /\ hand \in Video /\ hand' = NoVideo
        /\ answered' = [answered EXCEPT ![hand] = @ + 1]
        /\ rows' = [rows EXCEPT ![hand] = "RUNNING"] /\ raw' = raw \union {hand}
    BY <1>0, <1>14 DEF FileProbed, Answer
  <2>2. OnWay(hand) >= 1
    BY <1>c, <2>1
  <2>3. ASSUME NEW v \in Video
        PROVE  /\ Ahead(v)' \in Nat /\ Held(v)' \in Nat
               /\ Ahead(v)' + Held(v)' = Ahead(v) + Held(v) - (IF v = hand THEN 1 ELSE 0)
    <3>1. /\ Ahead(v)' = Ahead(v) /\ Ahead(v) \in Nat /\ Held(v)' = 0
          /\ Held(v) = IF v = hand THEN 1 ELSE 0
      BY <1>0, <1>2, <2>1 DEF Ahead, Held
    <3>2. CASE v = hand
      BY <3>1, <3>2
    <3>3. CASE v # hand
      BY <3>1, <3>3
    <3>4. QED
      BY <3>2, <3>3
  <2>4. QED
    BY <1>12, <2>1, <2>2, <2>3
<1>15. ASSUME NEW u \in Video, ProcessVideo(u) PROVE All
  <2>1. /\ UNCHANGED <<hand, busy, answered, workQ, resultQ, place, upcoming>>
        /\ u \in raw /\ raw' = raw \ {u}
        /\ \E status \in {"DONE", "FAILED"} : rows' = [rows EXCEPT ![u] = status]
    BY <1>15 DEF ProcessVideo, Process
  <2>2. ASSUME NEW v \in Video PROVE Settled(v)'
    <3>1. OnWay(v)' = OnWay(v)
      BY <2>1 DEF OnWay, Ahead, Held, Doing
    <3>2. rows[u] = "RUNNING"
      BY <1>1, <2>1 DEF Settled
    <3>3. CASE v = u
      <4>1. rows'[v] \in {"DONE", "FAILED"} /\ v \notin raw' /\ answered'[v] = answered[v]
        BY <1>0, <2>1, <3>3
      <4>2. QED
        BY <1>1, <3>1, <3>2, <3>3, <4>1 DEF Settled
    <3>4. CASE v # u
      <4>1. rows'[v] = rows[v] /\ (v \in raw' <=> v \in raw) /\ answered'[v] = answered[v]
        BY <1>0, <2>1, <3>4
      <4>2. QED
        BY <1>1, <3>1, <4>1 DEF Settled
    <3>5. QED
      BY <3>3, <3>4
  <2>3. QED
    BY <2>2
\* The generator goes on to the next part of its source.
<1>16. ASSUME BeginUrls \/ UrlsRaise \/ BeginChannels \/ EndChannels \/ BeginFolder
                \/ EndFolder \/ Discovering \/ UNCHANGED allVars
       PROVE  All
  <2>1. UNCHANGED <<rows, hand, busy, answered, raw, workQ, resultQ>>
    BY <1>16 DEF BeginUrls, UrlsRaise, FeederRaises, BeginChannels, EndChannels, FeederEnds,
       BeginFolder, EndFolder, Discovering, vars, intakeVars, allVars
  <2>2. \/ UNCHANGED <<place, upcoming>>
        \/ place = "rows" /\ upcoming = <<>> /\ place' # "rows"
        \/ place # "rows" /\ place' # "rows"
    BY <1>16 DEF BeginUrls, UrlsRaise, BeginChannels, EndChannels, BeginFolder, EndFolder,
       Discovering, intakeVars, allVars
  <2>3. \A v \in Video : Ahead(v)' = Ahead(v)
    <3>1. \A v : ~ Contains(<<>>, v)
      BY DEF Contains
    <3>2. QED
      BY <2>2, <3>1 DEF Ahead
  <2>4. QED
    BY <1>4, <2>1, <2>3
<1>17. ASSUME YieldListed PROVE All
  <2>1. /\ Head(upcoming) \in Video /\ Register(Head(upcoming), NextFile) /\ place # "rows"
        /\ hand = NoVideo /\ UNCHANGED <<place, busy, answered, raw, workQ, resultQ>>
    BY <1>0, <1>17, TailToSet DEF YieldListed, Asked, vars
  <2>2. QED
    BY <1>6, <2>1
<1>18. ASSUME TakeFound PROVE All
  <2>1. /\ place # "rows" /\ hand = NoVideo
        /\ UNCHANGED <<place, upcoming, busy, answered, raw, workQ, resultQ>>
    BY <1>18 DEF TakeFound, Asked, vars
  <2>2. CASE Head(foundQ) = DiscoverError
    <3>1. UNCHANGED <<hand, rows>>
      BY <1>18, <2>2 DEF TakeFound
    <3>2. \A v \in Video : Ahead(v)' = Ahead(v)
      BY <2>1 DEF Ahead
    <3>3. QED
      BY <1>4, <2>1, <3>1, <3>2
  <2>3. CASE Head(foundQ) # DiscoverError
    <3>1. Register(Head(foundQ), 0) /\ Head(foundQ) \in Listed
      <4>1. foundQ # <<>> /\ Head(foundQ) # NoMore /\ Register(Head(foundQ), 0)
        BY <1>18, <2>3 DEF TakeFound
      <4>2. Head(foundQ) \in Listed \union {DiscoverError, NoMore}
        BY <1>f, <4>1, TailToSet
      <4>3. QED
        BY <2>3, <4>1, <4>2
    <3>2. Head(foundQ) \in Video
      BY <3>1, Constants
    <3>3. QED
      BY <1>6, <2>1, <3>1, <3>2
  <2>4. QED
    BY <2>2, <2>3
<1>19. ASSUME Downloading PROVE All
  <2>1. CASE FeederPutsSentinel
    BY <1>8, <1>19, <2>1 DEF Downloading, FeederPutsSentinel, intakeVars
  <2>2. CASE Closer
    BY <1>8, <1>19, <2>2 DEF Downloading, Closer, intakeVars
  <2>3. QED
    BY <1>9, <1>10, <1>19, <2>1, <2>2 DEF Downloading
<1>20. All
  BY <1>5, <1>7, <1>11, <1>13, <1>14, <1>15, <1>16, <1>17, <1>18, <1>19
     DEF IntakeNext, Generator
<1>21. QED
  BY <1>u, <1>20 DEF Tally, Settled

\* orchestrator.py 58-73, download.py 134-156: every PENDING row is on its way
\* in exactly one place, whatever the rows, the listings and their order are,
\* and however the generator, the queues and the loop interleave.
THEOREM PendingStaysOnItsWay == IntakeSpec => []PendingIsOnItsWay
<1>1. IntakeInv /\ Tally /\ [IntakeNext]_allVars => Tally'
  BY TallyNext
<1>2. IntakeInit => Tally
  BY TallyInit
<1>3. IntakeInv /\ Tally => PendingIsOnItsWay
  BY TallyMeansPending
<1>4. QED
  BY <1>1, <1>2, <1>3, IntakeInvariant, PTL DEF IntakeSpec

=============================================================================
