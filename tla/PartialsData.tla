---------------------------- MODULE PartialsData -----------------------------
(***************************************************************************)
(* VutuPartialsData: how partials are made from an analysis or read from a *)
(* file, what calcStats() says of them, how frames are looked up in them,  *)
(* and what a file keeps.                                                  *)
(*                                                                         *)
(* calcStats() is cut at each step of its walk along the starts and ends   *)
(* of partials: std::sort puts those with equal times in any order.        *)
(* Of the parameters that are stored all alike "hiCut" stands for seven.   *)
(* Floats are naturals here, counted in the smallest positive float.       *)
(***************************************************************************)
EXTENDS Integers, Sequences, FiniteSetsExt

CONSTANTS
    FoundPartials,  \* the partials that an analysis may find ...
    MaxPartials,    \* ... and how many of them at most
    HiCuts,         \* the values of the parameter "hi_cut"
    Fundamentals,   \* the values of the parameter "fundamental"
    SourceFiles,    \* names of sound files
    Duration,       \* how long a sound is
    OtherFiles,     \* files of partials that were not written by this program,
    OtherTrees,     \* in the text format and in the binary one
    Huge,           \* the largest float
    MaxOps          \* the operations in a behaviour, at most, where an
                    \* analysis counts once for each partial that it finds

VARIABLES
    data,       \* the VutuPartialsData in use, stats included
    walk,       \* where calcStats() is in its walk, and its locals
    files,      \* the file of each format
    written,    \* history: what was written into each file
    loaded,     \* history: the format that the data has just been read from
    ops         \* the operations so far, as MaxOps counts them

vars == <<data, walk, files, written, loaded, ops>>

\* std::numeric_limits<float>::min()
Tiny == 1

\* A text that is not set.
NoName == ""

Parts == {"time", "amp", "freq", "bandwidth", "phase"}

EmptyPartial == [part \in Parts |-> <<>>]

Partial == {p \in [Parts -> Seq(0..Huge)] :
                \A part \in Parts : Len(p[part]) = Len(p["time"])}

\* What a file can hold, by its keys; p[i + 1] is what has the key "p<i>".
\* Files of other programs may or may not have a source_duration.
Stored == {q \in [time : Seq(0..Huge), amp : Seq(0..Huge), freq : Seq(0..Huge),
                  bw : Seq(0..Huge), phase : Seq(0..Huge)] :
               Len(q.amp) = Len(q.time) /\ Len(q.freq) = Len(q.time)
               /\ Len(q.bw) = Len(q.time) /\ Len(q.phase) = Len(q.time)}

File ==
    [source : SourceFiles \cup {NoName}, hi_cut : Nat, fundamental : Nat, p : Seq(Stored)]
    \cup [source : SourceFiles \cup {NoName}, hi_cut : Nat, fundamental : Nat,
          source_duration : 0..Huge, p : Seq(Stored)]

Tree ==
    {tree \in [source : SourceFiles \cup {NoName}, hi_cut : Nat, fundamental : Nat,
               n_partials : Nat, p : Seq(Stored)]
              \cup [source : SourceFiles \cup {NoName}, hi_cut : Nat, fundamental : Nat,
                    source_duration : 0..Huge, n_partials : Nat, p : Seq(Stored)] :
         tree.n_partials = Len(tree.p)}

Formats == {"utu", "ut2"}
None == [format |-> "none"]

\* The partials of an analysis have breakpoints.
ASSUME PartialsAssumption ==
    /\ Huge \in Nat /\ Huge > Tiny
    /\ Duration \in 1..Huge
    /\ FoundPartials \subseteq Partial \ {EmptyPartial}
    /\ OtherFiles \subseteq File
    /\ OtherTrees \subseteq Tree
    /\ MaxPartials \in Nat
    /\ HiCuts \subseteq Nat
    /\ Fundamentals \subseteq Nat
    /\ MaxOps \in Nat

(***************************************************************************)
(* Statistics.                                                             *)
(***************************************************************************)
Extrema(vec) ==
    IF vec = <<>> THEN <<0, 0>> ELSE <<Min(Range(vec)), Max(Range(vec))>>

\* Mutant: the least value is sought from zero.
ParamRangeFromZero(partials, part) ==
    LET ranges == {Extrema(partials[i][part]) : i \in DOMAIN partials}
    IN  <<Min({0} \cup {r[1] : r \in ranges}), Max({Tiny} \cup {r[2] : r \in ranges})>>
ParamRange(partials, part) ==
    LET ranges == {Extrema(partials[i][part]) : i \in DOMAIN partials}
    IN  <<Min({Huge} \cup {r[1] : r \in ranges}),
          Max({Tiny} \cup {r[2] : r \in ranges})>>

\* calcStats() up to the walk.
StatsBeforeWalk(partials) ==
    [range |-> [part \in Parts \ {"phase"} |-> ParamRange(partials, part)],
     nPartials |-> Len(partials),
     partialTimeRanges |-> [i \in DOMAIN partials |-> Extrema(partials[i]["time"])],
     maxActive |-> 0, maxActiveTime |-> 0]

\* The starts and the ends of partials, as pairs of index and isEnd.
Events(stats) == (1..stats.nPartials) \X BOOLEAN

TimeOf(stats, event) ==
    stats.partialTimeRanges[event[1]][IF event[2] THEN 2 ELSE 1]

WalkFrom(stats) ==
    [left |-> Events(stats), active |-> 0, maxActive |-> 0, maxActiveTime |-> 0]

Walking == walk # None
Idle == ~Walking

\* The next in the sorted order.
\* Mutant: they are not sorted.
NextUnsorted(event) == event \in walk.left
NextInOrder(event) ==
    /\ event \in walk.left
    /\ \A e \in walk.left : TimeOf(data.stats, event) <= TimeOf(data.stats, e)

WalkEnd ==
    /\ Walking
    /\ \E i \in 1..data.stats.nPartials :
           /\ NextInOrder(<<i, TRUE>>)
           /\ walk' = [walk EXCEPT !.left = @ \ {<<i, TRUE>>}, !.active = @ - 1]
    /\ UNCHANGED <<data, files, written, loaded, ops>>

WalkStart ==
    /\ Walking
    /\ \E i \in 1..data.stats.nPartials :
           LET active == walk.active + 1
               most == Max({walk.maxActive, active})
           IN  /\ NextInOrder(<<i, FALSE>>)
               /\ walk' = [left |-> walk.left \ {<<i, FALSE>>},
                           active |-> active, maxActive |-> most,
                           maxActiveTime |-> IF most = active
                                             THEN TimeOf(data.stats, <<i, FALSE>>)
                                             ELSE walk.maxActiveTime]
    /\ UNCHANGED <<data, files, written, loaded, ops>>

\* A file without a duration is given one from the partials.
FakedDuration(stats) == stats.range["time"][2]

WalkDone ==
    /\ Walking
    /\ walk.left = {}
    /\ LET stats == [data.stats EXCEPT !.maxActive = walk.maxActive,
                                       !.maxActiveTime = walk.maxActiveTime]
       IN  data' = [data EXCEPT !.stats = stats,
                                !.sourceDuration = IF @ = 0 THEN FakedDuration(stats)
                                                            ELSE @]
    /\ walk' = None
    /\ UNCHANGED <<files, written, loaded, ops>>

(***************************************************************************)
(* Operations, of which each ends with calcStats().                        *)
(***************************************************************************)
CutHighs(partials, fCut) ==
    [i \in DOMAIN partials |->
        IF Max(Range(partials[i]["freq"])) > fCut THEN EmptyPartial
                                                  ELSE partials[i]]

\* std::remove_if(), which keeps the others in their order.
CleanOutliers(partials) ==
    LET cleaned[n \in 0..Len(partials)] ==
            IF n = 0 THEN <<>>
            ELSE IF Len(partials[n]["time"]) > 1
                 THEN Append(cleaned[n - 1], partials[n])
                 ELSE cleaned[n - 1]
    IN  cleaned[Len(partials)]

\* Mutant: cleaned before the cut.
CleanedEarly(partials, fCut) == CutHighs(CleanOutliers(partials), fCut)
Cleaned(partials, fCut) == CleanOutliers(CutHighs(partials, fCut))

NoPartials ==
    [partials |-> <<>>, type |-> NoName, sourceFile |-> NoName, sourceDuration |-> 0,
     hiCut |-> 0, fundamental |-> 0, found |-> <<>>,
     stats |-> [StatsBeforeWalk(<<>>) EXCEPT !.range = [part \in DOMAIN @ |-> <<0, 0>>]]]

Operation(count) == Idle /\ ops + count <= MaxOps /\ ops' = ops + count

\* analyzeSample(), where Loris has found something.  "found" is history.
Analyze ==
    /\ \E n \in 1..MaxPartials :
       \E found \in [1..n -> FoundPartials], name \in SourceFiles, hiCut \in HiCuts :
           LET partials == Cleaned(found, hiCut) IN
           /\ Operation(n)
           /\ data' = [partials |-> partials, type |-> "VutuPartials",
                       sourceFile |-> name, sourceDuration |-> Duration,
                       hiCut |-> hiCut, fundamental |-> 0, found |-> found,
                       stats |-> StatsBeforeWalk(partials)]
    /\ walk' = WalkFrom(data'.stats)
    /\ loaded' = "none"
    /\ UNCHANGED <<files, written>>

(***************************************************************************)
(* Files.  Writers and readers agree on the keys only by their literals,   *)
(* in two formats.  Neither writer writes a source_duration.               *)
(***************************************************************************)
Lookup(file, key, default) == IF key \in DOMAIN file THEN file[key] ELSE default

PartialToJSON(partial) ==
    [time |-> partial["time"], amp |-> partial["amp"], freq |-> partial["freq"],
     bw |-> partial["bandwidth"], phase |-> partial["phase"]]

\* vutuPartialsToJSON().
StoredAsJSON(d) ==
    [source |-> d.sourceFile, hi_cut |-> d.hiCut, fundamental |-> d.fundamental,
     p |-> [i \in DOMAIN d.partials |-> PartialToJSON(d.partials[i])]]

PartialToBinary(partial) ==
    [time |-> partial["time"], amp |-> partial["amp"], freq |-> partial["freq"],
     bw |-> partial["bandwidth"], phase |-> partial["phase"]]

\* vutuPartialsToBinary().
StoredAsBinary(d) ==
    [source |-> d.sourceFile, hi_cut |-> d.hiCut, fundamental |-> d.fundamental,
     n_partials |-> Len(d.partials),
     p |-> [i \in DOMAIN d.partials |-> PartialToBinary(d.partials[i])]]

\* jsonToVutuPartials().
\* Mutant: bandwidths are looked for under another key than they are stored.
PartialFromJSONByName(object) ==
    [part \in Parts |-> Lookup(object, part, <<>>)]
PartialFromJSON(object) ==
    [part \in Parts |-> Lookup(object, IF part = "bandwidth" THEN "bw" ELSE part, <<>>)]

FromJSON(file) ==
    LET partials == [i \in DOMAIN file.p |-> PartialFromJSON(file.p[i])]
    IN  [partials |-> partials, type |-> "VutuPartials",
         sourceFile |-> Lookup(file, "source", NoName),
         sourceDuration |-> Lookup(file, "source_duration", 0),
         hiCut |-> Lookup(file, "hi_cut", 0),
         fundamental |-> Lookup(file, "fundamental", 0),
         found |-> <<>>, stats |-> StatsBeforeWalk(partials)]

\* binaryToVutuPartials(), which reads neither the name of the source nor the
\* type, and without partials nothing at all.
\* Mutant: as above.
PartialFromBinaryByName(node) ==
    [part \in Parts |-> Lookup(node, part, <<>>)]
PartialFromBinary(node) ==
    [part \in Parts |-> Lookup(node, IF part = "bandwidth" THEN "bw" ELSE part, <<>>)]

FromBinary(tree) ==
    LET partials == [i \in 1..tree.n_partials |-> PartialFromBinary(tree.p[i])]
    IN  IF tree.n_partials = 0
        THEN [NoPartials EXCEPT !.stats = StatsBeforeWalk(<<>>)]
        ELSE [partials |-> partials, type |-> NoName, sourceFile |-> NoName,
              sourceDuration |-> Lookup(tree, "source_duration", 0),
              hiCut |-> Lookup(tree, "hi_cut", 0),
              fundamental |-> Lookup(tree, "fundamental", 0),
              found |-> <<>>, stats |-> StatsBeforeWalk(partials)]

StoredAs(format, d) == IF format = "utu" THEN StoredAsJSON(d) ELSE StoredAsBinary(d)
ReadFrom(format, file) == IF format = "utu" THEN FromJSON(file) ELSE FromBinary(file)

\* "do/export", which notes the fundamental before it saves the partials.  It
\* writes "utu"; nothing here calls vutuPartialsToBinary(), whose callers are
\* taken to do alike.
Save ==
    /\ Operation(1)
    /\ data.partials # <<>>
    /\ \E format \in Formats, fundamental \in Fundamentals :
           /\ data' = [data EXCEPT !.fundamental = fundamental]
           /\ files' = [files EXCEPT ![format] = StoredAs(format, data')]
           /\ written' = [written EXCEPT ![format] = data']
    /\ loaded' = "none"
    /\ UNCHANGED walk

\* loadVutuPartialsFromFile().
Load ==
    /\ Operation(1)
    /\ \E format \in Formats :
           /\ files[format] # None
           /\ data' = ReadFrom(format, files[format])
           /\ loaded' = format
    /\ walk' = WalkFrom(data'.stats)
    /\ UNCHANGED <<files, written>>

\* Nothing more is done; an unfinished walk would be a deadlock.
Rest == Idle /\ UNCHANGED vars

Init ==
    /\ data = NoPartials
    /\ walk = None
    /\ \/ \E file \in OtherFiles : files = [utu |-> file, ut2 |-> None]
       \/ \E tree \in OtherTrees : files = [utu |-> None, ut2 |-> tree]
    /\ written = [format \in Formats |-> None]
    /\ loaded = "none"
    /\ ops = 0

Next == Analyze \/ Save \/ Load \/ Rest \/ WalkStart \/ WalkEnd \/ WalkDone

Spec == Init /\ [][Next]_vars
-----------------------------------------------------------------------------
(***************************************************************************)
(* Looking up frames.  within() is half open.  An interpolated value is a  *)
(* ratio: its numerator and denominator.                                   *)
(***************************************************************************)
\* Mutant: it is closed.
WithinClosed(x, from, to) == from <= x /\ x <= to
Within(x, from, to) == from <= x /\ x < to

\* The first index, but for 1, after time t; 2 if there is none.
\* Mutant: the last one.
LastIndexAfter(times, t) == Max({2} \cup {i \in 2..Len(times) : t < times[i]})
IndexAfter(times, t) ==
    LET after == {i \in 2..Len(times) : t < times[i]}
    IN  IF after = {} THEN 2 ELSE Min(after)

InTimeRange(p, t) ==
    /\ p \in 1..data.stats.nPartials
    /\ LET range == data.stats.partialTimeRanges[p] IN Within(t, range[1], range[2])

\* getPartialFrame(), one part of it.
FrameAt(p, t, part) ==
    LET partial == data.partials[p]
        i == IndexAfter(partial["time"], t)
        before == t - partial["time"][i - 1]
        after == partial["time"][i] - t
    IN  <<partial[part][i - 1] * after + partial[part][i] * before, before + after>>

\* getPartialFrameByIndex(), one part of it.
FrameByIndex(p, i, part) ==
    IF p \in 1..data.stats.nPartials /\ i \in DOMAIN data.partials[p]["time"]
    THEN data.partials[p][part][i] ELSE 0

\* getPartialFrameNearest(), the index of the frame.
NearestIndex(p, t) ==
    LET times == data.partials[p]["time"]
        i == IndexAfter(times, t)
    IN  IF t - times[i - 1] < times[i] - t THEN i - 1 ELSE i
-----------------------------------------------------------------------------
Stats == [range : [Parts \ {"phase"} -> (0..Huge) \X (0..Huge)], nPartials : Nat,
          partialTimeRanges : Seq((0..Huge) \X (0..Huge)),
          maxActive : Nat, maxActiveTime : 0..Huge]

Data == [partials : Seq(Partial), type : {NoName, "VutuPartials"},
         sourceFile : SourceFiles \cup {NoName}, sourceDuration : 0..Huge, hiCut : Nat,
         fundamental : Nat, found : Seq(FoundPartials), stats : Stats]

TypeOK ==
    /\ data \in Data
    /\ \/ walk = None
       \/ walk \in [left : SUBSET Events(data.stats), active : Int,
                   maxActive : 0..data.stats.nPartials, maxActiveTime : 0..Huge]
    /\ DOMAIN files = Formats
    /\ files["utu"] \in File \cup {None} /\ files["ut2"] \in Tree \cup {None}
    /\ written \in [Formats -> Data \cup {None}]
    /\ loaded \in Formats \cup {"none"}
    /\ ops \in 0..MaxOps

\* Later ones are greater.
Increasing(times) == \A i, j \in DOMAIN times : i < j => times[i] < times[j]

\* Where partials have several breakpoints and their times increase, the
\* interpolated frame at a breakpoint is the one that has its index, and
\* elsewhere lies between those before and after it; on the end it is silent.
FramesInterpolate ==
    Idle => \A p \in DOMAIN data.partials, t \in 0..Duration :
        LET times == data.partials[p]["time"]
            Amp(i) == FrameByIndex(p, i, "amp")
        IN  Len(times) > 1 /\ Increasing(times) =>
            /\ InTimeRange(p, t) <=> times[1] <= t /\ t < times[Len(times)]
            /\ InTimeRange(p, t) =>
                LET frame == FrameAt(p, t, "amp") IN
                \E i \in 1..Len(times) - 1 :
                    /\ times[i] <= t /\ t < times[i + 1]
                    /\ t = times[i] => frame[1] = Amp(i) * frame[2]
                    /\ frame[2] > 0
                    /\ frame[1] >= Min({Amp(i), Amp(i + 1)}) * frame[2]
                    /\ frame[1] <= Max({Amp(i), Amp(i + 1)}) * frame[2]

Distance(a, b) == IF a < b THEN b - a ELSE a - b

\* No breakpoint is nearer than the one that getPartialFrameNearest() picks.
NearestIsNearest ==
    Idle => \A p \in DOMAIN data.partials, t \in 0..Duration :
        LET times == data.partials[p]["time"]
        IN  Increasing(times) /\ InTimeRange(p, t) =>
                \A i \in DOMAIN times :
                    Distance(t, times[NearestIndex(p, t)]) <= Distance(t, times[i])
-----------------------------------------------------------------------------
(***************************************************************************)
(* What the statistics promise.                                            *)
(***************************************************************************)
\* The partials that sound at time t, or only begin or end there.
Sounding(stats, t) ==
    {i \in 1..stats.nPartials : TimeOf(stats, <<i, FALSE>>) <= t
                                /\ t < TimeOf(stats, <<i, TRUE>>)}
Touching(stats, t) ==
    {i \in 1..stats.nPartials : TimeOf(stats, <<i, FALSE>>) <= t
                                /\ t <= TimeOf(stats, <<i, TRUE>>)}

\* In whatever order equal times are sorted: never do more partials sound
\* than maxActivePartials, and as many sound, begin or end at maxActiveTime;
\* and each partial that has begun has ended (the assertion in calcStats).
WalkBounds ==
    /\ Idle => /\ \A t \in 0..Duration :
                      Cardinality(Sounding(data.stats, t)) <= data.stats.maxActive
               /\ data.partials # <<>> =>
                      Cardinality(Touching(data.stats, data.stats.maxActiveTime))
                          >= data.stats.maxActive
    /\ Walking /\ walk.left = {} => walk.active = 0

Values(part) == UNION {Range(data.partials[i][part]) : i \in DOMAIN data.partials}

\* The ranges of all and of each of the partials are those of the
\* breakpoints that they have now, except that nothing but zeros has the
\* range up to the smallest float.
StatsTrue ==
    data.partials # <<>> =>
        /\ \A part \in Parts \ {"phase"} :
               /\ data.stats.range[part][1] = Min(Values(part))
               /\ data.stats.range[part][2] = Max(Values(part) \cup {Tiny})
        /\ Len(data.stats.partialTimeRanges) = Len(data.partials)
        /\ \A i \in DOMAIN data.partials :
               /\ data.stats.partialTimeRanges[i][1] \in Range(data.partials[i]["time"])
               /\ \A t \in Range(data.partials[i]["time"]) :
                      /\ data.stats.partialTimeRanges[i][1] <= t
                      /\ t <= data.stats.partialTimeRanges[i][2]

\* An analysis leaves exactly those of the partials found, in their order,
\* that have several breakpoints and no frequency above the cut.
AnalysisKeeps ==
    data.found # <<>> =>
        LET kept == {i \in DOMAIN data.found :
                        /\ Len(data.found[i]["time"]) > 1
                        /\ \A f \in Range(data.found[i]["freq"]) : f <= data.hiCut}
        IN  \E place \in [DOMAIN data.partials -> kept] :
                /\ Increasing(place)
                /\ Range(place) = kept
                /\ \A k \in DOMAIN place : data.partials[k] = data.found[place[k]]

Same(format, fields) ==
    loaded = format /\ written[format] # None /\ Idle =>
        \A field \in fields : data[field] = written[format][field]

\* What is written into a file and read from it again is the same, in both
\* formats, but for duration and type and, in the binary one, the name.  The
\* duration, which no file of this program has, is the last breakpoint's time.
ReloadKeeps ==
    /\ Same("utu", {"partials", "hiCut", "fundamental", "sourceFile"})
    /\ Same("ut2", {"partials", "hiCut", "fundamental"})
    /\ loaded # "none" /\ written[loaded] # None /\ Idle =>
           /\ data.sourceDuration \in Values("time") \cup {Tiny}
           /\ \A t \in Values("time") : t <= data.sourceDuration

\* "All this data except stats is stored to a partials file."
StoredExceptStats ==
    Same("utu", {"partials", "hiCut", "fundamental", "sourceFile", "sourceDuration"})
=============================================================================
