-------------------------- MODULE PartialsDataProofs --------------------------
(***************************************************************************)
(* Proofs about PartialsData: its types, its statistics and its look-ups,  *)
(* for all partials, files and orders of equal times.                      *)
(***************************************************************************)
EXTENDS PartialsData, FiniteSetTheorems, WellFoundedInduction, TLAPS

(***************************************************************************)
(* Least and greatest members, and induction by them.                      *)
(***************************************************************************)
\* Natural numbers, if there are any, have a least one.
LEMMA Least ==
    ASSUME NEW T, T \subseteq Nat, T # {}
    PROVE \E x \in T : \A y \in T : x <= y
<1> DEFINE R == {ss \in Nat \X Nat : ss[1] < ss[2]}
<1>1. IsWellFoundedOn(R, Nat)
    BY NatLessThanWellFounded DEF OpToRel
<1>2. \A a, b \in Nat : a < b => <<a, b>> \in R
    OBVIOUS
<1> HIDE DEF R
<1>3. PICK x \in T : \A y \in T : ~(<<y, x>> \in R)
    BY <1>1, WFMin
<1>4. ASSUME NEW y \in T
      PROVE x <= y
  <2>1. x \in Nat /\ y \in Nat
      OBVIOUS
  <2>2. ~(y < x)
      BY <1>2, <1>3, <2>1
  <2> QED BY <2>1, <2>2
<1> QED BY <1>4

\* Naturals up to a bound have a greatest one.
LEMMA Greatest ==
    ASSUME NEW T, NEW n \in Nat, T \subseteq 0..n, T # {}
    PROVE \E x \in T : \A y \in T : y <= x
<1> DEFINE Bounds == {b \in Nat : \A y \in T : y <= b}
<1>1. PICK b \in Bounds : \A c \in Bounds : b <= c
  <2>1. n \in Bounds
      OBVIOUS
  <2> QED BY <2>1, Least
<1>2. b \in T
  <2> SUFFICES ASSUME b \notin T PROVE FALSE
      OBVIOUS
  <2>1. \A y \in T : y < b
      OBVIOUS
  <2>2. PICK y \in T : y < b
      BY <2>1
  <2>3. b - 1 \in Nat
      BY <2>2
  <2>4. b - 1 \in Bounds
      BY <2>1, <2>3
  <2> QED BY <1>1, <2>4
<1> QED BY <1>2

\* Min() and Max() are what they say.
LEMMA MinMax ==
    ASSUME NEW T, NEW n \in Nat, T \subseteq 0..n, T # {}
    PROVE /\ Min(T) \in T /\ \A y \in T : Min(T) <= y
          /\ Max(T) \in T /\ \A y \in T : y <= Max(T)
<1>1. T \subseteq Nat
    OBVIOUS
<1>2. \E x \in T : \A y \in T : x <= y
    BY <1>1, Least
<1>3. \E x \in T : \A y \in T : y <= x
    BY Greatest
<1> QED BY <1>2, <1>3 DEF Min, Max

\* Range() is the set of a sequence's elements.
LEMMA RangeOf ==
    ASSUME NEW S, NEW vec \in Seq(S)
    PROVE /\ Range(vec) = {vec[i] : i \in 1..Len(vec)}
          /\ Range(vec) \subseteq S
          /\ vec # <<>> <=> Range(vec) # {}
    BY DEF Range
-----------------------------------------------------------------------------
(***************************************************************************)
(* Statistics of partials.                                                 *)
(***************************************************************************)
\* A partial has as many of each part as times, and the empty one has none.
LEMMA PartialType ==
    /\ \A p \in Partial : p \in [Parts -> Seq(0..Huge)]
    /\ \A p \in Partial, part \in Parts : Len(p[part]) = Len(p["time"])
    /\ {"time", "amp", "freq", "bandwidth", "phase"} \subseteq Parts
    /\ EmptyPartial \in Partial
<1>1. EmptyPartial \in [Parts -> Seq(0..Huge)]
    BY DEF EmptyPartial
<1>2. \A part \in Parts : Len(EmptyPartial[part]) = Len(EmptyPartial["time"])
    BY DEF EmptyPartial, Parts
<1> QED BY <1>1, <1>2 DEF Partial, Parts

\* Only the empty partial has no breakpoints.
LEMMA NoBreakpoints ==
    ASSUME NEW p \in Partial, p # EmptyPartial
    PROVE \A part \in Parts : p[part] # <<>>
<1>1. p \in [Parts -> Seq(0..Huge)] /\ \A part \in Parts : Len(p[part]) = Len(p["time"])
    BY PartialType
<1>2. SUFFICES ASSUME Len(p["time"]) = 0 PROVE FALSE
    BY <1>1
<1>3. \A part \in Parts : p[part] = <<>>
    BY <1>1, <1>2
<1>4. p = EmptyPartial
    BY <1>1, <1>3 DEF EmptyPartial
<1> QED BY <1>4

\* The extrema of a vector are two of its elements, around all the others.
LEMMA ExtremaType ==
    ASSUME NEW vec \in Seq(0..Huge)
    PROVE /\ Extrema(vec) \in (0..Huge) \X (0..Huge)
          /\ Extrema(vec)[1] <= Extrema(vec)[2]
          /\ vec # <<>> => Extrema(vec)[1] \in Range(vec) /\ Extrema(vec)[2] \in Range(vec)
          /\ \A t \in Range(vec) : Extrema(vec)[1] <= t /\ t <= Extrema(vec)[2]
<1>1. CASE vec = <<>>
  <2>1. Range(vec) = {}
      BY <1>1, RangeOf
  <2>2. Extrema(vec) = <<0, 0>>
      BY <1>1 DEF Extrema
  <2> QED BY <1>1, <2>1, <2>2, PartialsAssumption
<1>2. CASE vec # <<>>
  <2>1. Range(vec) # {} /\ Range(vec) \subseteq 0..Huge
      BY <1>2, RangeOf
  <2>2. /\ Min(Range(vec)) \in Range(vec) /\ \A y \in Range(vec) : Min(Range(vec)) <= y
        /\ Max(Range(vec)) \in Range(vec) /\ \A y \in Range(vec) : y <= Max(Range(vec))
      BY <2>1, MinMax, PartialsAssumption
  <2>3. Extrema(vec) = <<Min(Range(vec)), Max(Range(vec))>>
      BY <1>2 DEF Extrema
  <2> QED BY <2>1, <2>2, <2>3
<1> QED BY <1>1, <1>2

\* All the values of one part of partials.
ValuesIn(partials, part) == UNION {Range(partials[i][part]) : i \in DOMAIN partials}

\* The range of a part: around all the values there are, and made of them.
LEMMA ParamRangeType ==
    ASSUME NEW partials \in Seq(Partial), NEW part \in Parts
    PROVE /\ ParamRange(partials, part) \in (0..Huge) \X (0..Huge)
          /\ \A t \in ValuesIn(partials, part) :
                 ParamRange(partials, part)[1] <= t /\ t <= ParamRange(partials, part)[2]
          /\ Tiny <= ParamRange(partials, part)[2]
          /\ ParamRange(partials, part)[2] \in ValuesIn(partials, part) \cup {Tiny}
          /\ partials # <<>> /\ (\A i \in DOMAIN partials : partials[i][part] # <<>>) =>
                 ParamRange(partials, part)[1] \in ValuesIn(partials, part)
<1> DEFINE ranges == {Extrema(partials[i][part]) : i \in DOMAIN partials}
           firsts == {Huge} \cup {r[1] : r \in ranges}
           seconds == {Tiny} \cup {r[2] : r \in ranges}
<1>1. \A i \in DOMAIN partials : partials[i][part] \in Seq(0..Huge)
    BY PartialType
<1>2. firsts \subseteq 0..Huge /\ seconds \subseteq 0..Huge
    BY <1>1, ExtremaType, PartialsAssumption DEF Tiny
<1>3. ParamRange(partials, part) = <<Min(firsts), Max(seconds)>>
    BY DEF ParamRange
<1>4. /\ Min(firsts) \in firsts /\ \A y \in firsts : Min(firsts) <= y
      /\ Max(seconds) \in seconds /\ \A y \in seconds : y <= Max(seconds)
  <2>1. firsts # {} /\ seconds # {}
      OBVIOUS
  <2> HIDE DEF firsts, seconds
  <2> QED BY <1>2, <2>1, MinMax, PartialsAssumption
<1>5. ASSUME NEW t \in ValuesIn(partials, part)
      PROVE Min(firsts) <= t /\ t <= Max(seconds)
  <2>1. PICK i \in DOMAIN partials : t \in Range(partials[i][part])
      BY DEF ValuesIn
  <2>2. /\ Extrema(partials[i][part])[1] \in 0..Huge /\ Extrema(partials[i][part])[2] \in 0..Huge
        /\ Extrema(partials[i][part])[1] <= t /\ t <= Extrema(partials[i][part])[2]
      BY <1>1, <2>1, ExtremaType
  <2>3. Extrema(partials[i][part])[1] \in firsts /\ Extrema(partials[i][part])[2] \in seconds
      OBVIOUS
  <2>4. t \in 0..Huge
      BY <1>1, <2>1, RangeOf
  <2> HIDE DEF firsts, seconds
  <2>5. Min(firsts) \in 0..Huge /\ Max(seconds) \in 0..Huge
      BY <1>2, <1>4
  <2>6. /\ Min(firsts) <= Extrema(partials[i][part])[1]
        /\ Extrema(partials[i][part])[2] <= Max(seconds)
      BY <1>4, <2>3
  <2> QED BY <2>2, <2>4, <2>5, <2>6
<1>6. ASSUME partials # <<>>, \A i \in DOMAIN partials : partials[i][part] # <<>>
      PROVE Min(firsts) \in ValuesIn(partials, part)
  <2>1. \A i \in DOMAIN partials : Extrema(partials[i][part])[1] \in ValuesIn(partials, part)
      BY <1>1, <1>6, ExtremaType DEF ValuesIn
  <2>2. firsts \subseteq {Huge} \cup ValuesIn(partials, part)
      BY <2>1
  <2>3. 1 \in DOMAIN partials
      BY <1>6
  <2>4. Extrema(partials[1][part])[1] \in firsts
        /\ Extrema(partials[1][part])[1] \in ValuesIn(partials, part)
      BY <2>1, <2>3
  <2>5. Extrema(partials[1][part])[1] \in 0..Huge
      BY <1>1, <2>3, ExtremaType
  <2> HIDE DEF firsts, seconds
  <2>6. CASE Min(firsts) = Huge
    <3>1. Huge <= Extrema(partials[1][part])[1]
        BY <1>4, <2>4, <2>6
    <3>2. Extrema(partials[1][part])[1] = Huge
        BY <2>5, <3>1, PartialsAssumption
    <3> QED BY <1>4, <2>2, <2>4, <2>6, <3>2
  <2> QED BY <1>4, <2>2, <2>6
<1>7. Tiny \in seconds
    OBVIOUS
<1>11. seconds \subseteq {Tiny, 0} \cup ValuesIn(partials, part)
  <2>1. ASSUME NEW i \in DOMAIN partials
        PROVE Extrema(partials[i][part])[2] \in {0} \cup ValuesIn(partials, part)
    <3>1. CASE partials[i][part] = <<>>
        BY <3>1 DEF Extrema
    <3>2. CASE partials[i][part] # <<>>
        BY <1>1, <3>2, ExtremaType DEF ValuesIn
    <3> QED BY <3>1, <3>2
  <2> QED BY <2>1
<1> HIDE DEF firsts, seconds
<1>8. ParamRange(partials, part)[1] = Min(firsts) /\ ParamRange(partials, part)[2] = Max(seconds)
    BY <1>3
<1>9. ParamRange(partials, part) \in (0..Huge) \X (0..Huge)
  <2>1. Min(firsts) \in 0..Huge /\ Max(seconds) \in 0..Huge
      BY <1>2, <1>4
  <2> QED BY <1>3, <2>1
<1>10. Tiny <= Max(seconds)
    BY <1>4, <1>7
<1>12. Max(seconds) # 0
    BY <1>10 DEF Tiny
<1> QED BY <1>4, <1>5, <1>6, <1>8, <1>9, <1>10, <1>11, <1>12

\* calcStats() fills in what it should, for any partials.
LEMMA StatsType ==
    ASSUME NEW partials \in Seq(Partial)
    PROVE /\ StatsBeforeWalk(partials) \in Stats
          /\ StatsBeforeWalk(partials).nPartials = Len(partials)
          /\ StatsBeforeWalk(partials).maxActive = 0
          /\ StatsBeforeWalk(partials).range
                 = [part \in Parts \ {"phase"} |-> ParamRange(partials, part)]
          /\ StatsBeforeWalk(partials).partialTimeRanges
                 = [i \in 1..Len(partials) |-> Extrema(partials[i]["time"])]
<1>1. [part \in Parts \ {"phase"} |-> ParamRange(partials, part)]
          \in [Parts \ {"phase"} -> (0..Huge) \X (0..Huge)]
    BY ParamRangeType
<1>2. [i \in DOMAIN partials |-> Extrema(partials[i]["time"])] \in Seq((0..Huge) \X (0..Huge))
  <2>1. ASSUME NEW i \in DOMAIN partials
        PROVE Extrema(partials[i]["time"]) \in (0..Huge) \X (0..Huge)
    <3>1. partials[i]["time"] \in Seq(0..Huge)
        BY PartialType
    <3> QED BY <3>1, ExtremaType
  <2>2. DOMAIN partials = 1..Len(partials) /\ Len(partials) \in Nat
      OBVIOUS
  <2> DEFINE S == (0..Huge) \X (0..Huge)
             F(i) == Extrema(partials[i]["time"])
  <2>3. \A i \in 1..Len(partials) : F(i) \in S
      BY <2>1, <2>2
  <2> HIDE DEF S, F
  <2>4. [i \in 1..Len(partials) |-> F(i)] \in Seq(S)
      BY <2>2, <2>3
  <2> QED BY <2>2, <2>4 DEF S, F
<1>3. Len(partials) \in Nat /\ 0 \in Nat /\ 0 \in 0..Huge
    BY PartialsAssumption
<1> QED BY <1>1, <1>2, <1>3 DEF StatsBeforeWalk, Stats
-----------------------------------------------------------------------------
(***************************************************************************)
(* cleanOutliers().                                                        *)
(***************************************************************************)
\* Which of the first m partials have several breakpoints ...
SeveralUpTo(partials, m) == {i \in 1..m : Len(partials[i]["time"]) > 1}

\* ... and that c is made of just these, in their order.
Compacted(c, partials, m) ==
    /\ c \in Seq(Partial)
    /\ \E place \in [1..Len(c) -> SeveralUpTo(partials, m)] :
           /\ Increasing(place)
           /\ Range(place) = SeveralUpTo(partials, m)
           /\ \A k \in 1..Len(c) : c[k] = partials[place[k]]

\* One more partial is kept if it has several breakpoints, and only then.
LEMMA CompactedStep ==
    ASSUME NEW partials \in Seq(Partial), NEW m \in 1..Len(partials), NEW c,
           Compacted(c, partials, m - 1)
    PROVE Compacted(IF Len(partials[m]["time"]) > 1 THEN Append(c, partials[m]) ELSE c,
                    partials, m)
<1>1. c \in Seq(Partial)
    BY DEF Compacted
<1>2. PICK place \in [1..Len(c) -> SeveralUpTo(partials, m - 1)] :
          /\ Increasing(place)
          /\ Range(place) = SeveralUpTo(partials, m - 1)
          /\ \A k \in 1..Len(c) : c[k] = partials[place[k]]
    BY DEF Compacted
<1>3. m \in Nat /\ SeveralUpTo(partials, m - 1) \subseteq 1..(m - 1)
    BY DEF SeveralUpTo
<1>4. CASE Len(partials[m]["time"]) > 1
  <2> DEFINE d == Append(c, partials[m])
             more == [k \in 1..Len(d) |-> IF k <= Len(c) THEN place[k] ELSE m]
  <2>1. SeveralUpTo(partials, m) = SeveralUpTo(partials, m - 1) \cup {m}
      BY <1>3, <1>4 DEF SeveralUpTo
  <2>2. /\ d \in Seq(Partial) /\ Len(d) = Len(c) + 1 /\ Len(c) \in Nat
        /\ d[Len(d)] = partials[m] /\ \A k \in 1..Len(c) : d[k] = c[k]
      BY <1>1
  <2> HIDE DEF d
  <2>3. \A k \in 1..Len(d) : k \in 1..Len(c) \/ (k = Len(d) /\ ~(k <= Len(c)))
    <3>1. Len(d) = Len(c) + 1 /\ Len(c) \in Nat
        BY <2>2
    <3> QED BY <3>1
  <2>4. /\ \A k \in 1..Len(c) : k \in 1..Len(d) /\ more[k] = place[k]
        /\ Len(d) \in 1..Len(d) /\ more[Len(d)] = m
        /\ DOMAIN more = 1..Len(d) /\ more = [k \in 1..Len(d) |-> more[k]]
      BY <2>2
  <2> HIDE DEF more
  <2>5. more \in [1..Len(d) -> SeveralUpTo(partials, m)]
    <3>1. \A k \in 1..Len(d) : more[k] \in SeveralUpTo(partials, m)
        BY <2>1, <2>3, <2>4
    <3> QED BY <2>4, <3>1
  <2>6. Increasing(more)
    <3> SUFFICES ASSUME NEW i \in 1..Len(d), NEW j \in 1..Len(d), i < j
                 PROVE more[i] < more[j]
        BY <2>4 DEF Increasing
    <3>1. i \in 1..Len(c)
        BY <2>2, <2>3
    <3>2. CASE j \in 1..Len(c)
        BY <1>2, <2>4, <3>1, <3>2 DEF Increasing
    <3>3. CASE j = Len(d)
      <4>1. more[i] \in 1..(m - 1)
          BY <1>2, <1>3, <2>4, <3>1
      <4>2. more[i] < m
          BY <1>3, <4>1
      <4> QED BY <2>4, <3>3, <4>2
    <3> QED BY <2>3, <3>2, <3>3
  <2>7. Range(more) = SeveralUpTo(partials, m)
    <3>1. ASSUME NEW x \in SeveralUpTo(partials, m)
          PROVE \E k \in 1..Len(d) : more[k] = x
      <4>1. CASE x = m
          BY <2>4, <4>1
      <4>2. CASE x \in SeveralUpTo(partials, m - 1)
        <5>1. PICK k \in 1..Len(c) : place[k] = x
            BY <1>2, <4>2 DEF Range
        <5> QED BY <2>4, <5>1
      <4> QED BY <2>1, <4>1, <4>2
    <3> QED BY <2>4, <2>5, <3>1 DEF Range
  <2>8. \A k \in 1..Len(d) : d[k] = partials[more[k]]
      BY <1>2, <2>2, <2>3, <2>4
  <2>9. Compacted(d, partials, m)
      BY <2>2, <2>5, <2>6, <2>7, <2>8 DEF Compacted
  <2> QED BY <1>4, <2>9 DEF d
<1>5. CASE ~(Len(partials[m]["time"]) > 1)
  <2>1. SeveralUpTo(partials, m) = SeveralUpTo(partials, m - 1)
      BY <1>3, <1>5 DEF SeveralUpTo
  <2> QED BY <1>1, <1>2, <1>5, <2>1 DEF Compacted
<1> QED BY <1>4, <1>5

\* The loop of std::remove_if(), step n of it, where f are the ones before.
Compaction(partials, f, n) ==
    IF n = 0 THEN <<>>
    ELSE IF Len(partials[n]["time"]) > 1 THEN Append(f[n - 1], partials[n]) ELSE f[n - 1]

\* A function does all these steps.
LEMMA CompactionExists ==
    ASSUME NEW partials \in Seq(Partial)
    PROVE \A m \in 0..Len(partials) :
              \E f : f = [n \in 0..m |-> Compaction(partials, f, n)]
<1> DEFINE Does(f, m) == f = [n \in 0..m |-> Compaction(partials, f, n)]
           Bad == {m \in 0..Len(partials) : \A f : ~Does(f, m)}
<1>1. SUFFICES ASSUME Bad # {} PROVE FALSE
    OBVIOUS
<1>2. PICK m \in Bad : \A k \in Bad : m <= k
  <2>1. Bad \subseteq Nat
      OBVIOUS
  <2> HIDE DEF Bad
  <2> QED BY <1>1, <2>1, Least
<1>3. m \in 0..Len(partials) /\ \A f : ~Does(f, m)
    OBVIOUS
<1>4. CASE m = 0
  <2> DEFINE f == [n \in 0..0 |-> <<>>]
  <2>1. Does(f, 0)
      BY DEF Compaction
  <2> QED BY <1>3, <1>4, <2>1
<1>5. CASE m # 0
  <2>1. m - 1 \in 0..Len(partials) /\ m - 1 < m /\ m \in 1..Len(partials)
      BY <1>3, <1>5
  <2>2. m - 1 \notin Bad
      BY <1>2, <1>3, <2>1
  <2>3. PICK f : Does(f, m - 1)
      BY <2>1, <2>2
  <2> DEFINE g == [n \in 0..m |-> IF n = m THEN Compaction(partials, f, m) ELSE f[n]]
  <2>4. \A n \in 0..(m - 1) : g[n] = f[n]
      BY <2>1
  <2>5. g[m] = Compaction(partials, f, m) /\ DOMAIN g = 0..m
      BY <2>1
  <2>6. \A n \in 0..m : g[n] = Compaction(partials, g, n)
    <3> SUFFICES ASSUME NEW n \in 0..m PROVE g[n] = Compaction(partials, g, n)
        OBVIOUS
    <3>1. CASE n = 0
        BY <2>1, <2>3, <2>4, <3>1 DEF Compaction
    <3>2. CASE n # 0
      <4>1. n - 1 \in 0..(m - 1)
          BY <2>1, <3>2
      <4>2. Compaction(partials, g, n) = Compaction(partials, f, n)
          BY <2>4, <3>2, <4>1 DEF Compaction
      <4>3. CASE n = m
          BY <2>5, <4>2, <4>3
      <4>4. CASE n # m
        <5>1. n \in 0..(m - 1)
            BY <2>1, <4>4
        <5> QED BY <2>3, <2>4, <4>2, <5>1
      <4> QED BY <4>3, <4>4
    <3> QED BY <3>1, <3>2
  <2>7. g = [n \in 0..m |-> Compaction(partials, g, n)]
      BY <2>5, <2>6
  <2> QED BY <1>3, <2>7
<1> QED BY <1>4, <1>5

\* What cleanOutliers() leaves: the partials of several breakpoints.
LEMMA CleanOutliersKeeps ==
    ASSUME NEW partials \in Seq(Partial)
    PROVE Compacted(CleanOutliers(partials), partials, Len(partials))
<1> DEFINE Is(f) == f = [n \in 0..Len(partials) |->
                            IF n = 0 THEN <<>>
                            ELSE IF Len(partials[n]["time"]) > 1
                                 THEN Append(f[n - 1], partials[n])
                                 ELSE f[n - 1]]
           cleaned == CHOOSE f : Is(f)
           Bad == {m \in 0..Len(partials) : ~Compacted(cleaned[m], partials, m)}
<1>1. CleanOutliers(partials) = cleaned[Len(partials)]
    BY DEF CleanOutliers
<1>2. PICK f : f = [n \in 0..Len(partials) |-> Compaction(partials, f, n)]
    BY CompactionExists
<1>3. Is(f)
    BY <1>2 DEF Compaction
<1>4. Is(cleaned)
    BY <1>3
<1> HIDE DEF cleaned
<1>5. cleaned[0] = <<>>
    BY <1>4
<1>6. ASSUME NEW n \in 1..Len(partials)
      PROVE cleaned[n] = IF Len(partials[n]["time"]) > 1
                         THEN Append(cleaned[n - 1], partials[n])
                         ELSE cleaned[n - 1]
  <2>1. n \in 0..Len(partials) /\ n # 0
      OBVIOUS
  <2> QED BY <1>4, <2>1
<1> HIDE DEF Is
<1>7. SUFFICES ASSUME Bad # {} PROVE FALSE
    BY <1>1
<1>8. PICK m \in Bad : \A k \in Bad : m <= k
  <2>1. Bad \subseteq Nat
      OBVIOUS
  <2> HIDE DEF Bad
  <2> QED BY <1>7, <2>1, Least
<1>9. CASE m = 0
  <2> DEFINE place == [k \in 1..Len(<<>>) |-> 0]
  <2>1. SeveralUpTo(partials, 0) = {} /\ 1..Len(<<>>) = {}
      BY DEF SeveralUpTo
  <2>2. place \in [1..Len(<<>>) -> SeveralUpTo(partials, 0)] /\ DOMAIN place = {}
      BY <2>1
  <2>3. Range(place) = {} /\ Increasing(place)
      BY <2>2 DEF Range, Increasing
  <2>4. <<>> \in Seq(Partial)
      OBVIOUS
  <2>5. Compacted(<<>>, partials, 0)
      BY <2>1, <2>2, <2>3, <2>4 DEF Compacted
  <2> QED BY <1>5, <1>9, <2>5
<1>10. CASE m # 0
  <2>1. m \in 1..Len(partials) /\ m - 1 \in 0..Len(partials) /\ m - 1 < m
      BY <1>10
  <2>2. Compacted(cleaned[m - 1], partials, m - 1)
      BY <1>8, <2>1
  <2>3. Compacted(cleaned[m], partials, m)
      BY <1>6, <2>1, <2>2, CompactedStep
  <2> QED BY <2>3
<1> QED BY <1>9, <1>10
-----------------------------------------------------------------------------
(***************************************************************************)
(* The walk along starts and ends.                                         *)
(***************************************************************************)
\* The partials whose start, and whose end, is not among those left ...
Begun(stats, left) == {i \in 1..stats.nPartials : <<i, FALSE>> \notin left}
Over(stats, left) == {i \in 1..stats.nPartials : <<i, TRUE>> \notin left}

\* ... and those that begin, and that end, at time t or before it.
BeginsBy(stats, t) == {i \in 1..stats.nPartials : TimeOf(stats, <<i, FALSE>>) <= t}
IsOverBy(stats, t) == {i \in 1..stats.nPartials : TimeOf(stats, <<i, TRUE>>) <= t}

\* Every partial has a time range, which does not end before it begins.
RangesOrdered(stats) ==
    /\ stats.nPartials \in Nat
    /\ \A i \in 1..stats.nPartials :
           /\ TimeOf(stats, <<i, FALSE>>) \in Nat
           /\ TimeOf(stats, <<i, TRUE>>) \in Nat
           /\ TimeOf(stats, <<i, FALSE>>) <= TimeOf(stats, <<i, TRUE>>)

\* Nothing that is left comes before what has been walked along.
InOrder(stats, left) ==
    \A e \in Events(stats) \ left, f \in left : TimeOf(stats, e) <= TimeOf(stats, f)

\* Sets of partials are finite: their sizes are numbers and differ as they should.
LEMMA Sizes ==
    ASSUME NEW n \in Nat, NEW A, NEW B, A \subseteq 1..n, B \subseteq 1..n
    PROVE /\ Cardinality(A) \in 0..n
          /\ A \subseteq B => Cardinality(A) <= Cardinality(B)
          /\ B \subseteq A => Cardinality(A \ B) = Cardinality(A) - Cardinality(B)
          /\ \A x \in A : Cardinality(A \ {x}) = Cardinality(A) - 1
<1>1. IsFiniteSet(1..n) /\ Cardinality(1..n) = n
    BY FS_Interval
<1>2. /\ IsFiniteSet(A) /\ Cardinality(A) <= n /\ Cardinality(A) \in Nat
      /\ IsFiniteSet(B) /\ Cardinality(B) \in Nat
    BY <1>1, FS_Subset, FS_CardinalityType
<1>3. A \subseteq B => Cardinality(A) <= Cardinality(B)
    BY <1>2, FS_Subset
<1>4. ASSUME B \subseteq A PROVE Cardinality(A \ B) = Cardinality(A) - Cardinality(B)
  <2>1. A \cap B = B
      BY <1>4
  <2> QED BY <1>2, <2>1, FS_Difference
<1>5. \A x \in A : Cardinality(A \ {x}) = Cardinality(A) - 1
    BY <1>2, FS_RemoveElement
<1> QED BY <1>2, <1>3, <1>4, <1>5

\* A set of indexes is finite.
LEMMA IndexesAreFinite ==
    ASSUME NEW n \in Nat, NEW A \in SUBSET (1..n)
    PROVE  IsFiniteSet(A)
<1>1. IsFiniteSet(1..n)
    BY FS_Interval
<1> QED BY <1>1, FS_Subset

\* How many are left of A without B.
LEMMA SizeOfRest ==
    ASSUME NEW A, IsFiniteSet(A), NEW B \in SUBSET A
    PROVE  Cardinality(A \ B) = Cardinality(A) - Cardinality(B)
<1>1. A \cap B = B
    OBVIOUS
<1>2. Cardinality(A \ B) = Cardinality(A) - Cardinality(A \cap B)
    BY FS_Difference
<1> QED BY <1>1, <1>2

\* How many sound, or touch, at a time: those that begin by then, less those
\* that are over.
LEMMA SoundingCount ==
    ASSUME NEW stats, RangesOrdered(stats), NEW t \in Nat
    PROVE /\ Cardinality(Sounding(stats, t))
                = Cardinality(BeginsBy(stats, t)) - Cardinality(IsOverBy(stats, t))
          /\ \A A, B : /\ A \subseteq BeginsBy(stats, t) /\ B \subseteq 1..stats.nPartials
                       /\ BeginsBy(stats, t) \ Touching(stats, t) \subseteq B
                       => Cardinality(A) - Cardinality(B)
                              <= Cardinality(Touching(stats, t))
<1> DEFINE n == stats.nPartials
           S == BeginsBy(stats, t)
           O == IsOverBy(stats, t)
<1>1. n \in Nat /\ S \subseteq 1..n /\ O \subseteq 1..n
    BY DEF RangesOrdered, BeginsBy, IsOverBy
<1> DEFINE from(i) == TimeOf(stats, <<i, FALSE>>)
           to(i) == TimeOf(stats, <<i, TRUE>>)
<1>2. \A i \in 1..n : from(i) \in Nat /\ to(i) \in Nat /\ from(i) <= to(i)
    BY DEF RangesOrdered
<1>3. /\ S = {i \in 1..n : from(i) <= t} /\ O = {i \in 1..n : to(i) <= t}
      /\ Sounding(stats, t) = {i \in 1..n : from(i) <= t /\ t < to(i)}
    BY DEF BeginsBy, IsOverBy, Sounding
<1> HIDE DEF n, S, O, from, to
<1>7. \A i \in 1..n : to(i) <= t => from(i) <= t
    BY <1>2
<1>8. \A i \in 1..n : ~(to(i) <= t) <=> t < to(i)
    BY <1>2
<1>9. O \subseteq S /\ Sounding(stats, t) = S \ O
    BY <1>3, <1>7, <1>8
<1> USE DEF n, S, O
<1>4. Touching(stats, t) \subseteq S
    BY DEF RangesOrdered, BeginsBy, Touching
<1> HIDE DEF n, S, O
<1>5. Cardinality(Sounding(stats, t)) = Cardinality(S) - Cardinality(O)
  <2>1. Cardinality(S \ O) = Cardinality(S) - Cardinality(O)
    <3>1. IsFiniteSet(S)
        BY <1>1, IndexesAreFinite
    <3>2. O \in SUBSET S
        BY <1>1, <1>9
    <3> QED BY <3>1, <3>2, SizeOfRest
  <2> QED BY <1>9, <2>1
<1>6. ASSUME NEW A, NEW B, A \subseteq S, B \subseteq 1..n, S \ Touching(stats, t) \subseteq B
      PROVE Cardinality(A) - Cardinality(B) <= Cardinality(Touching(stats, t))
  <2> DEFINE T == Touching(stats, t)
  <2>1. T \subseteq 1..n /\ S \ T \subseteq 1..n /\ A \subseteq 1..n /\ T \subseteq S
      BY <1>1, <1>4, <1>6
  <2> HIDE DEF T
  <2>2. /\ Cardinality(A) \in 0..n /\ Cardinality(B) \in 0..n /\ Cardinality(S) \in 0..n
        /\ Cardinality(T) \in 0..n
      BY <1>1, <1>6, <2>1, Sizes
  <2>3. Cardinality(A) <= Cardinality(S)
      BY <1>1, <1>6, <2>1, Sizes
  <2>4. Cardinality(S \ T) <= Cardinality(B)
      BY <1>1, <1>6, <2>1, Sizes DEF T
  <2>5. Cardinality(S \ T) = Cardinality(S) - Cardinality(T)
    <3>1. IsFiniteSet(S)
        BY <1>1, IndexesAreFinite
    <3>2. T \in SUBSET S
        BY <1>1, <2>1
    <3> QED BY <3>1, <3>2, SizeOfRest
  <2>6. Cardinality(A) - Cardinality(B) <= Cardinality(T)
      BY <2>2, <2>3, <2>4, <2>5
  <2> QED BY <2>6 DEF T
<1> QED BY <1>5, <1>6 DEF S, O, n

\* What the walk has counted so far, and that it has missed nothing.
WalkStands(stats, w) ==
    /\ w \in [left : SUBSET Events(stats), active : Int,
              maxActive : 0..stats.nPartials, maxActiveTime : Nat]
    /\ InOrder(stats, w.left)
    /\ w.active = Cardinality(Begun(stats, w.left)) - Cardinality(Over(stats, w.left))
    /\ \A t \in Nat : BeginsBy(stats, t) \subseteq Begun(stats, w.left)
                       => Cardinality(Sounding(stats, t)) <= w.maxActive
    /\ w.maxActive <= Cardinality(Touching(stats, w.maxActiveTime))

\* It stands before the first event.
LEMMA WalkFromStands ==
    ASSUME NEW stats, RangesOrdered(stats)
    PROVE WalkStands(stats, WalkFrom(stats))
<1> DEFINE w == WalkFrom(stats)
<1>1. stats.nPartials \in Nat
    BY DEF RangesOrdered
<1>2. /\ w.left = Events(stats) /\ w.active = 0 /\ w.maxActive = 0 /\ w.maxActiveTime = 0
      /\ w \in [left : SUBSET Events(stats), active : Int,
                maxActive : 0..stats.nPartials, maxActiveTime : Nat]
    BY <1>1 DEF WalkFrom
<1>3. InOrder(stats, w.left)
    BY <1>2 DEF InOrder
<1>4. Begun(stats, w.left) = {} /\ Over(stats, w.left) = {}
    BY <1>2 DEF Begun, Over, Events
<1>5. Cardinality({}) = 0
    BY FS_EmptySet
<1>6. ASSUME NEW t \in Nat, BeginsBy(stats, t) \subseteq Begun(stats, w.left)
      PROVE Cardinality(Sounding(stats, t)) <= w.maxActive
  <2>1. Sounding(stats, t) = {}
      BY <1>4, <1>6 DEF Sounding, BeginsBy
  <2> QED BY <1>2, <1>5, <2>1
<1>7. w.maxActive <= Cardinality(Touching(stats, w.maxActiveTime))
  <2>1. Touching(stats, w.maxActiveTime) \subseteq 1..stats.nPartials
      BY DEF Touching
  <2>2. Cardinality(Touching(stats, w.maxActiveTime)) \in 0..stats.nPartials
      BY <1>1, <2>1, Sizes
  <2> QED BY <1>2, <2>2
<1> HIDE DEF w
<1>8. w.active = Cardinality(Begun(stats, w.left)) - Cardinality(Over(stats, w.left))
    BY <1>2, <1>4, <1>5
<1>9. WalkStands(stats, w)
    BY <1>2, <1>3, <1>6, <1>7, <1>8 DEF WalkStands
<1> QED BY <1>9 DEF w

\* The earliest event of those left is walked along in order.
LEMMA InOrderStep ==
    ASSUME NEW stats, NEW left, left \subseteq Events(stats), InOrder(stats, left),
           NEW e \in left, \A f \in left : TimeOf(stats, e) <= TimeOf(stats, f)
    PROVE /\ InOrder(stats, left \ {e})
          /\ \A d \in Events(stats) \ left : TimeOf(stats, d) <= TimeOf(stats, e)
    BY DEF InOrder

\* It stands when a partial has ended.
LEMMA EndStands ==
    ASSUME NEW stats, RangesOrdered(stats), NEW w, WalkStands(stats, w),
           NEW i \in 1..stats.nPartials, <<i, TRUE>> \in w.left,
           \A f \in w.left : TimeOf(stats, <<i, TRUE>>) <= TimeOf(stats, f),
           NEW next,
           next = [left |-> w.left \ {<<i, TRUE>>}, active |-> w.active - 1,
                   maxActive |-> w.maxActive, maxActiveTime |-> w.maxActiveTime]
    PROVE WalkStands(stats, next)
<1>1. /\ stats.nPartials \in Nat
      /\ w \in [left : SUBSET Events(stats), active : Int,
                maxActive : 0..stats.nPartials, maxActiveTime : Nat]
    BY DEF RangesOrdered, WalkStands
<1>2. /\ next.left = w.left \ {<<i, TRUE>>} /\ next.active = w.active - 1
      /\ next.maxActive = w.maxActive /\ next.maxActiveTime = w.maxActiveTime
    OBVIOUS
<1>10. next \in [left : SUBSET Events(stats), active : Int,
                 maxActive : 0..stats.nPartials, maxActiveTime : Nat]
  <2>1. w.left \subseteq Events(stats)
      BY <1>1
  <2>2. next.left \subseteq Events(stats)
      BY <1>2, <2>1
  <2>3. next.active \in Int
      BY <1>1, <1>2
  <2>4. next.maxActive \in 0..stats.nPartials /\ next.maxActiveTime \in Nat
      BY <1>1, <1>2
  <2> QED BY <2>2, <2>3, <2>4
<1>3. InOrder(stats, next.left)
  <2>1. InOrder(stats, w.left) /\ w.left \subseteq Events(stats)
      BY <1>1 DEF WalkStands
  <2>2. InOrder(stats, w.left \ {<<i, TRUE>>})
      BY <2>1, InOrderStep
  <2> QED BY <1>2, <2>2
<1>4. /\ Begun(stats, next.left) = Begun(stats, w.left)
      /\ Over(stats, w.left) = Over(stats, next.left) \ {i} /\ i \in Over(stats, next.left)
    BY <1>2 DEF Begun, Over
<1>5. Cardinality(Over(stats, w.left)) = Cardinality(Over(stats, next.left)) - 1
  <2>1. Over(stats, next.left) \in SUBSET (1..stats.nPartials)
      BY DEF Over
  <2>2. IsFiniteSet(Over(stats, next.left))
      BY <1>1, <2>1, IndexesAreFinite
  <2> QED BY <1>4, <2>2, FS_RemoveElement
<1>6. /\ Cardinality(Over(stats, next.left)) \in 0..stats.nPartials
      /\ Cardinality(Begun(stats, w.left)) \in 0..stats.nPartials
  <2>1. /\ Over(stats, next.left) \subseteq 1..stats.nPartials
        /\ Begun(stats, w.left) \subseteq 1..stats.nPartials
      BY DEF Over, Begun
  <2> QED BY <1>1, <2>1, Sizes
<1>7. w.active = Cardinality(Begun(stats, w.left)) - Cardinality(Over(stats, w.left))
    BY DEF WalkStands
<1>8. next.active = Cardinality(Begun(stats, next.left)) - Cardinality(Over(stats, next.left))
    BY <1>2, <1>4, <1>5, <1>6, <1>7
<1>9. WalkStands(stats, next)
    BY <1>2, <1>3, <1>4, <1>8, <1>10 DEF WalkStands
<1> QED BY <1>9

\* The greater of two numbers.
LEMMA MaxOfTwo ==
    ASSUME NEW a \in Int, NEW b \in Int
    PROVE Max({a, b}) = IF a <= b THEN b ELSE a
<1>1. \E x \in {a, b} : \A y \in {a, b} : x >= y
    OBVIOUS
<1>2. Max({a, b}) \in {a, b} /\ \A y \in {a, b} : Max({a, b}) >= y
    BY <1>1 DEF Max
<1> QED BY <1>2

\* It stands when a partial has begun.
LEMMA StartStands ==
    ASSUME NEW stats, RangesOrdered(stats), NEW w, WalkStands(stats, w),
           NEW i \in 1..stats.nPartials, <<i, FALSE>> \in w.left,
           \A f \in w.left : TimeOf(stats, <<i, FALSE>>) <= TimeOf(stats, f),
           NEW next,
           next = [left |-> w.left \ {<<i, FALSE>>}, active |-> w.active + 1,
                   maxActive |-> Max({w.maxActive, w.active + 1}),
                   maxActiveTime |-> IF Max({w.maxActive, w.active + 1}) = w.active + 1
                                     THEN TimeOf(stats, <<i, FALSE>>)
                                     ELSE w.maxActiveTime]
    PROVE WalkStands(stats, next)
<1> DEFINE n == stats.nPartials
           now == TimeOf(stats, <<i, FALSE>>)
           begun == Begun(stats, next.left)
           over == Over(stats, next.left)
<1>1. /\ n \in Nat /\ now \in Nat
      /\ w.left \subseteq Events(stats) /\ w.active \in Int /\ w.maxActive \in 0..n
      /\ w.maxActiveTime \in Nat
    BY DEF RangesOrdered, WalkStands
<1>2. /\ next.left = w.left \ {<<i, FALSE>>} /\ next.active = w.active + 1
      /\ next.maxActive = IF w.maxActive <= w.active + 1 THEN w.active + 1 ELSE w.maxActive
      /\ next.maxActiveTime = IF next.maxActive = next.active THEN now ELSE w.maxActiveTime
    BY <1>1, MaxOfTwo
<1>3. /\ InOrder(stats, next.left)
      /\ \A d \in Events(stats) \ next.left : TimeOf(stats, d) <= now
      /\ \A f \in next.left : now <= TimeOf(stats, f)
  <2>1. InOrder(stats, w.left)
      BY DEF WalkStands
  <2>2. /\ InOrder(stats, w.left \ {<<i, FALSE>>})
        /\ \A d \in Events(stats) \ w.left : TimeOf(stats, d) <= now
      BY <1>1, <2>1, InOrderStep
  <2> QED BY <1>1, <1>2, <2>2
<1>4. begun = Begun(stats, w.left) \cup {i} /\ i \notin Begun(stats, w.left)
      /\ over = Over(stats, w.left)
    BY <1>2 DEF Begun, Over
<1>5. begun \subseteq 1..n /\ over \subseteq 1..n /\ Begun(stats, w.left) = begun \ {i}
    BY <1>4 DEF Begun, Over
<1>6. \A j \in 1..n : /\ j \in begun => TimeOf(stats, <<j, FALSE>>) <= now
                      /\ j \in over => TimeOf(stats, <<j, TRUE>>) <= now
                      /\ j \notin over => now <= TimeOf(stats, <<j, TRUE>>)
    BY <1>3 DEF Begun, Over, Events
<1>7. \A j \in 1..n : TimeOf(stats, <<j, FALSE>>) \in Nat /\ TimeOf(stats, <<j, TRUE>>) \in Nat
    BY DEF RangesOrdered
<1> HIDE DEF n, now, begun, over
<1>8. Cardinality(begun) \in 0..n /\ Cardinality(over) \in 0..n
      /\ Cardinality(Begun(stats, w.left)) = Cardinality(begun) - 1
  <2>1. i \in begun
      BY <1>4
  <2> QED BY <1>1, <1>5, <2>1, Sizes
<1>9. next.active = Cardinality(begun) - Cardinality(over)
  <2>1. w.active = Cardinality(Begun(stats, w.left)) - Cardinality(over)
      BY <1>4 DEF WalkStands, over
  <2> QED BY <1>1, <1>2, <1>8, <2>1
<1>10. next.active <= next.maxActive /\ w.maxActive <= next.maxActive /\ next.maxActive \in 0..n
    BY <1>1, <1>2, <1>8, <1>9
<1>11. ASSUME NEW t \in Nat, BeginsBy(stats, t) \subseteq begun
       PROVE Cardinality(Sounding(stats, t)) <= next.maxActive
  <2>1. Cardinality(Sounding(stats, t)) \in 0..n
    <3>1. Sounding(stats, t) \subseteq 1..n
        BY DEF Sounding, n
    <3> QED BY <1>1, <3>1, Sizes
  <2>2. CASE BeginsBy(stats, t) \subseteq Begun(stats, w.left)
    <3>1. Cardinality(Sounding(stats, t)) <= w.maxActive
        BY <2>2 DEF WalkStands
    <3> QED BY <1>1, <1>10, <2>1, <3>1
  <2>3. CASE ~(BeginsBy(stats, t) \subseteq Begun(stats, w.left))
    <3>1. now <= t
        BY <1>4, <1>11, <2>3 DEF BeginsBy, now
    <3>2. over \subseteq IsOverBy(stats, t)
      <4> SUFFICES ASSUME NEW j \in over PROVE j \in IsOverBy(stats, t)
          OBVIOUS
      <4>1. j \in 1..n /\ TimeOf(stats, <<j, TRUE>>) <= now
          BY <1>5, <1>6
      <4> DEFINE end == TimeOf(stats, <<j, TRUE>>)
      <4>2. end \in Nat /\ end <= now /\ now <= t /\ now \in Nat
          BY <1>1, <1>7, <3>1, <4>1
      <4> HIDE DEF end
      <4>3. end <= t
          BY <4>2
      <4> QED BY <4>1, <4>3 DEF IsOverBy, n, end
    <3>3. IsOverBy(stats, t) \subseteq 1..n /\ BeginsBy(stats, t) \subseteq 1..n
        BY DEF IsOverBy, BeginsBy, n
    <3>4. /\ Cardinality(over) <= Cardinality(IsOverBy(stats, t))
          /\ Cardinality(BeginsBy(stats, t)) <= Cardinality(begun)
          /\ Cardinality(IsOverBy(stats, t)) \in 0..n /\ Cardinality(BeginsBy(stats, t)) \in 0..n
        BY <1>1, <1>5, <1>11, <3>2, <3>3, Sizes
    <3>5. Cardinality(Sounding(stats, t))
              = Cardinality(BeginsBy(stats, t)) - Cardinality(IsOverBy(stats, t))
        BY SoundingCount
    <3> QED BY <1>8, <1>9, <1>10, <3>4, <3>5
  <2> QED BY <2>2, <2>3
<1>12. next.maxActive <= Cardinality(Touching(stats, next.maxActiveTime))
  <2>1. CASE next.maxActive = next.active
    <3>1. begun \subseteq BeginsBy(stats, now)
        BY <1>5, <1>6 DEF BeginsBy, n
    <3>2. BeginsBy(stats, now) \ Touching(stats, now) \subseteq over
      <4> SUFFICES ASSUME NEW j \in BeginsBy(stats, now), j \notin Touching(stats, now)
                   PROVE j \in over
          OBVIOUS
      <4>1. j \in 1..n /\ ~(now <= TimeOf(stats, <<j, TRUE>>))
          BY DEF BeginsBy, Touching, n
      <4> QED BY <1>6, <4>1
    <3>3. Cardinality(begun) - Cardinality(over) <= Cardinality(Touching(stats, now))
        BY <1>1, <1>5, <3>1, <3>2, SoundingCount DEF n
    <3> QED BY <1>2, <1>9, <2>1, <3>3
  <2>2. CASE next.maxActive # next.active
    <3>1. next.maxActive = w.maxActive /\ next.maxActiveTime = w.maxActiveTime
        BY <1>2, <2>2
    <3> QED BY <3>1 DEF WalkStands
  <2> QED BY <2>1, <2>2
<1>13. next \in [left : SUBSET Events(stats), active : Int,
                 maxActive : 0..n, maxActiveTime : Nat]
  <2>1. next.left \subseteq Events(stats)
      BY <1>1, <1>2
  <2>4. next.active \in Int
      BY <1>1, <1>2
  <2>2. next.maxActiveTime \in Nat
      BY <1>1, <1>2
  <2>3. next = [left |-> next.left, active |-> next.active,
                maxActive |-> next.maxActive, maxActiveTime |-> next.maxActiveTime]
      OBVIOUS
  <2> QED BY <1>10, <2>1, <2>2, <2>3, <2>4
<1> QED BY <1>3, <1>9, <1>11, <1>12, <1>13 DEF WalkStands, n, begun, over
-----------------------------------------------------------------------------
(***************************************************************************)
(* What an analysis keeps.                                                 *)
(***************************************************************************)
\* Those of the partials found that are to be kept.
KeptOf(found, hiCut) ==
    {i \in DOMAIN found : /\ Len(found[i]["time"]) > 1
                          /\ \A f \in Range(found[i]["freq"]) : f <= hiCut}

\* cutHighs() empties partials that have a frequency above the cut.
LEMMA CutHighsKeeps ==
    ASSUME NEW found \in Seq(Partial \ {EmptyPartial}), NEW hiCut \in Nat
    PROVE /\ CutHighs(found, hiCut) \in Seq(Partial)
          /\ Len(CutHighs(found, hiCut)) = Len(found)
          /\ \A i \in 1..Len(found) :
                 IF \A f \in Range(found[i]["freq"]) : f <= hiCut
                 THEN CutHighs(found, hiCut)[i] = found[i]
                 ELSE CutHighs(found, hiCut)[i] = EmptyPartial
<1> DEFINE cut == CutHighs(found, hiCut)
           most(i) == Max(Range(found[i]["freq"]))
<1>1. Len(found) \in Nat /\ DOMAIN found = 1..Len(found)
    OBVIOUS
<1>2. cut = [i \in 1..Len(found) |-> IF most(i) > hiCut THEN EmptyPartial ELSE found[i]]
    BY <1>1 DEF CutHighs
<1>3. ASSUME NEW i \in 1..Len(found)
      PROVE /\ found[i] \in Partial
            /\ ~(most(i) > hiCut) <=> \A f \in Range(found[i]["freq"]) : f <= hiCut
  <2>1. found[i] \in Partial /\ found[i] # EmptyPartial /\ "freq" \in Parts
      BY <1>1, PartialType
  <2>2. found[i]["freq"] \in Seq(0..Huge) /\ found[i]["freq"] # <<>>
      BY <2>1, PartialType, NoBreakpoints
  <2> DEFINE freqs == Range(found[i]["freq"])
  <2>3. freqs \subseteq 0..Huge /\ freqs # {}
      BY <2>2, RangeOf
  <2> HIDE DEF freqs
  <2>4. Max(freqs) \in freqs /\ \A f \in freqs : f <= Max(freqs)
      BY <2>3, MinMax, PartialsAssumption
  <2>5. \A f \in freqs : f \in Int
      BY <2>3
  <2>6. ~(Max(freqs) > hiCut) <=> \A f \in freqs : f <= hiCut
      BY <2>4, <2>5
  <2> QED BY <2>1, <2>6 DEF freqs
<1> HIDE DEF cut, most
<1>4. \A i \in 1..Len(found) : cut[i] = IF most(i) > hiCut THEN EmptyPartial ELSE found[i]
    BY <1>2
<1>5. \A i \in 1..Len(found) : cut[i] \in Partial
    BY <1>3, <1>4, PartialType
<1>6. cut \in Seq(Partial) /\ Len(cut) = Len(found)
    BY <1>1, <1>2, <1>5
<1> QED BY <1>3, <1>4, <1>6 DEF cut

\* analyzeSample() keeps the partials to be kept, in their order.
LEMMA CleanedKeeps ==
    ASSUME NEW found \in Seq(Partial \ {EmptyPartial}), NEW hiCut \in Nat
    PROVE /\ Cleaned(found, hiCut) \in Seq(Partial)
          /\ \E place \in [1..Len(Cleaned(found, hiCut)) -> KeptOf(found, hiCut)] :
                 /\ Increasing(place)
                 /\ Range(place) = KeptOf(found, hiCut)
                 /\ \A k \in 1..Len(Cleaned(found, hiCut)) :
                        Cleaned(found, hiCut)[k] = found[place[k]]
<1> DEFINE cut == CutHighs(found, hiCut)
           clean == Cleaned(found, hiCut)
<1>1. /\ cut \in Seq(Partial) /\ Len(cut) = Len(found)
      /\ \A i \in 1..Len(found) :
             IF \A f \in Range(found[i]["freq"]) : f <= hiCut
             THEN cut[i] = found[i]
             ELSE cut[i] = EmptyPartial
    BY CutHighsKeeps
<1>2. Compacted(CleanOutliers(cut), cut, Len(cut))
    BY <1>1, CleanOutliersKeeps
<1>3. Compacted(clean, cut, Len(cut))
    BY <1>2 DEF Cleaned
<1> HIDE DEF cut, clean
<1>4. Len(EmptyPartial["time"]) = 0
    BY PartialType DEF EmptyPartial
<1>5. SeveralUpTo(cut, Len(cut)) = KeptOf(found, hiCut)
  <2>1. DOMAIN found = 1..Len(cut)
      BY <1>1
  <2>2. ASSUME NEW i \in 1..Len(cut)
        PROVE Len(cut[i]["time"]) > 1 <=> /\ Len(found[i]["time"]) > 1
                                          /\ \A f \in Range(found[i]["freq"]) : f <= hiCut
      BY <1>1, <1>4
  <2> QED BY <2>1, <2>2 DEF SeveralUpTo, KeptOf
<1>6. \A i \in KeptOf(found, hiCut) : cut[i] = found[i]
    BY <1>1 DEF KeptOf
<1>7. clean \in Seq(Partial)
    BY <1>3 DEF Compacted
<1>8. PICK place \in [1..Len(clean) -> KeptOf(found, hiCut)] :
          /\ Increasing(place)
          /\ Range(place) = KeptOf(found, hiCut)
          /\ \A k \in 1..Len(clean) : clean[k] = cut[place[k]]
    BY <1>3, <1>5 DEF Compacted
<1>9. \A k \in 1..Len(clean) : clean[k] = found[place[k]]
    BY <1>6, <1>8
<1> QED BY <1>7, <1>8, <1>9 DEF clean
-----------------------------------------------------------------------------
(***************************************************************************)
(* The invariant: types, and statistics that are those of the partials.    *)
(***************************************************************************)
\* calcStats() has run, up to the walk, on these partials.
StatsOf(stats, partials) ==
    /\ stats.nPartials = Len(partials)
    /\ stats.partialTimeRanges = [i \in 1..Len(partials) |-> Extrema(partials[i]["time"])]
    /\ partials # <<>> =>
           stats.range = [part \in Parts \ {"phase"} |-> ParamRange(partials, part)]

\* What the walk has counted, all in all.
CountedAll(stats) ==
    /\ \A t \in Nat : Cardinality(Sounding(stats, t)) <= stats.maxActive
    /\ stats.maxActive <= Cardinality(Touching(stats, stats.maxActiveTime))

Counted(stats, w) == IF w = None THEN CountedAll(stats) ELSE WalkStands(stats, w)

StatsInvariant ==
    /\ TypeOK
    /\ StatsOf(data.stats, data.partials)
    /\ Counted(data.stats, walk)

\* The types of the fields of data and of its statistics.
LEMMA DataFields ==
    /\ \A d \in Data : /\ d.partials \in Seq(Partial) /\ d.type \in {NoName, "VutuPartials"}
                       /\ d.sourceFile \in SourceFiles \cup {NoName}
                       /\ d.sourceDuration \in 0..Huge /\ d.hiCut \in Nat
                       /\ d.fundamental \in Nat /\ d.found \in Seq(FoundPartials)
                       /\ d.stats \in Stats
    /\ \A stats \in Stats : /\ stats.range \in [Parts \ {"phase"} -> (0..Huge) \X (0..Huge)]
                            /\ stats.nPartials \in Nat
                            /\ stats.partialTimeRanges \in Seq((0..Huge) \X (0..Huge))
                            /\ stats.maxActive \in Nat /\ stats.maxActiveTime \in 0..Huge
    BY DEF Data, Stats

\* Statistics of partials have ordered ranges.
LEMMA StatsAreOrdered ==
    ASSUME NEW partials \in Seq(Partial), NEW stats, StatsOf(stats, partials)
    PROVE /\ RangesOrdered(stats)
          /\ \A i \in 1..stats.nPartials : /\ TimeOf(stats, <<i, FALSE>>) \in 0..Huge
                                           /\ TimeOf(stats, <<i, TRUE>>) \in 0..Huge
<1>1. ASSUME NEW i \in 1..stats.nPartials
      PROVE /\ TimeOf(stats, <<i, FALSE>>) \in 0..Huge
            /\ TimeOf(stats, <<i, TRUE>>) \in 0..Huge
            /\ TimeOf(stats, <<i, FALSE>>) <= TimeOf(stats, <<i, TRUE>>)
  <2>1. i \in 1..Len(partials) /\ stats.partialTimeRanges[i] = Extrema(partials[i]["time"])
      BY DEF StatsOf
  <2>2. partials[i]["time"] \in Seq(0..Huge)
      BY <2>1, PartialType
  <2>3. /\ Extrema(partials[i]["time"]) \in (0..Huge) \X (0..Huge)
        /\ Extrema(partials[i]["time"])[1] <= Extrema(partials[i]["time"])[2]
      BY <2>2, ExtremaType
  <2> QED BY <2>1, <2>3 DEF TimeOf
<1>2. stats.nPartials \in Nat
    BY DEF StatsOf
<1>3. 0..Huge \subseteq Nat
    OBVIOUS
<1>4. RangesOrdered(stats)
    BY <1>1, <1>2, <1>3 DEF RangesOrdered
<1> QED BY <1>1, <1>4

\* A walk is never mistaken for none.
LEMMA WalksAreSome == \A w : "left" \in DOMAIN w => w # None
    BY DEF None

\* It holds to begin with.
LEMMA StatsInit == Init => StatsInvariant
<1> SUFFICES ASSUME Init PROVE StatsInvariant
    OBVIOUS
<1> DEFINE zeros == [part \in Parts \ {"phase"} |-> <<0, 0>>]
<1>1. /\ data.partials = <<>> /\ data.type = NoName /\ data.sourceFile = NoName /\ data.sourceDuration = 0
      /\ data.hiCut = 0 /\ data.fundamental = 0 /\ data.found = <<>>
      /\ data = [partials |-> <<>>, type |-> NoName, sourceFile |-> NoName, sourceDuration |-> 0,
                 hiCut |-> 0, fundamental |-> 0, found |-> <<>>, stats |-> data.stats]
    BY DEF Init, NoPartials
<1>2. /\ data.stats = [StatsBeforeWalk(<<>>) EXCEPT !.range = [part \in DOMAIN @ |-> <<0, 0>>]]
    BY DEF Init, NoPartials
<1>3. /\ StatsBeforeWalk(<<>>) \in Stats
      /\ StatsBeforeWalk(<<>>).nPartials = 0
      /\ StatsBeforeWalk(<<>>).maxActive = 0
      /\ StatsBeforeWalk(<<>>).partialTimeRanges = [i \in 1..0 |-> Extrema(<<>>[i]["time"])]
  <2>1. <<>> \in Seq(Partial) /\ Len(<<>>) = 0
      OBVIOUS
  <2> QED BY <2>1, StatsType
<1>4. DOMAIN StatsBeforeWalk(<<>>).range = Parts \ {"phase"}
    BY <1>3, DataFields
<1>5. /\ data.stats.range = zeros
      /\ data.stats.nPartials = 0 /\ data.stats.maxActive = 0
      /\ data.stats.partialTimeRanges = [i \in 1..0 |-> Extrema(<<>>[i]["time"])]
      /\ data.stats \in Stats
  <2>1. zeros \in [Parts \ {"phase"} -> (0..Huge) \X (0..Huge)]
      BY PartialsAssumption
  <2> HIDE DEF zeros
  <2>2. data.stats = [StatsBeforeWalk(<<>>) EXCEPT !.range = zeros]
      BY <1>2, <1>4 DEF zeros
  <2> QED BY <1>3, <2>1, <2>2 DEF Stats
<1>6. data \in Data
  <2>1. /\ <<>> \in Seq(Partial) /\ <<>> \in Seq(FoundPartials)
        /\ NoName \in {NoName, "VutuPartials"} /\ NoName \in SourceFiles \cup {NoName}
        /\ 0 \in 0..Huge /\ 0 \in Nat
      BY PartialsAssumption
  <2> QED BY <1>1, <1>5, <2>1 DEF Data
<1>7. TypeOK
  <2>1. /\ DOMAIN files = Formats
        /\ files["utu"] \in File \cup {None} /\ files["ut2"] \in Tree \cup {None}
    <3>1. OtherFiles \subseteq File /\ OtherTrees \subseteq Tree
        BY PartialsAssumption
    <3>2. CASE \E file \in OtherFiles : files = [utu |-> file, ut2 |-> None]
        BY <3>1, <3>2 DEF Formats
    <3>3. CASE \E tree \in OtherTrees : files = [utu |-> None, ut2 |-> tree]
        BY <3>1, <3>3 DEF Formats
    <3> QED BY <3>2, <3>3 DEF Init
  <2>2. written \in [Formats -> Data \cup {None}]
      BY DEF Init
  <2>3. walk = None /\ loaded = "none" /\ ops \in 0..MaxOps
      BY PartialsAssumption DEF Init
  <2> QED BY <1>6, <2>1, <2>2, <2>3 DEF TypeOK
<1>8. StatsOf(data.stats, data.partials)
    BY <1>1, <1>5 DEF StatsOf
<1>9. Counted(data.stats, walk)
  <2>1. \A t : Sounding(data.stats, t) = {} /\ Touching(data.stats, t) = {}
      BY <1>5 DEF Sounding, Touching
  <2>2. CountedAll(data.stats)
    <3>1. Cardinality({}) = 0
        BY FS_EmptySet
    <3>2. \A t : Cardinality(Sounding(data.stats, t)) = 0 /\ Cardinality(Touching(data.stats, t)) = 0
        BY <2>1, <3>1
    <3> QED BY <1>5, <3>2 DEF CountedAll
  <2> QED BY <2>2 DEF Init, Counted
<1> QED BY <1>7, <1>8, <1>9 DEF StatsInvariant

\* The type of a walk.
Walk(stats) == [left : SUBSET Events(stats), active : Int,
                maxActive : 0..stats.nPartials, maxActiveTime : 0..Huge]

\* calcStats() begins with statistics that count nothing yet.
LEMMA FreshStats ==
    ASSUME NEW partials \in Seq(Partial), NEW stats, stats = StatsBeforeWalk(partials)
    PROVE /\ stats \in Stats /\ StatsOf(stats, partials)
          /\ WalkFrom(stats) \in Walk(stats) /\ Counted(stats, WalkFrom(stats))
<1>1. stats \in Stats /\ StatsOf(stats, partials)
    BY StatsType DEF StatsOf
<1>2. WalkStands(stats, WalkFrom(stats))
    BY <1>1, StatsAreOrdered, WalkFromStands
<1>3. stats.nPartials \in Nat
    BY <1>1, DataFields
<1>4. WalkFrom(stats) \in Walk(stats)
    BY <1>3, PartialsAssumption DEF WalkFrom, Walk
<1>5. WalkFrom(stats) # None
    BY WalksAreSome DEF WalkFrom
<1> QED BY <1>1, <1>2, <1>4, <1>5 DEF Counted

\* What an analysis may find is a sequence of partials with breakpoints.
LEMMA FoundType ==
    ASSUME NEW n \in Nat, NEW found \in [1..n -> FoundPartials]
    PROVE found \in Seq(FoundPartials) /\ found \in Seq(Partial \ {EmptyPartial})
<1>1. FoundPartials \subseteq Partial \ {EmptyPartial}
    BY PartialsAssumption
<1>2. found \in [1..n -> Partial \ {EmptyPartial}]
    BY <1>1
<1> QED BY <1>2

\* What a file of each format can be.
FileOf(format) == IF format = "utu" THEN File ELSE Tree

\* A partial read from a file is one, with the times that are stored.
LEMMA PartialRead ==
    ASSUME NEW q \in Stored
    PROVE /\ PartialFromJSON(q) \in Partial /\ PartialFromJSON(q)["time"] = q.time
          /\ PartialFromBinary(q) = PartialFromJSON(q)
<1> DEFINE partial == PartialFromJSON(q)
<1>1. /\ q.time \in Seq(0..Huge) /\ q.amp \in Seq(0..Huge) /\ q.freq \in Seq(0..Huge)
      /\ q.bw \in Seq(0..Huge) /\ q.phase \in Seq(0..Huge)
      /\ Len(q.amp) = Len(q.time) /\ Len(q.freq) = Len(q.time)
      /\ Len(q.bw) = Len(q.time) /\ Len(q.phase) = Len(q.time)
      /\ DOMAIN q = {"time", "amp", "freq", "bw", "phase"}
    BY DEF Stored
<1>2. partial = [part \in Parts |-> Lookup(q, IF part = "bandwidth" THEN "bw" ELSE part, <<>>)]
    BY DEF PartialFromJSON
<1>3. /\ partial["time"] = q.time /\ partial["amp"] = q.amp /\ partial["freq"] = q.freq
      /\ partial["bandwidth"] = q.bw /\ partial["phase"] = q.phase
    BY <1>1, <1>2 DEF Parts, Lookup
<1> HIDE DEF partial
<1>4. \A part \in Parts : partial[part] \in Seq(0..Huge) /\ Len(partial[part]) = Len(partial["time"])
    BY <1>1, <1>3 DEF Parts
<1>5. partial \in [Parts -> Seq(0..Huge)]
    BY <1>2, <1>4
<1>6. partial \in Partial
    BY <1>4, <1>5 DEF Partial
<1> QED BY <1>3, <1>6 DEF partial, PartialFromBinary, PartialFromJSON

\* A partial that is stored is found again under the keys it is stored by.
LEMMA PartialKept ==
    ASSUME NEW p \in Partial
    PROVE /\ PartialToJSON(p) \in Stored /\ PartialToBinary(p) = PartialToJSON(p)
          /\ PartialFromJSON(PartialToJSON(p)) = p /\ PartialToJSON(p).time = p["time"]
<1>1. p \in [Parts -> Seq(0..Huge)] /\ \A part \in Parts : Len(p[part]) = Len(p["time"])
    BY PartialType
<1> DEFINE q == PartialToJSON(p)
<1>2. /\ q.time = p["time"] /\ q.amp = p["amp"] /\ q.freq = p["freq"]
      /\ q.bw = p["bandwidth"] /\ q.phase = p["phase"]
      /\ DOMAIN q = {"time", "amp", "freq", "bw", "phase"}
    BY DEF PartialToJSON
<1>3. q \in Stored
  <2>1. /\ p["time"] \in Seq(0..Huge) /\ p["amp"] \in Seq(0..Huge) /\ p["freq"] \in Seq(0..Huge)
        /\ p["bandwidth"] \in Seq(0..Huge) /\ p["phase"] \in Seq(0..Huge)
      BY <1>1 DEF Parts
  <2>2. /\ Len(p["amp"]) = Len(p["time"]) /\ Len(p["freq"]) = Len(p["time"])
        /\ Len(p["bandwidth"]) = Len(p["time"]) /\ Len(p["phase"]) = Len(p["time"])
      BY <1>1 DEF Parts
  <2> QED BY <2>1, <2>2 DEF PartialToJSON, Stored
<1> HIDE DEF q
<1>4. \A part \in Parts :
          Lookup(q, IF part = "bandwidth" THEN "bw" ELSE part, <<>>) = p[part]
    BY <1>2 DEF Parts, Lookup
<1>5. PartialFromJSON(q) = p
    BY <1>1, <1>4 DEF PartialFromJSON
<1> QED BY <1>2, <1>3, <1>5 DEF q, PartialToBinary, PartialToJSON

\* What the keys of a file hold.
LEMMA FileFields ==
    ASSUME NEW file \in File \cup Tree
    PROVE /\ file.source \in SourceFiles \cup {NoName} /\ file.hi_cut \in Nat
          /\ file.fundamental \in Nat /\ file.p \in Seq(Stored)
          /\ file \in Tree => file.n_partials = Len(file.p)
<1>1. CASE file \in Tree
    BY <1>1 DEF Tree
<1>2. CASE file \notin Tree
  <2>1. file \in File
      BY <1>2
  <2>2. /\ file.source \in SourceFiles \cup {NoName} /\ file.hi_cut \in Nat
        /\ file.fundamental \in Nat /\ file.p \in Seq(Stored)
      BY <2>1 DEF File
  <2> QED BY <1>2, <2>2
<1> QED BY <1>1, <1>2

\* What is found under a key.
LEMMA LookupsFind ==
    ASSUME NEW file \in File \cup Tree
    PROVE /\ Lookup(file, "source", NoName) = file.source
          /\ Lookup(file, "hi_cut", 0) = file.hi_cut
          /\ Lookup(file, "fundamental", 0) = file.fundamental
          /\ Lookup(file, "source_duration", 0) \in 0..Huge
<1>1. 0 \in 0..Huge
    BY PartialsAssumption
<1>2. CASE file \in File
    BY <1>1, <1>2 DEF File, Lookup
<1>3. CASE file \in Tree
    BY <1>1, <1>3 DEF Tree, Lookup
<1> QED BY <1>2, <1>3

\* Data are data, whatever they are read from.
LEMMA DataMade ==
    ASSUME NEW partials \in Seq(Partial), NEW type \in {NoName, "VutuPartials"},
           NEW sourceFile \in SourceFiles \cup {NoName}, NEW sourceDuration \in 0..Huge,
           NEW hiCut \in Nat, NEW fundamental \in Nat, NEW d,
           d = [partials |-> partials, type |-> type, sourceFile |-> sourceFile,
                sourceDuration |-> sourceDuration, hiCut |-> hiCut,
                fundamental |-> fundamental, found |-> <<>>,
                stats |-> StatsBeforeWalk(partials)]
    PROVE /\ d \in Data /\ d.stats = StatsBeforeWalk(d.partials) /\ d.found = <<>>
          /\ d.partials = partials
<1>1. StatsBeforeWalk(partials) \in Stats
    BY StatsType
<1>2. <<>> \in Seq(FoundPartials)
    OBVIOUS
<1>3. d \in Data
    BY <1>1, <1>2 DEF Data
<1> QED BY <1>3

\* What is read from a file is data, with one partial for each that is stored
\* and statistics up to the walk.
LEMMA ReadMakes ==
    ASSUME NEW format \in Formats, NEW file \in FileOf(format), NEW d, d = ReadFrom(format, file)
    PROVE /\ d \in Data /\ d.stats = StatsBeforeWalk(d.partials) /\ d.found = <<>>
          /\ Len(d.partials) = Len(file.p)
          /\ \A i \in DOMAIN d.partials : d.partials[i]["time"] = file.p[i].time
<1>1. /\ file \in File \cup Tree
      /\ format # "utu" => file \in Tree
    BY DEF FileOf
<1>2. /\ file.p \in Seq(Stored)
      /\ format # "utu" => file.n_partials = Len(file.p)
    BY <1>1, FileFields
<1>3. /\ Len(file.p) \in Nat /\ DOMAIN file.p = 1..Len(file.p)
      /\ \A i \in 1..Len(file.p) : file.p[i] \in Stored
    BY <1>2
<1> DEFINE source == Lookup(file, "source", NoName)
           duration == Lookup(file, "source_duration", 0)
           hiCut == Lookup(file, "hi_cut", 0)
           fundamental == Lookup(file, "fundamental", 0)
<1>4. /\ source \in SourceFiles \cup {NoName} /\ duration \in 0..Huge
      /\ hiCut \in Nat /\ fundamental \in Nat
  <2>1. file.source \in SourceFiles \cup {NoName} /\ file.hi_cut \in Nat /\ file.fundamental \in Nat
      BY <1>1, FileFields
  <2> QED BY <1>1, <2>1, LookupsFind, Zenon
<1>5. /\ NoName \in {NoName, "VutuPartials"} /\ "VutuPartials" \in {NoName, "VutuPartials"}
      /\ NoName \in SourceFiles \cup {NoName} /\ 0 \in 0..Huge /\ 0 \in Nat
    BY PartialsAssumption
<1> DEFINE partials == [i \in 1..Len(file.p) |-> PartialFromJSON(file.p[i])]
<1>6. /\ partials \in Seq(Partial) /\ Len(partials) = Len(file.p)
      /\ \A i \in DOMAIN partials : partials[i]["time"] = file.p[i].time
  <2>1. \A i \in 1..Len(file.p) : PartialFromJSON(file.p[i]) \in Partial
                                  /\ PartialFromJSON(file.p[i])["time"] = file.p[i].time
      BY <1>3, PartialRead
  <2> DEFINE n == Len(file.p)
             F(i) == PartialFromJSON(file.p[i])
             T(i) == file.p[i].time
  <2>2. n \in Nat /\ \A i \in 1..n : F(i) \in Partial /\ F(i)["time"] = T(i)
      BY <1>3, <2>1
  <2> HIDE DEF n, F, T
  <2>3. /\ [i \in 1..n |-> F(i)] \in Seq(Partial) /\ Len([i \in 1..n |-> F(i)]) = n
        /\ \A i \in DOMAIN [i \in 1..n |-> F(i)] : [k \in 1..n |-> F(k)][i]["time"] = T(i)
      BY <2>2
  <2> QED BY <2>3 DEF n, F, T
<1>7. CASE format = "utu"
  <2>1. DOMAIN file.p = 1..Len(file.p)
      BY <1>3
  <2>2. d = [partials |-> partials, type |-> "VutuPartials",
             sourceFile |-> source,
             sourceDuration |-> duration,
             hiCut |-> hiCut,
             fundamental |-> fundamental,
             found |-> <<>>, stats |-> StatsBeforeWalk(partials)]
      BY <1>7, <2>1, Zenon DEF ReadFrom, FromJSON
  <2> HIDE DEF partials, source, duration, hiCut, fundamental
  <2>3. /\ d \in Data /\ d.stats = StatsBeforeWalk(d.partials) /\ d.found = <<>>
        /\ d.partials = partials
      BY <1>4, <1>5, <1>6, <2>2, DataMade
  <2> QED BY <1>6, <2>3
<1>8. CASE format # "utu" /\ Len(file.p) = 0
  <2>1. file.n_partials = 0
      BY <1>2, <1>8
  <2>2. d = [NoPartials EXCEPT !.stats = StatsBeforeWalk(<<>>)]
      BY <1>8, <2>1 DEF ReadFrom, FromBinary
  <2>3. d = [partials |-> <<>>, type |-> NoName, sourceFile |-> NoName, sourceDuration |-> 0,
             hiCut |-> 0, fundamental |-> 0, found |-> <<>>, stats |-> StatsBeforeWalk(<<>>)]
      BY <2>2 DEF NoPartials
  <2>4. <<>> \in Seq(Partial) /\ Len(<<>>) = 0 /\ DOMAIN <<>> = {}
      OBVIOUS
  <2>5. /\ d \in Data /\ d.stats = StatsBeforeWalk(d.partials) /\ d.found = <<>>
        /\ d.partials = <<>>
    <3> DEFINE none == <<>>
    <3>1. /\ none \in Seq(Partial)
          /\ d = [partials |-> none, type |-> NoName, sourceFile |-> NoName,
                  sourceDuration |-> 0, hiCut |-> 0, fundamental |-> 0, found |-> <<>>,
                  stats |-> StatsBeforeWalk(none)]
        BY <2>3, <2>4
    <3> HIDE DEF none
    <3>2. /\ d \in Data /\ d.stats = StatsBeforeWalk(d.partials) /\ d.found = <<>>
          /\ d.partials = none
        BY <1>5, <3>1, DataMade
    <3> QED BY <3>2 DEF none
  <2> QED BY <1>8, <2>4, <2>5
<1>9. CASE format # "utu" /\ Len(file.p) # 0
  <2>1. file.n_partials = Len(file.p) /\ file.n_partials # 0
      BY <1>2, <1>9
  <2>2. [i \in 1..file.n_partials |-> PartialFromBinary(file.p[i])] = partials
    <3>1. \A i \in 1..Len(file.p) : PartialFromBinary(file.p[i]) = PartialFromJSON(file.p[i])
        BY <1>3, PartialRead
    <3> QED BY <2>1, <3>1
  <2> HIDE DEF partials, source, duration, hiCut, fundamental
  <2>3. d = [partials |-> partials, type |-> NoName, sourceFile |-> NoName,
             sourceDuration |-> duration,
             hiCut |-> hiCut,
             fundamental |-> fundamental,
             found |-> <<>>, stats |-> StatsBeforeWalk(partials)]
    <3>1. d = FromBinary(file)
        BY <1>9 DEF ReadFrom
    <3> QED BY <2>1, <2>2, <3>1, Zenon DEF FromBinary, duration, hiCut, fundamental
  <2>4. /\ d \in Data /\ d.stats = StatsBeforeWalk(d.partials) /\ d.found = <<>>
        /\ d.partials = partials
      BY <1>4, <1>5, <1>6, <2>3, DataMade
  <2> QED BY <1>6, <2>4
<1> QED BY <1>7, <1>8, <1>9

\* What is stored is a file of its format, with the times of the partials.
LEMMA StoredType ==
    ASSUME NEW format \in Formats, NEW d \in Data
    PROVE /\ StoredAs(format, d) \in FileOf(format)
          /\ StoredAs(format, d).p = [i \in DOMAIN d.partials |-> PartialToJSON(d.partials[i])]
          /\ "source_duration" \notin DOMAIN StoredAs(format, d)
          /\ StoredAs(format, d).source = d.sourceFile /\ StoredAs(format, d).hi_cut = d.hiCut
          /\ StoredAs(format, d).fundamental = d.fundamental
<1> DEFINE p == [i \in DOMAIN d.partials |-> PartialToJSON(d.partials[i])]
<1>1. /\ d.partials \in Seq(Partial) /\ d.sourceFile \in SourceFiles \cup {NoName}
      /\ d.hiCut \in Nat /\ d.fundamental \in Nat
    BY DataFields
<1>2. /\ DOMAIN d.partials = 1..Len(d.partials) /\ Len(d.partials) \in Nat
      /\ \A i \in 1..Len(d.partials) : d.partials[i] \in Partial
    BY <1>1
<1>3. p \in Seq(Stored) /\ Len(p) = Len(d.partials)
  <2>1. \A i \in 1..Len(d.partials) : PartialToJSON(d.partials[i]) \in Stored
      BY <1>2, PartialKept
  <2> QED BY <1>2, <2>1
<1>4. CASE format = "utu"
  <2>1. StoredAs(format, d) = [source |-> d.sourceFile, hi_cut |-> d.hiCut,
                               fundamental |-> d.fundamental, p |-> p]
      BY <1>4 DEF StoredAs, StoredAsJSON
  <2> HIDE DEF p
  <2>2. StoredAs(format, d) \in FileOf(format)
      BY <1>1, <1>3, <1>4, <2>1 DEF File, FileOf
  <2> QED BY <2>1, <2>2 DEF p
<1>5. CASE format # "utu"
  <2>1. [i \in DOMAIN d.partials |-> PartialToBinary(d.partials[i])] = p
      BY <1>2, PartialKept
  <2> HIDE DEF p
  <2>2. StoredAs(format, d) = [source |-> d.sourceFile, hi_cut |-> d.hiCut,
                               fundamental |-> d.fundamental,
                               n_partials |-> Len(d.partials), p |-> p]
      BY <1>5, <2>1 DEF StoredAs, StoredAsBinary
  <2>3. StoredAs(format, d) \in FileOf(format)
      BY <1>1, <1>2, <1>3, <1>5, <2>2 DEF Tree, FileOf
  <2> QED BY <2>2, <2>3 DEF p
<1> QED BY <1>4, <1>5

\* What is stored and read again is the same, but for the duration.
LEMMA StoredKept ==
    ASSUME NEW format \in Formats, NEW d \in Data, d.partials # <<>>,
           NEW r, r = ReadFrom(format, StoredAs(format, d))
    PROVE /\ r.partials = d.partials /\ r.hiCut = d.hiCut /\ r.fundamental = d.fundamental
          /\ r.sourceDuration = 0
          /\ format = "utu" => r.sourceFile = d.sourceFile
<1> DEFINE file == StoredAs(format, d)
<1>1. /\ file \in FileOf(format)
      /\ file.p = [i \in DOMAIN d.partials |-> PartialToJSON(d.partials[i])]
      /\ "source_duration" \notin DOMAIN file
      /\ file.source = d.sourceFile /\ file.hi_cut = d.hiCut
      /\ file.fundamental = d.fundamental
    BY StoredType
<1> HIDE DEF file
<1>2. /\ d.partials \in Seq(Partial) /\ DOMAIN d.partials = 1..Len(d.partials)
      /\ Len(d.partials) \in Nat /\ \A i \in 1..Len(d.partials) : d.partials[i] \in Partial
  <2>1. d.partials \in Seq(Partial)
      BY DataFields
  <2> QED BY <2>1
<1>3. /\ DOMAIN file.p = 1..Len(d.partials)
      /\ \A i \in 1..Len(d.partials) : /\ file.p[i] \in Stored
                                        /\ PartialFromJSON(file.p[i]) = d.partials[i]
                                        /\ PartialFromBinary(file.p[i]) = d.partials[i]
    BY <1>1, <1>2, PartialKept, PartialRead
<1>4. Lookup(file, "source_duration", 0) = 0
    BY <1>1 DEF Lookup
<1>5. /\ Lookup(file, "source", NoName) = d.sourceFile /\ Lookup(file, "hi_cut", 0) = d.hiCut
      /\ Lookup(file, "fundamental", 0) = d.fundamental
  <2>1. file \in File \cup Tree
      BY <1>1 DEF FileOf
  <2> QED BY <1>1, <2>1, LookupsFind, Zenon
<1>6. CASE format = "utu"
  <2>1. r = FromJSON(file)
      BY <1>6 DEF ReadFrom, file
  <2>2. [i \in DOMAIN file.p |-> PartialFromJSON(file.p[i])] = d.partials
      BY <1>2, <1>3
  <2> QED BY <1>4, <1>5, <2>1, <2>2 DEF FromJSON
<1>7. CASE format # "utu"
  <2>1. r = FromBinary(file)
      BY <1>7 DEF ReadFrom, file
  <2>2. file.n_partials = Len(d.partials) /\ Len(d.partials) # 0
    <3>1. file.n_partials = Len(d.partials)
        BY <1>7 DEF file, StoredAs, StoredAsBinary
    <3> QED BY <1>2, <3>1
  <2>3. [i \in 1..file.n_partials |-> PartialFromBinary(file.p[i])] = d.partials
      BY <1>2, <1>3, <2>2
  <2> QED BY <1>4, <1>5, <1>7, <2>1, <2>2, <2>3 DEF FromBinary
<1> QED BY <1>6, <1>7

\* An analysis keeps the invariant.
LEMMA StatsAnalyze == StatsInvariant /\ Analyze => StatsInvariant'
<1> SUFFICES ASSUME StatsInvariant, Analyze PROVE StatsInvariant'
    OBVIOUS
<1>1. TypeOK
    BY DEF StatsInvariant
<1>2. PICK n \in 1..MaxPartials :
          \E found \in [1..n -> FoundPartials], name \in SourceFiles, hiCut \in HiCuts :
              /\ Operation(n)
              /\ data' = [partials |-> Cleaned(found, hiCut), type |-> "VutuPartials",
                          sourceFile |-> name, sourceDuration |-> Duration,
                          hiCut |-> hiCut, fundamental |-> 0, found |-> found,
                          stats |-> StatsBeforeWalk(Cleaned(found, hiCut))]
    BY DEF Analyze
<1>10. PICK found \in [1..n -> FoundPartials], name \in SourceFiles, hiCut \in HiCuts :
          /\ Operation(n)
          /\ data' = [partials |-> Cleaned(found, hiCut), type |-> "VutuPartials",
                      sourceFile |-> name, sourceDuration |-> Duration,
                      hiCut |-> hiCut, fundamental |-> 0, found |-> found,
                      stats |-> StatsBeforeWalk(Cleaned(found, hiCut))]
    BY <1>2
<1> DEFINE partials == Cleaned(found, hiCut)
           stats == StatsBeforeWalk(partials)
<1>3. /\ walk' = WalkFrom(data'.stats) /\ loaded' = "none" /\ files' = files /\ written' = written
    BY DEF Analyze
<1>11. ops' \in 0..MaxOps
  <2>1. n \in Nat /\ ops \in 0..MaxOps
      BY <1>1, PartialsAssumption DEF TypeOK
  <2> QED BY <1>10, <2>1, PartialsAssumption DEF Operation
<1>4. partials \in Seq(Partial) /\ found \in Seq(FoundPartials) /\ hiCut \in Nat
  <2>1. n \in Nat /\ hiCut \in Nat
      BY PartialsAssumption
  <2>2. found \in Seq(FoundPartials) /\ found \in Seq(Partial \ {EmptyPartial})
      BY <2>1, FoundType
  <2> QED BY <2>1, <2>2, CleanedKeeps
<1> HIDE DEF partials
<1>5. /\ stats \in Stats /\ StatsOf(stats, partials)
      /\ WalkFrom(stats) \in Walk(stats) /\ Counted(stats, WalkFrom(stats))
    BY <1>4, FreshStats
<1> HIDE DEF stats
<1>6. data' = [partials |-> partials, type |-> "VutuPartials",
               sourceFile |-> name, sourceDuration |-> Duration,
               hiCut |-> hiCut, fundamental |-> 0, found |-> found, stats |-> stats]
    BY <1>10 DEF partials, stats
<1>7. data'.stats = stats /\ data'.partials = partials /\ walk' = WalkFrom(stats)
    BY <1>3, <1>6
<1>8. data' \in Data
  <2>1. "VutuPartials" \in {NoName, "VutuPartials"} /\ name \in SourceFiles \cup {NoName}
      OBVIOUS
  <2>2. Duration \in 1..Huge /\ Huge \in Nat
      BY PartialsAssumption
  <2>3. Duration \in 0..Huge /\ 0 \in Nat
      BY <2>2
  <2> QED BY <1>4, <1>5, <1>6, <2>1, <2>3 DEF Data
<1>9. TypeOK'
    BY <1>1, <1>3, <1>5, <1>7, <1>8, <1>11 DEF TypeOK, Walk
<1> QED BY <1>5, <1>7, <1>9 DEF StatsInvariant

\* Loading a file keeps it.
LEMMA StatsLoad == StatsInvariant /\ Load => StatsInvariant'
<1> SUFFICES ASSUME StatsInvariant, Load PROVE StatsInvariant'
    OBVIOUS
<1>1. TypeOK
    BY DEF StatsInvariant
<1>2. PICK format \in Formats :
          /\ files[format] # None
          /\ data' = ReadFrom(format, files[format])
          /\ loaded' = format
    BY DEF Load
<1>3. /\ walk' = WalkFrom(data'.stats) /\ files' = files /\ written' = written
    BY DEF Load
<1>11. ops' \in 0..MaxOps
    BY <1>1, PartialsAssumption DEF Load, Operation, TypeOK
<1>4. files[format] \in FileOf(format)
    BY <1>1, <1>2 DEF TypeOK, Formats, FileOf
<1>5. data' \in Data /\ data'.stats = StatsBeforeWalk(data'.partials)
    BY <1>2, <1>4, ReadMakes
<1>6. data'.partials \in Seq(Partial)
    BY <1>5, DataFields
<1>7. /\ data'.stats \in Stats /\ StatsOf(data'.stats, data'.partials)
      /\ walk' \in Walk(data'.stats) /\ Counted(data'.stats, walk')
    BY <1>3, <1>5, <1>6, FreshStats
<1>8. TypeOK'
    BY <1>1, <1>2, <1>3, <1>5, <1>7, <1>11 DEF TypeOK, Walk
<1> QED BY <1>7, <1>8 DEF StatsInvariant

\* Saving keeps it.
LEMMA StatsSave == StatsInvariant /\ Save => StatsInvariant'
<1> SUFFICES ASSUME StatsInvariant, Save PROVE StatsInvariant'
    OBVIOUS
<1>1. TypeOK /\ data \in Data
    BY DEF StatsInvariant, TypeOK
<1>2. PICK format \in Formats, fundamental \in Fundamentals :
          /\ data' = [data EXCEPT !.fundamental = fundamental]
          /\ files' = [files EXCEPT ![format] = StoredAs(format, data')]
          /\ written' = [written EXCEPT ![format] = data']
    BY DEF Save
<1>3. loaded' = "none" /\ walk' = walk
    BY DEF Save
<1>11. ops' \in 0..MaxOps
    BY <1>1, PartialsAssumption DEF Save, Operation, TypeOK
<1>4. /\ data'.stats = data.stats /\ data'.partials = data.partials
      /\ data' \in Data
    BY <1>1, <1>2, PartialsAssumption DEF Data
<1>5. StoredAs(format, data') \in FileOf(format)
    BY <1>4, StoredType
<1>6. /\ DOMAIN files' = Formats /\ written' \in [Formats -> Data \cup {None}]
      /\ files'["utu"] \in File \cup {None} /\ files'["ut2"] \in Tree \cup {None}
    BY <1>1, <1>2, <1>4, <1>5 DEF TypeOK, FileOf, Formats
<1>7. TypeOK'
    BY <1>1, <1>3, <1>4, <1>6, <1>11 DEF TypeOK
<1> QED BY <1>3, <1>4, <1>7 DEF StatsInvariant

\* What is known while walking.
LEMMA WalkingFacts ==
    ASSUME StatsInvariant, Walking
    PROVE /\ TypeOK /\ data \in Data /\ data.stats \in Stats /\ walk \in Walk(data.stats)
          /\ RangesOrdered(data.stats) /\ WalkStands(data.stats, walk)
          /\ \A i \in 1..data.stats.nPartials : TimeOf(data.stats, <<i, FALSE>>) \in 0..Huge
<1>1. TypeOK /\ data \in Data /\ StatsOf(data.stats, data.partials)
    BY DEF StatsInvariant, TypeOK
<1>2. walk # None
    BY DEF Walking
<1>3. walk \in Walk(data.stats)
    BY <1>1, <1>2 DEF TypeOK, Walk
<1>4. WalkStands(data.stats, walk)
    BY <1>2 DEF StatsInvariant, Counted
<1>5. data.partials \in Seq(Partial) /\ data.stats \in Stats
    BY <1>1, DataFields
<1> QED BY <1>1, <1>3, <1>4, <1>5, StatsAreOrdered

\* A step of the walk that only moves it on keeps the invariant.
LEMMA StatsWalkOn ==
    ASSUME StatsInvariant, Walking, WalkStands(data.stats, walk'), walk'.maxActiveTime \in 0..Huge,
           UNCHANGED <<data, files, written, loaded, ops>>
    PROVE StatsInvariant'
<1>1. /\ walk' \in [left : SUBSET Events(data.stats), active : Int,
                    maxActive : 0..data.stats.nPartials, maxActiveTime : Nat]
    BY DEF WalkStands
<1>2. walk' \in Walk(data.stats)
    BY <1>1 DEF Walk
<1>3. walk' # None
    BY <1>1, WalksAreSome
<1>4. TypeOK'
    BY <1>2 DEF StatsInvariant, TypeOK, Walk
<1>5. Counted(data.stats, walk')
    BY <1>3 DEF Counted
<1> QED BY <1>4, <1>5 DEF StatsInvariant

\* Walking along an end keeps it.
LEMMA StatsWalkEnd == StatsInvariant /\ WalkEnd => StatsInvariant'
<1> SUFFICES ASSUME StatsInvariant, WalkEnd PROVE StatsInvariant'
    OBVIOUS
<1>1. Walking /\ UNCHANGED <<data, files, written, loaded, ops>>
    BY DEF WalkEnd
<1>2. PICK i \in 1..data.stats.nPartials :
          /\ NextInOrder(<<i, TRUE>>)
          /\ walk' = [walk EXCEPT !.left = @ \ {<<i, TRUE>>}, !.active = @ - 1]
    BY DEF WalkEnd
<1>3. walk \in Walk(data.stats) /\ RangesOrdered(data.stats) /\ WalkStands(data.stats, walk)
    BY <1>1, WalkingFacts
<1>4. <<i, TRUE>> \in walk.left
      /\ \A f \in walk.left : TimeOf(data.stats, <<i, TRUE>>) <= TimeOf(data.stats, f)
    BY <1>2 DEF NextInOrder
<1>5. walk' = [left |-> walk.left \ {<<i, TRUE>>}, active |-> walk.active - 1,
               maxActive |-> walk.maxActive, maxActiveTime |-> walk.maxActiveTime]
    BY <1>2, <1>3 DEF Walk
<1>6. WalkStands(data.stats, walk')
    BY <1>3, <1>4, <1>5, EndStands
<1>7. walk'.maxActiveTime \in 0..Huge
    BY <1>3, <1>5 DEF Walk
<1> QED BY <1>1, <1>6, <1>7, StatsWalkOn

\* Walking along a start keeps it.
LEMMA StatsWalkStart == StatsInvariant /\ WalkStart => StatsInvariant'
<1> SUFFICES ASSUME StatsInvariant, WalkStart PROVE StatsInvariant'
    OBVIOUS
<1>1. Walking /\ UNCHANGED <<data, files, written, loaded, ops>>
    BY DEF WalkStart
<1>2. PICK i \in 1..data.stats.nPartials :
          /\ NextInOrder(<<i, FALSE>>)
          /\ walk' = [left |-> walk.left \ {<<i, FALSE>>},
                      active |-> walk.active + 1,
                      maxActive |-> Max({walk.maxActive, walk.active + 1}),
                      maxActiveTime |-> IF Max({walk.maxActive, walk.active + 1}) = walk.active + 1
                                        THEN TimeOf(data.stats, <<i, FALSE>>)
                                        ELSE walk.maxActiveTime]
    BY DEF WalkStart
<1>3. /\ walk \in Walk(data.stats) /\ RangesOrdered(data.stats) /\ WalkStands(data.stats, walk)
      /\ TimeOf(data.stats, <<i, FALSE>>) \in 0..Huge
    BY <1>1, WalkingFacts
<1>4. <<i, FALSE>> \in walk.left
      /\ \A f \in walk.left : TimeOf(data.stats, <<i, FALSE>>) <= TimeOf(data.stats, f)
    BY <1>2 DEF NextInOrder
<1>5. WalkStands(data.stats, walk')
    BY <1>2, <1>3, <1>4, StartStands
<1>6. walk'.maxActiveTime \in 0..Huge
    BY <1>2, <1>3 DEF Walk
<1> QED BY <1>1, <1>5, <1>6, StatsWalkOn

\* At its end the walk has counted all, and as many ends as starts.
LEMMA WalkEndsEven ==
    ASSUME NEW stats, RangesOrdered(stats), NEW w, WalkStands(stats, w), w.left = {}
    PROVE /\ w.active = 0
          /\ \A t \in Nat : Cardinality(Sounding(stats, t)) <= w.maxActive
          /\ w.maxActive <= Cardinality(Touching(stats, w.maxActiveTime))
<1>1. Begun(stats, w.left) = 1..stats.nPartials /\ Over(stats, w.left) = 1..stats.nPartials
    BY DEF Begun, Over
<1>2. Cardinality(1..stats.nPartials) \in 0..stats.nPartials
    BY Sizes DEF RangesOrdered
<1>3. w.active = 0
    BY <1>1, <1>2 DEF WalkStands
<1>4. \A t \in Nat : BeginsBy(stats, t) \subseteq Begun(stats, w.left)
    BY <1>1 DEF BeginsBy
<1> QED BY <1>3, <1>4 DEF WalkStands

\* The end of calcStats() keeps it.
LEMMA StatsWalkDone == StatsInvariant /\ WalkDone => StatsInvariant'
<1> SUFFICES ASSUME StatsInvariant, WalkDone PROVE StatsInvariant'
    OBVIOUS
<1>1. /\ Walking /\ walk.left = {} /\ walk' = None /\ UNCHANGED <<files, written, loaded, ops>>
    BY DEF WalkDone
<1> DEFINE stats == [data.stats EXCEPT !.maxActive = walk.maxActive,
                                       !.maxActiveTime = walk.maxActiveTime]
           duration == IF data.sourceDuration = 0 THEN FakedDuration(stats)
                                                  ELSE data.sourceDuration
<1>2. data' = [data EXCEPT !.stats = stats, !.sourceDuration = duration]
    BY DEF WalkDone
<1>3. /\ TypeOK /\ data \in Data /\ data.stats \in Stats /\ walk \in Walk(data.stats)
      /\ RangesOrdered(data.stats) /\ WalkStands(data.stats, walk)
    BY <1>1, WalkingFacts
<1>4. /\ stats \in Stats /\ stats.nPartials = data.stats.nPartials /\ stats.range = data.stats.range
      /\ stats.partialTimeRanges = data.stats.partialTimeRanges
      /\ stats.maxActive = walk.maxActive /\ stats.maxActiveTime = walk.maxActiveTime
  <2>1. /\ data.stats.nPartials \in Nat
        /\ walk.maxActive \in 0..data.stats.nPartials /\ walk.maxActiveTime \in 0..Huge
      BY <1>3, DataFields DEF Walk
  <2>2. walk.maxActive \in Nat
      BY <2>1
  <2> QED BY <1>3, <2>1, <2>2 DEF Stats
<1> HIDE DEF stats
<1>5. duration \in 0..Huge
  <2>1. FakedDuration(stats) \in 0..Huge
    <3>1. stats.range \in [Parts \ {"phase"} -> (0..Huge) \X (0..Huge)] /\ "time" \in Parts \ {"phase"}
        BY <1>4, DataFields, PartialType
    <3> QED BY <3>1 DEF FakedDuration
  <2> QED BY <1>3, <2>1, DataFields
<1> HIDE DEF duration
<1>6. data' \in Data /\ data'.stats = stats /\ data'.partials = data.partials
    BY <1>2, <1>3, <1>4, <1>5 DEF Data
<1>7. TypeOK'
    BY <1>1, <1>3, <1>6 DEF TypeOK
<1>8. StatsOf(stats, data.partials)
    BY <1>4 DEF StatsInvariant, StatsOf
<1>9. \A t : Sounding(stats, t) = Sounding(data.stats, t) /\ Touching(stats, t) = Touching(data.stats, t)
    BY <1>4 DEF Sounding, Touching, TimeOf
<1>10. CountedAll(stats)
  <2>1. /\ \A t \in Nat : Cardinality(Sounding(data.stats, t)) <= walk.maxActive
        /\ walk.maxActive <= Cardinality(Touching(data.stats, walk.maxActiveTime))
      BY <1>1, <1>3, WalkEndsEven
  <2> QED BY <1>4, <1>9, <2>1 DEF CountedAll
<1>11. Counted(stats, walk')
    BY <1>1, <1>10 DEF Counted
<1> QED BY <1>6, <1>7, <1>8, <1>11 DEF StatsInvariant

\* The invariant is one.
LEMMA StatsInvariance == Spec => []StatsInvariant
<1>1. Init => StatsInvariant
    BY StatsInit
<1>2. StatsInvariant /\ [Next]_vars => StatsInvariant'
  <2> SUFFICES ASSUME StatsInvariant, [Next]_vars PROVE StatsInvariant'
      OBVIOUS
  <2>1. CASE UNCHANGED vars
    <3>1. UNCHANGED <<data, walk, files, written, loaded, ops>>
        BY <2>1 DEF vars
    <3> QED BY <3>1 DEF StatsInvariant, TypeOK
  <2>2. CASE Rest
    <3>1. UNCHANGED <<data, walk, files, written, loaded, ops>>
        BY <2>2 DEF Rest, vars
    <3> QED BY <3>1 DEF StatsInvariant, TypeOK
  <2> QED BY <2>1, <2>2, StatsAnalyze, StatsSave, StatsLoad, StatsWalkStart, StatsWalkEnd,
             StatsWalkDone DEF Next
<1> QED BY <1>1, <1>2, PTL DEF Spec

\* Whatever is analysed, saved and loaded, partials, statistics and files are
\* of their types: neither the walk of calcStats() nor a file of the other
\* format leaves anything out of range.
THEOREM PartialsTypes == Spec => []TypeOK
<1>1. StatsInvariant => TypeOK
    BY DEF StatsInvariant
<1> QED BY <1>1, StatsInvariance, PTL

\* In whatever order std::sort puts equal times, calcStats() counts the most
\* partials that sound at once, finds a time where so many do, and its
\* assertion that all have ended holds.
THEOREM WalkCountsAll == Spec => []WalkBounds
<1>1. StatsInvariant => WalkBounds
  <2> SUFFICES ASSUME StatsInvariant PROVE WalkBounds
      OBVIOUS
  <2>1. ASSUME Idle PROVE CountedAll(data.stats)
      BY <2>1 DEF StatsInvariant, Counted, Idle, Walking
  <2>2. 0..Duration \subseteq Nat
      BY PartialsAssumption
  <2>3. ASSUME Walking, walk.left = {} PROVE walk.active = 0
      BY <2>3, WalkingFacts, WalkEndsEven
  <2>4. ASSUME Idle
        PROVE /\ \A t \in 0..Duration : Cardinality(Sounding(data.stats, t)) <= data.stats.maxActive
              /\ Cardinality(Touching(data.stats, data.stats.maxActiveTime)) >= data.stats.maxActive
    <3>1. CountedAll(data.stats)
        BY <2>1, <2>4
    <3>2. Cardinality(Touching(data.stats, data.stats.maxActiveTime)) \in Nat
              /\ data.stats.maxActive \in Nat
      <4>1. data.stats.nPartials \in Nat /\ data.stats.maxActive \in Nat
        <5>1. data \in Data
            BY DEF StatsInvariant, TypeOK
        <5> QED BY <5>1, DataFields
      <4>2. Touching(data.stats, data.stats.maxActiveTime) \subseteq 1..data.stats.nPartials
          BY DEF Touching
      <4>3. Cardinality(Touching(data.stats, data.stats.maxActiveTime)) \in 0..data.stats.nPartials
          BY <4>1, <4>2, Sizes
      <4> QED BY <4>1, <4>3
    <3> QED BY <2>2, <3>1, <3>2 DEF CountedAll
  <2> QED BY <2>3, <2>4 DEF WalkBounds
<1> QED BY <1>1, StatsInvariance, PTL
-----------------------------------------------------------------------------
(***************************************************************************)
(* What partials and files hold.                                           *)
(***************************************************************************)
\* A step of the walk leaves the partials, and ends them only by ending.
LEMMA WalkSteps ==
    ASSUME StatsInvariant, WalkStart \/ WalkEnd
    PROVE Walking' /\ UNCHANGED <<data, files, written, loaded, ops>>
<1>1. CASE WalkStart
  <2>1. "left" \in DOMAIN walk'
      BY <1>1 DEF WalkStart
  <2> QED BY <1>1, <2>1, WalksAreSome DEF WalkStart, Walking
<1>2. CASE WalkEnd
  <2>1. walk \in Walk(data.stats)
      BY <1>2, WalkingFacts DEF WalkEnd
  <2>2. "left" \in DOMAIN walk'
      BY <1>2, <2>1 DEF WalkEnd, Walk
  <2> QED BY <1>2, <2>2, WalksAreSome DEF WalkEnd, Walking
<1> QED BY <1>1, <1>2

\* What an analysis makes: partials that were found.
LEMMA AnalyzeMakes ==
    ASSUME Analyze
    PROVE /\ data'.found \in Seq(Partial \ {EmptyPartial}) /\ data'.hiCut \in Nat
          /\ data'.partials = Cleaned(data'.found, data'.hiCut)
          /\ files' = files /\ written' = written /\ loaded' = "none"
<1>1. PICK n \in 1..MaxPartials :
          \E found \in [1..n -> FoundPartials], name \in SourceFiles, hiCut \in HiCuts :
              data' = [partials |-> Cleaned(found, hiCut), type |-> "VutuPartials",
                       sourceFile |-> name, sourceDuration |-> Duration,
                       hiCut |-> hiCut, fundamental |-> 0, found |-> found,
                       stats |-> StatsBeforeWalk(Cleaned(found, hiCut))]
    BY DEF Analyze
<1>2. PICK found \in [1..n -> FoundPartials], name \in SourceFiles, hiCut \in HiCuts :
          data' = [partials |-> Cleaned(found, hiCut), type |-> "VutuPartials",
                   sourceFile |-> name, sourceDuration |-> Duration,
                   hiCut |-> hiCut, fundamental |-> 0, found |-> found,
                   stats |-> StatsBeforeWalk(Cleaned(found, hiCut))]
    BY <1>1
<1>3. n \in Nat /\ hiCut \in Nat
    BY PartialsAssumption
<1>4. found \in Seq(Partial \ {EmptyPartial})
    BY <1>3, FoundType
<1>5. data'.found = found /\ data'.hiCut = hiCut /\ data'.partials = Cleaned(found, hiCut)
    BY <1>2
<1>6. files' = files /\ written' = written /\ loaded' = "none"
    BY DEF Analyze
<1>7. data'.partials = Cleaned(data'.found, data'.hiCut)
    BY <1>5
<1>8. data'.found \in Seq(Partial \ {EmptyPartial}) /\ data'.hiCut \in Nat
    BY <1>3, <1>4, <1>5
<1> QED BY <1>5, <1>6, <1>7, <1>8

\* An analysis keeps exactly the partials of several breakpoints that stay
\* below "hi_cut", in the order in which they were found: cleanOutliers()
\* also removes what cutHighs() has emptied.
THEOREM AnalysisKeepsAll == Spec => []AnalysisKeeps
<1>1. Init => AnalysisKeeps
  <2>1. ASSUME Init PROVE data.found = <<>>
    <3>1. data = NoPartials
        BY <2>1 DEF Init
    <3>2. NoPartials.found = <<>>
        BY DEF NoPartials
    <3> QED BY <3>1, <3>2
  <2>2. data.found = <<>> => AnalysisKeeps
      BY DEF AnalysisKeeps
  <2> QED BY <2>1, <2>2
<1>2. AnalysisKeeps /\ StatsInvariant /\ [Next]_vars => AnalysisKeeps'
  <2> SUFFICES ASSUME AnalysisKeeps, StatsInvariant, [Next]_vars PROVE AnalysisKeeps'
      OBVIOUS
  <2>1. data \in Data
      BY DEF StatsInvariant, TypeOK
  <2>2. ASSUME data'.found = data.found, data'.partials = data.partials, data'.hiCut = data.hiCut
        PROVE AnalysisKeeps'
      BY <2>2 DEF AnalysisKeeps
  <2>3. CASE Analyze
    <3> DEFINE found == data'.found
               hiCut == data'.hiCut
    <3>1. found \in Seq(Partial \ {EmptyPartial}) /\ hiCut \in Nat
          /\ data'.partials = Cleaned(found, hiCut)
        BY <2>3, AnalyzeMakes
    <3>2. /\ data'.partials \in Seq(Partial)
          /\ \E place \in [1..Len(data'.partials) -> KeptOf(found, hiCut)] :
                 /\ Increasing(place)
                 /\ Range(place) = KeptOf(found, hiCut)
                 /\ \A k \in 1..Len(data'.partials) : data'.partials[k] = found[place[k]]
        BY <3>1, CleanedKeeps
    <3>3. DOMAIN data'.partials = 1..Len(data'.partials)
        BY <3>2
    <3>4. \E place \in [DOMAIN data'.partials -> KeptOf(found, hiCut)] :
              /\ Increasing(place)
              /\ Range(place) = KeptOf(found, hiCut)
              /\ \A k \in DOMAIN place : data'.partials[k] = found[place[k]]
        BY <3>2, <3>3
    <3> QED BY <3>4 DEF AnalysisKeeps, KeptOf
  <2>4. CASE Save
    <3>1. PICK fundamental \in Fundamentals : data' = [data EXCEPT !.fundamental = fundamental]
        BY <2>4 DEF Save
    <3>2. data'.found = data.found /\ data'.partials = data.partials /\ data'.hiCut = data.hiCut
        BY <2>1, <3>1 DEF Data
    <3> QED BY <2>2, <3>2
  <2>5. CASE Load
    <3>1. PICK format \in Formats : /\ files[format] # None
                                   /\ data' = ReadFrom(format, files[format])
        BY <2>5 DEF Load
    <3>2. files[format] \in FileOf(format)
        BY <3>1 DEF StatsInvariant, TypeOK, Formats, FileOf
    <3>3. data'.found = <<>>
        BY <3>1, <3>2, ReadMakes
    <3> QED BY <3>3 DEF AnalysisKeeps
  <2>6. CASE WalkDone
      BY <2>1, <2>2, <2>6 DEF WalkDone, Data
  <2>7. CASE WalkStart \/ WalkEnd
      BY <2>2, <2>7, WalkSteps
  <2>8. CASE Rest \/ UNCHANGED vars
      BY <2>2, <2>8 DEF Rest, vars
  <2> QED BY <2>3, <2>4, <2>5, <2>6, <2>7, <2>8 DEF Next
<1> QED BY <1>1, <1>2, StatsInvariance, PTL DEF Spec

\* What loading makes: what a file holds, of which a walk is begun.
LEMMA LoadMakes ==
    ASSUME StatsInvariant, Load
    PROVE \E format \in Formats :
              /\ files[format] # None /\ files[format] \in FileOf(format)
              /\ data' = ReadFrom(format, files[format])
              /\ loaded' = format /\ files' = files /\ written' = written
              /\ Walking'
<1>1. PICK format \in Formats : /\ files[format] # None
                               /\ data' = ReadFrom(format, files[format])
                               /\ loaded' = format
    BY DEF Load
<1>2. files[format] \in FileOf(format)
    BY <1>1 DEF StatsInvariant, TypeOK, Formats, FileOf
<1>3. walk' = WalkFrom(data'.stats) /\ files' = files /\ written' = written
    BY DEF Load
<1>4. Walking'
    BY <1>3, WalksAreSome DEF Walking, WalkFrom
<1> QED BY <1>1, <1>2, <1>3, <1>4

\* What saving changes: the fundamental, one file, and what is known of it.
LEMMA SaveMakes ==
    ASSUME StatsInvariant, Save
    PROVE /\ data' \in Data /\ data'.partials = data.partials /\ data.partials # <<>>
          /\ walk' = walk /\ loaded' = "none"
          /\ \E format \in Formats :
                 /\ \A f \in Formats \ {format} : files'[f] = files[f] /\ written'[f] = written[f]
                 /\ files'[format] = StoredAs(format, data') /\ written'[format] = data'
<1>1. PICK format \in Formats, fundamental \in Fundamentals :
          /\ data' = [data EXCEPT !.fundamental = fundamental]
          /\ files' = [files EXCEPT ![format] = StoredAs(format, data')]
          /\ written' = [written EXCEPT ![format] = data']
    BY DEF Save
<1>2. data \in Data /\ DOMAIN files = Formats /\ DOMAIN written = Formats
    BY DEF StatsInvariant, TypeOK
<1>3. data' \in Data /\ data'.partials = data.partials
    BY <1>1, <1>2, PartialsAssumption DEF Data
<1>4. walk' = walk /\ loaded' = "none" /\ data.partials # <<>>
    BY DEF Save
<1>5. /\ \A f \in Formats \ {format} : files'[f] = files[f] /\ written'[f] = written[f]
      /\ files'[format] = StoredAs(format, data') /\ written'[format] = data'
    BY <1>1, <1>2
<1> QED BY <1>3, <1>4, <1>5

\* What the end of calcStats() changes: statistics and, if need be, the duration.
LEMMA WalkDoneMakes ==
    ASSUME StatsInvariant, WalkDone
    PROVE /\ data'.partials = data.partials /\ data'.hiCut = data.hiCut
          /\ data'.fundamental = data.fundamental /\ data'.sourceFile = data.sourceFile
          /\ data'.stats.range = data.stats.range
          /\ data'.stats.partialTimeRanges = data.stats.partialTimeRanges
          /\ data'.sourceDuration = IF data.sourceDuration = 0 THEN data.stats.range["time"][2]
                                                               ELSE data.sourceDuration
          /\ UNCHANGED <<files, written, loaded>>
<1> DEFINE stats == [data.stats EXCEPT !.maxActive = walk.maxActive,
                                       !.maxActiveTime = walk.maxActiveTime]
           duration == IF data.sourceDuration = 0 THEN FakedDuration(stats)
                                                  ELSE data.sourceDuration
<1>1. data' = [data EXCEPT !.stats = stats, !.sourceDuration = duration]
      /\ UNCHANGED <<files, written, loaded>>
    BY DEF WalkDone
<1>2. data \in Data /\ data.stats \in Stats
    BY DataFields DEF StatsInvariant, TypeOK
<1>3. stats.range = data.stats.range /\ stats.partialTimeRanges = data.stats.partialTimeRanges
    BY <1>2 DEF Stats
<1> HIDE DEF stats
<1>4. duration = IF data.sourceDuration = 0 THEN data.stats.range["time"][2] ELSE data.sourceDuration
    BY <1>3 DEF FakedDuration
<1> HIDE DEF duration
<1>5. /\ data'.partials = data.partials /\ data'.hiCut = data.hiCut
      /\ data'.fundamental = data.fundamental /\ data'.sourceFile = data.sourceFile
      /\ data'.stats = stats /\ data'.sourceDuration = duration
    BY <1>1, <1>2 DEF Data
<1> QED BY <1>1, <1>3, <1>4, <1>5

\* A file holds what was last written into it; data read from that are the
\* same, and have a duration when calcStats() has made one up.
ReloadInvariant ==
    \A format \in Formats : written[format] # None =>
        /\ written[format].partials # <<>>
        /\ files[format] = StoredAs(format, written[format])
        /\ loaded = format =>
               /\ data.partials = written[format].partials
               /\ data.hiCut = written[format].hiCut
               /\ data.fundamental = written[format].fundamental
               /\ format = "utu" => data.sourceFile = written[format].sourceFile
               /\ data.sourceDuration = IF Walking THEN 0 ELSE data.stats.range["time"][2]

\* Statistics reach as far as the last breakpoint, and no further.
LEMMA TimesCovered ==
    ASSUME NEW partials \in Seq(Partial), partials # <<>>, NEW stats, StatsOf(stats, partials),
           NEW end, end = stats.range["time"][2]
    PROVE /\ end \in ValuesIn(partials, "time") \cup {Tiny}
          /\ \A t \in ValuesIn(partials, "time") : t <= end
<1>1. "time" \in Parts /\ "time" \in Parts \ {"phase"}
    BY PartialType
<1>2. end = ParamRange(partials, "time")[2]
    BY <1>1 DEF StatsOf
<1> QED BY <1>1, <1>2, ParamRangeType

\* What is saved and loaded again is the same, after any number of operations
\* in between: the fundamental is noted before the file is written, every part
\* of a partial is looked for under the name under which it is stored, and no
\* file of one format is mistaken for the other.
THEOREM ReloadKeepsAll == Spec => []ReloadKeeps
<1>1. Init => ReloadInvariant
    BY DEF Init, ReloadInvariant
<1>2. ReloadInvariant /\ StatsInvariant /\ [Next]_vars => ReloadInvariant'
  <2> SUFFICES ASSUME ReloadInvariant, StatsInvariant, [Next]_vars PROVE ReloadInvariant'
      OBVIOUS
  <2>1. ASSUME UNCHANGED <<data, files, written, loaded>>, Walking' <=> Walking PROVE ReloadInvariant'
      BY <2>1 DEF ReloadInvariant
  <2>2. CASE Analyze
    <3>1. files' = files /\ written' = written /\ loaded' = "none"
        BY <2>2, AnalyzeMakes
    <3> QED BY <3>1 DEF ReloadInvariant, Formats
  <2>3. CASE Save
    <3>1. loaded' = "none" /\ data'.partials # <<>>
        BY <2>3, SaveMakes
    <3>2. PICK format \in Formats :
              /\ \A f \in Formats \ {format} : files'[f] = files[f] /\ written'[f] = written[f]
              /\ files'[format] = StoredAs(format, data') /\ written'[format] = data'
        BY <2>3, SaveMakes
    <3>3. \A f \in Formats : loaded' # f
        BY <3>1 DEF Formats
    <3>4. ASSUME NEW f \in Formats, written'[f] # None
          PROVE written'[f].partials # <<>> /\ files'[f] = StoredAs(f, written'[f])
        BY <3>1, <3>2, <3>4 DEF ReloadInvariant
    <3> QED BY <3>3, <3>4 DEF ReloadInvariant
  <2>4. CASE Load
    <3>1. PICK format \in Formats :
              /\ data' = ReadFrom(format, files[format])
              /\ loaded' = format /\ files' = files /\ written' = written /\ Walking'
        BY <2>4, LoadMakes
    <3>2. ASSUME written[format] # None
          PROVE /\ data'.partials = written[format].partials
                /\ data'.hiCut = written[format].hiCut
                /\ data'.fundamental = written[format].fundamental
                /\ format = "utu" => data'.sourceFile = written[format].sourceFile
                /\ data'.sourceDuration = 0
      <4>1. written[format] \in Data
          BY <3>2 DEF StatsInvariant, TypeOK
      <4>2. files[format] = StoredAs(format, written[format]) /\ written[format].partials # <<>>
          BY <3>2 DEF ReloadInvariant
      <4> QED BY <3>1, <4>1, <4>2, StoredKept
    <3> QED BY <3>1, <3>2 DEF ReloadInvariant
  <2>5. CASE WalkDone
    <3>1. /\ data'.partials = data.partials /\ data'.hiCut = data.hiCut
          /\ data'.fundamental = data.fundamental /\ data'.sourceFile = data.sourceFile
          /\ data'.stats.range = data.stats.range
          /\ data'.sourceDuration = IF data.sourceDuration = 0 THEN data.stats.range["time"][2]
                                                               ELSE data.sourceDuration
          /\ UNCHANGED <<files, written, loaded>>
        BY <2>5, WalkDoneMakes
    <3>2. Walking /\ ~Walking'
        BY <2>5 DEF WalkDone, Walking
    <3> QED BY <3>1, <3>2 DEF ReloadInvariant
  <2>6. CASE WalkStart \/ WalkEnd
    <3>1. Walking
        BY <2>6 DEF WalkStart, WalkEnd
    <3> QED BY <2>1, <2>6, <3>1, WalkSteps
  <2>7. CASE Rest \/ UNCHANGED vars
      BY <2>1, <2>7 DEF Rest, vars, Walking
  <2> QED BY <2>2, <2>3, <2>4, <2>5, <2>6, <2>7 DEF Next
<1>3. ReloadInvariant /\ StatsInvariant => ReloadKeeps
  <2> SUFFICES ASSUME ReloadInvariant, StatsInvariant PROVE ReloadKeeps
      OBVIOUS
  <2>1. ASSUME NEW format \in Formats, loaded = format, written[format] # None
        PROVE /\ data["partials"] = written[format]["partials"]
              /\ data["hiCut"] = written[format]["hiCut"]
              /\ data["fundamental"] = written[format]["fundamental"]
              /\ format = "utu" => data["sourceFile"] = written[format]["sourceFile"]
      BY <2>1 DEF ReloadInvariant
  <2>2. "utu" \in Formats /\ "ut2" \in Formats
      BY DEF Formats
  <2>3. Same("utu", {"partials", "hiCut", "fundamental", "sourceFile"})
      BY <2>1, <2>2 DEF Same
  <2>4. Same("ut2", {"partials", "hiCut", "fundamental"})
      BY <2>1, <2>2 DEF Same
  <2>5. ASSUME loaded # "none", written[loaded] # None, Idle
        PROVE /\ data.sourceDuration \in Values("time") \cup {Tiny}
              /\ \A t \in Values("time") : t <= data.sourceDuration
    <3>1. loaded \in Formats
        BY <2>5 DEF StatsInvariant, TypeOK
    <3>2. /\ data.partials # <<>>
          /\ data.sourceDuration = data.stats.range["time"][2]
        BY <2>5, <3>1 DEF ReloadInvariant, Idle
    <3>3. data.partials \in Seq(Partial) /\ StatsOf(data.stats, data.partials)
        BY DataFields DEF StatsInvariant, TypeOK
    <3>4. Values("time") = ValuesIn(data.partials, "time")
        BY DEF Values, ValuesIn
    <3> QED BY <3>2, <3>3, <3>4, TimesCovered
  <2> QED BY <2>3, <2>4, <2>5 DEF ReloadKeeps
<1> QED BY <1>1, <1>2, <1>3, StatsInvariance, PTL DEF Spec

\* No partial is without breakpoints, in use or in a file.
NoneEmpty(partials) == \A i \in DOMAIN partials : partials[i] # EmptyPartial
NoneStoredEmpty(p) == \A i \in DOMAIN p : p[i].time # <<>>

BreakpointsInvariant ==
    /\ NoneEmpty(data.partials)
    /\ \A format \in Formats : files[format] # None => NoneStoredEmpty(files[format].p)

\* The statistics of partials that all have breakpoints are true.
LEMMA StatsAreTrue ==
    ASSUME StatsInvariant, NoneEmpty(data.partials)
    PROVE StatsTrue
<1> DEFINE partials == data.partials
<1>1. SUFFICES ASSUME partials # <<>>
               PROVE /\ \A part \in Parts \ {"phase"} :
                            /\ data.stats.range[part][1] = Min(Values(part))
                            /\ data.stats.range[part][2] = Max(Values(part) \cup {Tiny})
                     /\ Len(data.stats.partialTimeRanges) = Len(partials)
                     /\ \A i \in DOMAIN partials :
                            /\ data.stats.partialTimeRanges[i][1] \in Range(partials[i]["time"])
                            /\ \A t \in Range(partials[i]["time"]) :
                                   /\ data.stats.partialTimeRanges[i][1] <= t
                                   /\ t <= data.stats.partialTimeRanges[i][2]
    BY DEF StatsTrue
<1>2. partials \in Seq(Partial) /\ StatsOf(data.stats, partials)
    BY DataFields DEF StatsInvariant, TypeOK
<1>3. \A i \in DOMAIN partials, part \in Parts :
          partials[i][part] # <<>> /\ partials[i][part] \in Seq(0..Huge)
    BY <1>2, PartialType, NoBreakpoints DEF NoneEmpty
<1>4. ASSUME NEW part \in Parts \ {"phase"}
      PROVE /\ data.stats.range[part][1] = Min(Values(part))
            /\ data.stats.range[part][2] = Max(Values(part) \cup {Tiny})
  <2> DEFINE range == ParamRange(partials, part)
             values == Values(part)
             more == values \cup {Tiny}
  <2>1. data.stats.range[part] = range
      BY <1>1, <1>2 DEF StatsOf
  <2>2. values = ValuesIn(partials, part)
      BY DEF Values, ValuesIn
  <2>3. /\ \A t \in values : range[1] <= t /\ t <= range[2]
        /\ Tiny <= range[2] /\ range[1] \in values /\ range[2] \in more
      BY <1>1, <1>2, <1>3, <2>2, ParamRangeType
  <2>4. values \subseteq 0..Huge /\ Tiny \in 0..Huge
    <3>1. ASSUME NEW i \in DOMAIN partials PROVE Range(partials[i][part]) \subseteq 0..Huge
      <4>1. partials[i][part] \in Seq(0..Huge)
          BY <1>3
      <4> QED BY <4>1, RangeOf
    <3>2. Tiny \in 0..Huge
      <4>1. Huge \in Nat /\ Huge > 1
          BY PartialsAssumption DEF Tiny
      <4> QED BY <4>1 DEF Tiny
    <3> QED BY <3>1, <3>2 DEF Values
  <2> HIDE DEF range, values
  <2>5. Min(values) \in values /\ \A y \in values : Min(values) <= y
      BY <2>3, <2>4, MinMax, PartialsAssumption
  <2>6. Max(more) \in more /\ \A y \in more : y <= Max(more)
    <3>1. more \subseteq 0..Huge /\ more # {}
        BY <2>4
    <3> QED BY <3>1, MinMax, PartialsAssumption
  <2>7. range[1] = Min(values)
    <3>1. range[1] <= Min(values) /\ Min(values) <= range[1]
        BY <2>3, <2>5
    <3>2. range[1] \in 0..Huge /\ Min(values) \in 0..Huge
        BY <2>3, <2>4, <2>5
    <3> QED BY <3>1, <3>2
  <2>8. range[2] = Max(more)
    <3>1. range[2] <= Max(more) /\ Max(more) <= range[2]
        BY <2>3, <2>6
    <3>2. range[2] \in 0..Huge /\ Max(more) \in 0..Huge
        BY <2>3, <2>4, <2>6
    <3> QED BY <3>1, <3>2
  <2> QED BY <2>1, <2>7, <2>8 DEF values
<1>5. ASSUME NEW i \in DOMAIN partials
      PROVE /\ data.stats.partialTimeRanges[i][1] \in Range(partials[i]["time"])
            /\ \A t \in Range(partials[i]["time"]) :
                   /\ data.stats.partialTimeRanges[i][1] <= t
                   /\ t <= data.stats.partialTimeRanges[i][2]
  <2>1. partials[i]["time"] # <<>> /\ partials[i]["time"] \in Seq(0..Huge)
      BY <1>3, PartialType
  <2>2. i \in 1..Len(partials)
      BY <1>2
  <2>3. data.stats.partialTimeRanges[i] = Extrema(partials[i]["time"])
      BY <1>2, <2>2 DEF StatsOf
  <2> QED BY <2>1, <2>3, ExtremaType
<1>6. Len(data.stats.partialTimeRanges) = Len(partials)
  <2> DEFINE ranges == data.stats.partialTimeRanges
  <2>1. ranges \in Seq((0..Huge) \X (0..Huge))
      BY DataFields DEF StatsInvariant, TypeOK
  <2>2. DOMAIN ranges = 1..Len(partials) /\ Len(partials) \in Nat
      BY <1>2 DEF StatsOf
  <2> HIDE DEF ranges
  <2>3. Len(ranges) = Len(partials)
      BY <2>1, <2>2
  <2> QED BY <2>3 DEF ranges
<1> QED BY <1>4, <1>5, <1>6

\* Unless a file of another program holds a partial without breakpoints, which
\* counts as one of zeros, the statistics in use are those of the partials in
\* use: cutHighs() leaves empty partials only for cleanOutliers() to remove.
THEOREM StatisticsAreTrue ==
    ASSUME \A file \in OtherFiles \cup OtherTrees : NoneStoredEmpty(file.p)
    PROVE  Spec => []StatsTrue
<1>1. Init => BreakpointsInvariant
  <2> SUFFICES ASSUME Init PROVE BreakpointsInvariant
      OBVIOUS
  <2>1. data.partials = <<>>
    <3>1. data = NoPartials
        BY DEF Init
    <3>2. NoPartials.partials = <<>>
        BY DEF NoPartials
    <3> QED BY <3>1, <3>2
  <2>2. ASSUME NEW format \in Formats, files[format] # None
        PROVE files[format] \in OtherFiles \cup OtherTrees
      BY <2>2 DEF Init, Formats
  <2> QED BY <2>1, <2>2 DEF BreakpointsInvariant, NoneEmpty
<1>2. BreakpointsInvariant /\ StatsInvariant /\ [Next]_vars => BreakpointsInvariant'
  <2> SUFFICES ASSUME BreakpointsInvariant, StatsInvariant, [Next]_vars PROVE BreakpointsInvariant'
      OBVIOUS
  <2>1. ASSUME data'.partials = data.partials, files' = files PROVE BreakpointsInvariant'
      BY <2>1 DEF BreakpointsInvariant
  <2>2. CASE Analyze
    <3>1. /\ data'.found \in Seq(Partial \ {EmptyPartial}) /\ data'.hiCut \in Nat
          /\ data'.partials = Cleaned(data'.found, data'.hiCut) /\ files' = files
        BY <2>2, AnalyzeMakes
    <3>2. PICK place \in [1..Len(data'.partials) -> KeptOf(data'.found, data'.hiCut)] :
              \A k \in 1..Len(data'.partials) : data'.partials[k] = data'.found[place[k]]
        BY <3>1, CleanedKeeps
    <3>3. DOMAIN data'.partials = 1..Len(data'.partials)
      <4>1. data'.partials \in Seq(Partial)
          BY <3>1, CleanedKeeps
      <4> QED BY <4>1
    <3>4. NoneEmpty(data'.partials)
        BY <3>1, <3>2, <3>3 DEF KeptOf, NoneEmpty
    <3> QED BY <3>1, <3>4 DEF BreakpointsInvariant
  <2>3. CASE Save
    <3>1. data'.partials = data.partials /\ data' \in Data
        BY <2>3, SaveMakes
    <3>2. PICK format \in Formats :
              /\ \A f \in Formats \ {format} : files'[f] = files[f]
              /\ files'[format] = StoredAs(format, data')
        BY <2>3, SaveMakes
    <3>3. NoneStoredEmpty(files'[format].p)
      <4> DEFINE partials == data'.partials
                 p == [i \in DOMAIN partials |-> PartialToJSON(partials[i])]
      <4>1. files'[format].p = p
          BY <3>1, <3>2, StoredType
      <4>2. \A i \in DOMAIN partials : PartialToJSON(partials[i]).time # <<>>
        <5>1. partials \in Seq(Partial) /\ NoneEmpty(partials)
            BY <3>1, DataFields DEF BreakpointsInvariant
        <5>2. \A i \in DOMAIN partials : partials[i] \in Partial /\ partials[i] # EmptyPartial
            BY <5>1 DEF NoneEmpty
        <5>3. \A i \in DOMAIN partials : partials[i]["time"] # <<>>
            BY <5>2, NoBreakpoints, PartialType
        <5> QED BY <5>3 DEF PartialToJSON
      <4> HIDE DEF partials
      <4> QED BY <4>1, <4>2 DEF NoneStoredEmpty
    <3>4. \A f \in Formats : files'[f] # None => NoneStoredEmpty(files'[f].p)
        BY <3>2, <3>3 DEF BreakpointsInvariant
    <3> QED BY <3>1, <3>4 DEF BreakpointsInvariant
  <2>4. CASE Load
    <3>1. PICK format \in Formats :
              /\ files[format] # None /\ files[format] \in FileOf(format)
              /\ data' = ReadFrom(format, files[format]) /\ files' = files
        BY <2>4, LoadMakes
    <3>2. /\ data' \in Data /\ Len(data'.partials) = Len(files[format].p)
          /\ \A i \in DOMAIN data'.partials : data'.partials[i]["time"] = files[format].p[i].time
        BY <3>1, ReadMakes
    <3>3. DOMAIN data'.partials = DOMAIN files[format].p
      <4>1. files[format].p \in Seq(Stored) /\ data'.partials \in Seq(Partial)
          BY <3>1, <3>2, DataFields, FileFields DEF FileOf
      <4> QED BY <3>2, <4>1
    <3>4. EmptyPartial["time"] = <<>>
        BY DEF EmptyPartial, Parts
    <3>5. NoneEmpty(data'.partials)
        BY <3>1, <3>2, <3>3, <3>4 DEF BreakpointsInvariant, NoneStoredEmpty, NoneEmpty
    <3> QED BY <3>1, <3>5 DEF BreakpointsInvariant
  <2>5. CASE WalkDone
      BY <2>1, <2>5, WalkDoneMakes
  <2>6. CASE WalkStart \/ WalkEnd
      BY <2>1, <2>6, WalkSteps
  <2>7. CASE Rest \/ UNCHANGED vars
      BY <2>1, <2>7 DEF Rest, vars
  <2> QED BY <2>2, <2>3, <2>4, <2>5, <2>6, <2>7 DEF Next
<1>3. BreakpointsInvariant /\ StatsInvariant => StatsTrue
    BY StatsAreTrue DEF BreakpointsInvariant
<1> QED BY <1>1, <1>2, <1>3, StatsInvariance, PTL DEF Spec
-----------------------------------------------------------------------------
(***************************************************************************)
(* Looking up frames.                                                      *)
(***************************************************************************)
\* What a sequence is.
LEMMA Elements ==
    ASSUME NEW S, NEW seq \in Seq(S)
    PROVE Len(seq) \in Nat /\ DOMAIN seq = 1..Len(seq) /\ \A k \in 1..Len(seq) : seq[k] \in S
OBVIOUS

\* The extrema of increasing times are the first and the last.
LEMMA IncreasingExtrema ==
    ASSUME NEW times \in Seq(0..Huge), Increasing(times), times # <<>>
    PROVE Extrema(times)[1] = times[1] /\ Extrema(times)[2] = times[Len(times)]
<1> DEFINE n == Len(times)
           from == Extrema(times)[1]
           to == Extrema(times)[2]
<1>12. n \in Nat /\ DOMAIN times = 1..n /\ \A i \in 1..n : times[i] \in 0..Huge
    BY Elements
<1>1. n \in Nat /\ 1 \in 1..n /\ n \in 1..n /\ DOMAIN times = 1..n
  <2>1. n # 0
      OBVIOUS
  <2> HIDE DEF n
  <2> QED BY <1>12, <2>1
<1>2. \A i \in 1..n : times[i] \in 0..Huge /\ times[1] <= times[i] /\ times[i] <= times[n]
  <2>1. \A i \in 1..n : times[i] \in 0..Huge
      BY <1>12
  <2> HIDE DEF n
  <2>2. \A i \in 1..n : i = 1 \/ 1 < i
      BY <1>1
  <2>3. \A i \in 1..n : i = n \/ i < n
      BY <1>1
  <2>4. ASSUME NEW i \in 1..n PROVE times[1] <= times[i]
      BY <1>1, <2>1, <2>2 DEF Increasing
  <2>5. ASSUME NEW i \in 1..n PROVE times[i] <= times[n]
      BY <1>1, <2>1, <2>3 DEF Increasing
  <2> QED BY <2>1, <2>4, <2>5
<1>3. Range(times) = {times[i] : i \in 1..n}
    BY RangeOf
<1>4. /\ from \in Range(times) /\ to \in Range(times)
      /\ \A t \in Range(times) : from <= t /\ t <= to
    BY ExtremaType
<1> HIDE DEF n, from, to
<1>5. PICK i \in 1..n : from = times[i]
    BY <1>3, <1>4
<1>6. PICK j \in 1..n : to = times[j]
    BY <1>3, <1>4
<1>7. from <= times[1] /\ times[n] <= to
    BY <1>1, <1>3, <1>4
<1>8. times[1] <= from /\ to <= times[n]
    BY <1>2, <1>5, <1>6
<1>9. /\ times[1] \in 0..Huge /\ times[n] \in 0..Huge
      /\ times[i] \in 0..Huge /\ times[j] \in 0..Huge
    BY <1>1, <1>2
<1>10. from = times[1]
    BY <1>5, <1>7, <1>8, <1>9
<1>11. to = times[n]
    BY <1>6, <1>7, <1>8, <1>9
<1> QED BY <1>10, <1>11 DEF from, to, n

\* The index found is that of the first breakpoint after the time.
LEMMA IndexFound ==
    ASSUME NEW times \in Seq(0..Huge), Increasing(times), NEW t \in Nat,
           Extrema(times)[1] <= t, t < Extrema(times)[2]
    PROVE /\ IndexAfter(times, t) \in 2..Len(times)
          /\ times[IndexAfter(times, t) - 1] <= t
          /\ t < times[IndexAfter(times, t)]
<1> DEFINE n == Len(times)
           after == {i \in 2..n : t < times[i]}
           i == IndexAfter(times, t)
<1>1. n \in Nat /\ \A k \in 1..n : times[k] \in 0..Huge
    BY Elements
<1>2. times # <<>>
  <2> SUFFICES ASSUME times = <<>> PROVE FALSE
      OBVIOUS
  <2>1. Extrema(times)[1] = 0 /\ Extrema(times)[2] = 0
      BY DEF Extrema
  <2> QED BY <2>1
<1>3. Extrema(times)[1] = times[1] /\ Extrema(times)[2] = times[n]
    BY <1>2, IncreasingExtrema
<1>4. n # 0
    BY <1>2
<1>5. n \in 2..n
    BY <1>1, <1>3, <1>4
<1>6. n \in after
    BY <1>3, <1>5
<1>7. i = Min(after)
    BY <1>6 DEF IndexAfter
<1>8. i \in after /\ \A k \in after : i <= k
  <2>1. after \subseteq 0..n /\ after # {}
      BY <1>1, <1>6
  <2> HIDE DEF after
  <2> QED BY <1>1, <1>7, <2>1, MinMax
<1> HIDE DEF i
<1>9. i \in 2..n /\ t < times[i]
    BY <1>8
<1>10. times[i - 1] <= t
  <2>1. CASE i = 2
      BY <1>3, <2>1
  <2>2. CASE i # 2
    <3>1. i - 1 \in 2..n /\ i - 1 \in 1..n /\ ~(i <= i - 1)
        BY <1>1, <1>9, <2>2
    <3>2. ~(t < times[i - 1])
        BY <1>8, <3>1
    <3>3. times[i - 1] \in Nat
        BY <1>1, <3>1
    <3> QED BY <3>2, <3>3
  <2> QED BY <2>1, <2>2
<1> QED BY <1>9, <1>10 DEF i, n

\* A partial in use, its times and its time range.
LEMMA PartialInUse ==
    ASSUME StatsInvariant, NEW p \in DOMAIN data.partials
    PROVE /\ data.partials[p] \in Partial /\ data.partials[p]["time"] \in Seq(0..Huge)
          /\ p \in 1..data.stats.nPartials
          /\ data.stats.partialTimeRanges[p] = Extrema(data.partials[p]["time"])
<1>1. data.partials \in Seq(Partial) /\ StatsOf(data.stats, data.partials)
    BY DataFields DEF StatsInvariant, TypeOK
<1>2. p \in 1..Len(data.partials) /\ data.partials[p] \in Partial
    BY <1>1
<1>3. "time" \in Parts
    BY PartialType
<1> QED BY <1>1, <1>2, <1>3, PartialType DEF StatsOf

\* Where the times of a partial increase, getPartialFrameNearest() picks one of
\* its breakpoints and none is nearer, for any time within the partial.
THEOREM NearestFrameIsNearest == Spec => []NearestIsNearest
<1>1. StatsInvariant => NearestIsNearest
  <2> SUFFICES ASSUME StatsInvariant, NEW p \in DOMAIN data.partials, NEW t \in 0..Duration,
                      Increasing(data.partials[p]["time"]), InTimeRange(p, t),
                      NEW j \in DOMAIN data.partials[p]["time"]
               PROVE Distance(t, data.partials[p]["time"][NearestIndex(p, t)])
                         <= Distance(t, data.partials[p]["time"][j])
      BY DEF NearestIsNearest
  <2> DEFINE times == data.partials[p]["time"]
             i == IndexAfter(times, t)
  <2>1. times \in Seq(0..Huge) /\ data.stats.partialTimeRanges[p] = Extrema(times)
      BY PartialInUse
  <2>2. Extrema(times)[1] <= t /\ t < Extrema(times)[2]
      BY <2>1 DEF InTimeRange, Within
  <2>3. t \in Nat
      BY PartialsAssumption
  <2>4. Increasing(times) /\ j \in DOMAIN times
      OBVIOUS
  <2>5. NearestIndex(p, t) = IF t - times[i - 1] < times[i] - t THEN i - 1 ELSE i
      BY DEF NearestIndex
  <2> HIDE DEF times
  <2>6. i \in 2..Len(times) /\ times[i - 1] <= t /\ t < times[i]
      BY <2>1, <2>2, <2>3, <2>4, IndexFound
  <2> HIDE DEF i
  <2>7. /\ j \in 1..Len(times) /\ times[j] \in Nat /\ i - 1 \in 1..Len(times) /\ i \in 1..Len(times)
        /\ times[i - 1] \in Nat /\ times[i] \in Nat /\ Len(times) \in Nat
    <3>1. Len(times) \in Nat /\ DOMAIN times = 1..Len(times) /\ \A k \in 1..Len(times) : times[k] \in 0..Huge
        BY <2>1, Elements
    <3>2. i - 1 \in 1..Len(times) /\ i \in 1..Len(times)
        BY <2>6, <3>1
    <3> QED BY <2>4, <3>1, <3>2
  <2>8. times[j] <= times[i - 1] \/ times[i] <= times[j]
    <3>1. j < i - 1 \/ j = i - 1 \/ j = i \/ i < j
        BY <2>6, <2>7
    <3>2. DOMAIN times = 1..Len(times)
        BY <2>1
    <3>3. CASE j < i - 1
        BY <2>4, <2>7, <3>2, <3>3 DEF Increasing
    <3>4. CASE i < j
        BY <2>4, <2>7, <3>2, <3>4 DEF Increasing
    <3>5. CASE j = i - 1 \/ j = i
        BY <2>7, <3>5
    <3> QED BY <3>1, <3>3, <3>4, <3>5
  <2> DEFINE a == times[i - 1]
             b == times[i]
             c == times[j]
             nearest == times[NearestIndex(p, t)]
  <2>9. nearest = IF t - a < b - t THEN a ELSE b
      BY <2>5
  <2>10. a \in Nat /\ b \in Nat /\ c \in Nat /\ a <= t /\ t < b /\ (c <= a \/ b <= c)
      BY <2>6, <2>7, <2>8
  <2> HIDE DEF a, b, c, nearest
  <2>11. Distance(t, nearest) <= Distance(t, c)
      BY <2>3, <2>9, <2>10 DEF Distance
  <2> QED BY <2>11 DEF nearest, c, times
<1> QED BY <1>1, StatsInvariance, PTL

\* Multiplying keeps an order.
LEMMA TimesKeepsOrder ==
    ASSUME NEW a \in Nat, NEW b \in Nat, a <= b, NEW x \in Nat
    PROVE a * x <= b * x
<1>1. PICK d \in Nat : b = a + d
  <2>1. b - a \in Nat /\ b = a + (b - a)
      OBVIOUS
  <2> QED BY <2>1
<1>2. b * x = a * x + d * x
    BY <1>1
<1>3. d * x \in Nat /\ a * x \in Nat
    OBVIOUS
<1> QED BY <1>2, <1>3

\* A weighted sum lies between the least and the greatest value.
LEMMA WeightedSum ==
    ASSUME NEW a \in Nat, NEW b \in Nat, NEW x \in Nat, NEW y \in Nat
    PROVE /\ a * y + b * x >= Min({a, b}) * (x + y)
          /\ a * y + b * x <= Max({a, b}) * (x + y)
          /\ x = 0 => a * y + b * x = a * (x + y)
<1>1. /\ Min({a, b}) \in {a, b} /\ Min({a, b}) <= a /\ Min({a, b}) <= b
      /\ Max({a, b}) \in {a, b} /\ a <= Max({a, b}) /\ b <= Max({a, b})
  <2>1. {a, b} \subseteq 0..(a + b) /\ a + b \in Nat /\ {a, b} # {}
      OBVIOUS
  <2>2. /\ Min({a, b}) \in {a, b} /\ \A z \in {a, b} : Min({a, b}) <= z
        /\ Max({a, b}) \in {a, b} /\ \A z \in {a, b} : z <= Max({a, b})
      BY <2>1, MinMax
  <2> QED BY <2>2
<1> DEFINE m == Min({a, b})
           M == Max({a, b})
<1>2. m \in Nat /\ M \in Nat /\ m <= a /\ m <= b /\ a <= M /\ b <= M
    BY <1>1
<1> HIDE DEF m, M
<1>3. m * y <= a * y /\ m * x <= b * x /\ a * y <= M * y /\ b * x <= M * x
    BY <1>2, TimesKeepsOrder
<1>4. /\ m * y \in Nat /\ m * x \in Nat /\ M * y \in Nat /\ M * x \in Nat
      /\ a * y \in Nat /\ b * x \in Nat
    BY <1>2
<1>5. m * (x + y) = m * x + m * y /\ M * (x + y) = M * x + M * y
    BY <1>2
<1>6. a * y + b * x >= m * (x + y) /\ a * y + b * x <= M * (x + y)
    BY <1>3, <1>4, <1>5
<1>7. x = 0 => a * y + b * x = a * (x + y)
    OBVIOUS
<1> QED BY <1>6, <1>7 DEF m, M

\* Where the times of a partial increase, it is active from its first
\* breakpoint up to its last, exclusive; getPartialFrame() gives the breakpoint
\* at its time, and between two of them something between them.
THEOREM FramesInterpolateAll == Spec => []FramesInterpolate
<1>1. StatsInvariant => FramesInterpolate
  <2> DEFINE Looked(p, t, times, amps) ==
                 /\ InTimeRange(p, t) <=> times[1] <= t /\ t < times[Len(times)]
                 /\ InTimeRange(p, t) =>
                        LET frame == FrameAt(p, t, "amp") IN
                        \E i \in 1..Len(times) - 1 :
                            /\ times[i] <= t /\ t < times[i + 1]
                            /\ t = times[i] => frame[1] = amps[i] * frame[2]
                            /\ frame[2] > 0
                            /\ frame[1] >= Min({amps[i], amps[i + 1]}) * frame[2]
                            /\ frame[1] <= Max({amps[i], amps[i + 1]}) * frame[2]
  <2> SUFFICES ASSUME StatsInvariant PROVE FramesInterpolate
      OBVIOUS
  <2>1. ASSUME NEW p \in DOMAIN data.partials, NEW t \in 0..Duration,
               Len(data.partials[p]["time"]) > 1, Increasing(data.partials[p]["time"])
        PROVE Looked(p, t, data.partials[p]["time"], data.partials[p]["amp"])
    <3> DEFINE times == data.partials[p]["time"]
               amps == data.partials[p]["amp"]
    <3>1. /\ times \in Seq(0..Huge) /\ p \in 1..data.stats.nPartials
          /\ data.stats.partialTimeRanges[p] = Extrema(times)
        BY PartialInUse
    <3>2. amps \in Seq(0..Huge) /\ Len(amps) = Len(times)
      <4>1. data.partials[p] \in Partial /\ "amp" \in Parts
          BY PartialInUse, PartialType
      <4> QED BY <4>1, PartialType
    <3>3. Increasing(times) /\ Len(times) > 1
        BY <2>1
    <3>4. t \in Nat
        BY PartialsAssumption
    <3>5. \A i : i = IndexAfter(times, t) =>
              FrameAt(p, t, "amp") = <<amps[i - 1] * (times[i] - t) + amps[i] * (t - times[i - 1]),
                                       (t - times[i - 1]) + (times[i] - t)>>
        BY DEF FrameAt
    <3> HIDE DEF times, amps
    <3>6. times # <<>>
        BY <3>3
    <3>7. Extrema(times)[1] = times[1] /\ Extrema(times)[2] = times[Len(times)]
        BY <3>1, <3>3, <3>6, IncreasingExtrema
    <3>8. InTimeRange(p, t) <=> times[1] <= t /\ t < times[Len(times)]
        BY <3>1, <3>7 DEF InTimeRange, Within
    <3>9. ASSUME InTimeRange(p, t)
          PROVE \E k \in 1..Len(times) - 1 :
                    /\ times[k] <= t /\ t < times[k + 1]
                    /\ t = times[k] => FrameAt(p, t, "amp")[1] = amps[k] * FrameAt(p, t, "amp")[2]
                    /\ FrameAt(p, t, "amp")[2] > 0
                    /\ FrameAt(p, t, "amp")[1]
                           >= Min({amps[k], amps[k + 1]}) * FrameAt(p, t, "amp")[2]
                    /\ FrameAt(p, t, "amp")[1]
                           <= Max({amps[k], amps[k + 1]}) * FrameAt(p, t, "amp")[2]
      <4> DEFINE i == IndexAfter(times, t)
      <4>1. i \in 2..Len(times) /\ times[i - 1] <= t /\ t < times[i]
        <5>1. Extrema(times)[1] <= t /\ t < Extrema(times)[2]
            BY <3>1, <3>9 DEF InTimeRange, Within
        <5> QED BY <3>1, <3>3, <3>4, <5>1, IndexFound
      <4>2. FrameAt(p, t, "amp") = <<amps[i - 1] * (times[i] - t) + amps[i] * (t - times[i - 1]),
                                     (t - times[i - 1]) + (times[i] - t)>>
          BY <3>5
      <4> HIDE DEF i
      <4>3. Len(times) \in Nat /\ \A j \in 1..Len(times) : times[j] \in 0..Huge /\ amps[j] \in 0..Huge
          BY <3>1, <3>2, Elements
      <4>4. i - 1 \in 1..Len(times) - 1 /\ i - 1 \in 1..Len(times) /\ i \in 1..Len(times)
            /\ (i - 1) + 1 = i
          BY <4>1, <4>3
      <4> DEFINE a == amps[i - 1]
                 b == amps[i]
                 x == t - times[i - 1]
                 y == times[i] - t
      <4>5. /\ a \in Nat /\ b \in Nat
            /\ times[i - 1] \in Nat /\ times[i] \in Nat
          BY <4>3, <4>4
      <4>6. x \in Nat /\ y \in Nat /\ y > 0 /\ (t = times[i - 1] => x = 0)
          BY <3>4, <4>1, <4>5
      <4>7. FrameAt(p, t, "amp")[1] = a * y + b * x /\ FrameAt(p, t, "amp")[2] = x + y
          BY <4>2
      <4> HIDE DEF a, b, x, y
      <4>8. /\ a * y + b * x >= Min({a, b}) * (x + y)
            /\ a * y + b * x <= Max({a, b}) * (x + y)
            /\ x = 0 => a * y + b * x = a * (x + y)
        <5>1. a \in Nat /\ b \in Nat /\ x \in Nat /\ y \in Nat
            BY <4>5, <4>6
        <5> QED BY ONLY <5>1, WeightedSum
      <4>9. x + y > 0
          BY <4>6
      <4> DEFINE k == i - 1
      <4>10. /\ k \in 1..Len(times) - 1
             /\ amps[k] = a /\ amps[k + 1] = b /\ times[k + 1] = times[i] /\ times[k] = times[i - 1]
          BY <4>4 DEF a, b
      <4> HIDE DEF k
      <4>11. /\ times[k] <= t /\ t < times[k + 1]
             /\ t = times[k] => FrameAt(p, t, "amp")[1] = amps[k] * FrameAt(p, t, "amp")[2]
          BY <4>1, <4>6, <4>7, <4>8, <4>10
      <4>12. FrameAt(p, t, "amp")[2] > 0
          BY <4>7, <4>9
      <4>13. /\ FrameAt(p, t, "amp")[1] >= Min({amps[k], amps[k + 1]}) * FrameAt(p, t, "amp")[2]
             /\ FrameAt(p, t, "amp")[1] <= Max({amps[k], amps[k + 1]}) * FrameAt(p, t, "amp")[2]
          BY <4>7, <4>8, <4>10
      <4> QED BY <4>10, <4>11, <4>12, <4>13
    <3> QED BY <3>8, <3>9 DEF times, amps
  <2>2. ASSUME NEW p \in DOMAIN data.partials, NEW i \in 1..Len(data.partials[p]["time"])
        PROVE FrameByIndex(p, i, "amp") = data.partials[p]["amp"][i]
    <3>1. data.partials[p]["time"] \in Seq(0..Huge) /\ p \in 1..data.stats.nPartials
        BY PartialInUse
    <3>2. i \in DOMAIN data.partials[p]["time"]
        BY <3>1
    <3> QED BY <3>1, <3>2 DEF FrameByIndex
  <2> SUFFICES ASSUME NEW p \in DOMAIN data.partials, NEW t \in 0..Duration,
                        Len(data.partials[p]["time"]) > 1, Increasing(data.partials[p]["time"])
                 PROVE LET times == data.partials[p]["time"]
                           Amp(i) == FrameByIndex(p, i, "amp")
                       IN
                       /\ InTimeRange(p, t) <=> times[1] <= t /\ t < times[Len(times)]
                       /\ InTimeRange(p, t) =>
                              LET frame == FrameAt(p, t, "amp") IN
                              \E i \in 1..Len(times) - 1 :
                                  /\ times[i] <= t /\ t < times[i + 1]
                                  /\ t = times[i] => frame[1] = Amp(i) * frame[2]
                                  /\ frame[2] > 0
                                  /\ frame[1] >= Min({Amp(i), Amp(i + 1)}) * frame[2]
                                  /\ frame[1] <= Max({Amp(i), Amp(i + 1)}) * frame[2]
      BY DEF FramesInterpolate
  <2>3. Looked(p, t, data.partials[p]["time"], data.partials[p]["amp"])
      BY <2>1
  <2>4. Len(data.partials[p]["time"]) \in Nat
    <3>1. data.partials[p]["time"] \in Seq(0..Huge)
        BY PartialInUse
    <3> QED BY <3>1
  <2>5. \A i \in 1..Len(data.partials[p]["time"]) - 1 :
            /\ FrameByIndex(p, i, "amp") = data.partials[p]["amp"][i]
            /\ FrameByIndex(p, i + 1, "amp") = data.partials[p]["amp"][i + 1]
    <3>1. \A i \in 1..Len(data.partials[p]["time"]) - 1 :
              i \in 1..Len(data.partials[p]["time"]) /\ i + 1 \in 1..Len(data.partials[p]["time"])
        BY <2>4
    <3> QED BY <2>2, <3>1
  <2> QED BY <2>3, <2>5
<1> QED BY <1>1, StatsInvariance, PTL
=============================================================================
