------------------------- MODULE VutuPlaybackProofs -------------------------
(***************************************************************************)
(* Proof that only three things can make processVector() read from outside *)
(* the sample it plays: a start of playback within a vector, a sample that *)
(* is replaced within a vector, and too short a sample or interval.  The   *)
(* audio thread may run within any handler, and no constant is bound.      *)
(***************************************************************************)
EXTENDS VutuPlayback, VutuAppProofs
-----------------------------------------------------------------------------
(***************************************************************************)
(* Arithmetic.                                                             *)
(***************************************************************************)
\* An interval ends no later than the sample does.
LEMMA EndInside ==
    ASSUME NEW frames \in Nat, NEW iv \in Intervals
    PROVE  EndFrame(frames, iv) <= frames
<1>1. iv[2] \in Nat /\ iv[2] <= Den /\ Den \in Nat \ {0}
  BY ParamAssumption, FrameAssumption
<1>2. frames * iv[2] \in Nat /\ frames * Den \in Nat
  BY <1>1
<1>3. frames * iv[2] <= frames * Den
  BY <1>1, SMTT(30)
<1>4. \A x, z \in Nat, y \in Nat \ {0} : x <= z * y => x \div y <= z
  BY SMTT(30)
<1> QED
  BY <1>1, <1>2, <1>3, <1>4 DEF EndFrame

\* The whole of a sample.
LEMMA FullEnd ==
    ASSUME NEW frames \in Nat
    PROVE  EndFrame(frames, FullInterval) = frames
<1>1. \A x \in Nat, y \in Nat \ {0} : (x * y) \div y = x
  BY SMTT(30)
<1> QED
  BY <1>1, FrameAssumption DEF EndFrame, FullInterval

\* Where each sample is played from and to.
LEMMA PlayedParts ==
    ASSUME TypeOK
    PROVE  /\ StartOf("source") \in Nat /\ FrameEndOf("source") \in Nat
           /\ procSource.frames \in Nat /\ FrameEndOf("source") <= procSource.frames
           /\ StartOf("synth") = 0
           /\ synthSample.frames \in Nat /\ FrameEndOf("synth") = synthSample.frames
<1> DEFINE iv == procParams["analysis_interval"]
<1>1. /\ procSource.frames \in Nat /\ synthSample.frames \in Nat /\ iv \in Intervals
  BY IntervalParam DEF TypeOK, ProcessorTypeOK, ActorsTypeOK, Sample
<1> HIDE DEF iv
<1>2. /\ StartFrame(procSource.frames, iv) \in Nat /\ EndFrame(procSource.frames, iv) \in Nat
      /\ EndFrame(procSource.frames, iv) <= procSource.frames
  BY <1>1, FramesType, EndInside
<1>3. EndFrame(synthSample.frames, FullInterval) = synthSample.frames
  BY <1>1, FullEnd
<1> QED
  BY <1>1, <1>2, <1>3 DEF StartOf, FrameEndOf, iv

\* While the end is not reached, another vector fits in before it.
LEMMA NotAtEnd ==
    ASSUME ProcessorTypeOK, audio.frameEnd >= VectorSize, ~AtEnd
    PROVE  playbackSampleIdx + VectorSize <= audio.frameEnd
<1> DEFINE n == audio.frameEnd - VectorSize
<1>1. n \in Nat /\ SizeMod \in Nat \ {0} /\ playbackSampleIdx \in Nat
      /\ VectorSize \in Nat /\ audio.frameEnd \in Nat
  BY FrameAssumption DEF ProcessorTypeOK
<1>2. \A x \in Nat, y \in Nat \ {0} : x % y \in Nat /\ x % y <= x
  BY SMTT(30)
<1>3. n % SizeMod \in Nat /\ n % SizeMod <= n
  BY <1>1, <1>2
<1>4. playbackSampleIdx < n % SizeMod
  BY <1>1, <1>3 DEF AtEnd, SizeMinus
<1> QED
  BY <1>1, <1>3, <1>4
-----------------------------------------------------------------------------
(***************************************************************************)
(* What is on its way to the processor.                                    *)
(***************************************************************************)
\* A message stays pending when others are sent ...
LEMMA PendingSend ==
    ASSUME ActorsTypeOK, NEW what, Pending(what),
           NEW a \in Seq(ProcMsg), procMail' = procMail \o a
    PROVE  Pending(what)'
<1>1. PICK i \in 1..Len(procMail) :
         procMail[i].type = "set_data" /\ procMail[i].what = what
  BY DEF Pending, At
<1>2. i \in 1..Len(procMail') /\ procMail'[i] = procMail[i]
  BY <1>1, ConcatProperties DEF ActorsTypeOK
<1> QED
  BY <1>1, <1>2 DEF Pending, At

\* ... and is pending once it has been sent.
LEMMA PendingSent ==
    ASSUME ActorsTypeOK, NEW a \in Seq(ProcMsg), NEW i \in 1..Len(a), NEW what,
           a[i] = SetData(what), procMail' = procMail \o a
    PROVE  Pending(what)'
<1> DEFINE j == Len(procMail) + i
<1>1. j \in 1..Len(procMail') /\ procMail'[j] = SetData(what)
  <2>1. procMail \in Seq(ProcMsg)
    BY DEF ActorsTypeOK
  <2>2. /\ Len(procMail \o a) = Len(procMail) + Len(a)
        /\ \A k \in 1..Len(a) : (procMail \o a)[Len(procMail) + k] = a[k]
    BY <2>1, ConcatProperties
  <2>3. Len(procMail) \in Nat /\ Len(a) \in Nat
    BY <2>1
  <2> QED
    BY <2>2, <2>3
<1>2. procMail'[j].type = "set_data" /\ procMail'[j].what = what
  BY <1>1 DEF SetData, DataMsg
<1> HIDE DEF j
<1>3. j \in At(procMail', "set_data")
  BY <1>1, <1>2 DEF At
<1> QED
  BY <1>2, <1>3 DEF Pending

\* It stays pending while the processor handles another message.
LEMMA PendingHandle ==
    ASSUME ActorsTypeOK, NEW what, Pending(what), procMail # <<>>,
           procMail' = Tail(procMail),
           Head(procMail).type # "set_data" \/ Head(procMail).what # what
    PROVE  Pending(what)'
<1>1. PICK i \in 1..Len(procMail) :
         procMail[i].type = "set_data" /\ procMail[i].what = what
  BY DEF Pending, At
<1>2. i # 1
  BY <1>1
<1>3. i - 1 \in 1..Len(procMail') /\ procMail'[i - 1] = procMail[i]
  BY <1>1, <1>2, HeadTailProperties DEF ActorsTypeOK
<1> QED
  BY <1>1, <1>3 DEF Pending, At

\* A change of the synthesized sample is always announced to the processor,
\* and the controller takes no announcement back.
LEMMA SynthAnnounced ==
    ASSUME ActorsTypeOK, ControllerTypeOK, ControllerNext
    PROVE  /\ Pending("synth") => Pending("synth")'
           /\ synthSample' = synthSample \/ Pending("synth")'
<1>1. \A a \in Seq(ProcMsg) :
         procMail' = procMail \o a => (Pending("synth") => Pending("synth")')
  BY PendingSend
<1>2. \A a, b \in Seq(ProcMsg) : \A i \in 1..Len(a) :
         a[i] = SetData("synth") /\ procMail' = procMail \o (a \o b)
             => Pending("synth")'
  <2> SUFFICES ASSUME NEW a \in Seq(ProcMsg), NEW b \in Seq(ProcMsg),
                      NEW i \in 1..Len(a), a[i] = SetData("synth"),
                      procMail' = procMail \o (a \o b)
               PROVE  Pending("synth")'
    OBVIOUS
  <2> DEFINE c == a \o b
  <2>1. c \in Seq(ProcMsg) /\ i \in 1..Len(c) /\ c[i] = SetData("synth")
    BY ConcatProperties
  <2> QED
    BY <2>1, PendingSent
<1>3. CASE CtlSetParam \/ CtlSetTime \/ CtlToggle \/ CtlStarted \/ CtlStopped
  <2>1. synthSample' = synthSample
    BY <1>3 DEF CtlSetParam, CtlSetTime, CtlToggle, CtlStarted, CtlStopped, samples
  <2>2. \E a \in Seq(ProcMsg) : procMail' = procMail \o a
    <3>1. CASE CtlSetParam
      <4> DEFINE m == Head(ctlMail)
      <4>1. m.param \in ParamNames /\ m.value \in ParamValues(m.param)
        BY <3>1, ReceivedParam, ParamMsgFields DEF CtlSetParam
      <4>2. ParamMsgs(m.param, m.value) \in Seq(ProcMsg)
        BY <4>1, ParamMsgsType
      <4> QED
        BY <3>1, <4>2 DEF CtlSetParam, Send
    <3>2. CASE CtlSetTime \/ CtlStarted \/ CtlStopped
      <4>1. <<>> \in Seq(ProcMsg)
        BY ShortSeqs
      <4> QED
        BY <3>2, <4>1 DEF CtlSetTime, CtlStarted, CtlStopped, Send
    <3>3. CASE CtlToggle
      <4>1. \A w \in Playable : Toggle(w) \in ProcMsg
        BY DEF Toggle, ProcMsg
      <4>2. <<Toggle("source")>> \in Seq(ProcMsg) /\ <<Toggle("synth")>> \in Seq(ProcMsg)
        BY <4>1, ShortSeqs DEF Playable
      <4> QED
        BY <3>3, <4>2 DEF CtlToggle, Send
    <3> QED
      BY <1>3, <3>1, <3>2, <3>3
  <2> QED
    BY <1>1, <2>1, <2>2
<1>4. CASE UNCHANGED <<procMail, synthSample>>
  BY <1>4 DEF Pending, At
<1>5. \A n \in Nat : LET data == <<SetData("source"), SetPartials(n), SetData("synth")>>
                     IN  /\ data \in Seq(ProcMsg)
                         /\ 3 \in 1..Len(data) /\ data[3] = SetData("synth")
  BY DataSeqs
<1>6. CASE CtlOpen
  <2>1. vutuPartials'.id \in Nat
    BY <1>6, CtlOpenTypes DEF ControllerTypeOK, VutuPartials
  <2>2. procMail' = procMail \o (<<SetData("source"), SetPartials(vutuPartials'.id),
                                   SetData("synth")>> \o IntervalReset)
    BY <1>6 DEF CtlOpen, Send, PartialsBroadcast
  <2> QED
    BY <1>2, <1>5, <2>1, <2>2, IntervalResetType
<1>7. CASE \E any \in BOOLEAN, d \in FileDurations, f \in Fundamentals :
               CtlImport /\ ImportPartials(any, d, f)
  <2>1. PICK any \in BOOLEAN, d \in FileDurations, f \in Fundamentals :
                 CtlImport /\ ImportPartials(any, d, f)
    BY <1>7
  <2> DEFINE params == ParamMsgs("fundamental", f) \o IntervalReset
  <2>2. params \in Seq(ProcMsg)
    BY ParamMsgsType, IntervalResetType, ConcatType DEF ParamNames, ParamValues
  <2>3. vutuPartials'.id \in Nat
    BY <2>1, CtlImportTypes DEF ControllerTypeOK, VutuPartials
  <2>4. procMail' = procMail \o (<<SetData("source"), SetPartials(vutuPartials'.id),
                                   SetData("synth")>> \o params)
    BY <2>1 DEF ImportPartials, Send, PartialsBroadcast
  <2> HIDE DEF params
  <2> QED
    BY <1>2, <1>5, <2>2, <2>3, <2>4
<1>8. CASE CtlAnalyze
  <2> DEFINE a == <<SetPartials(vutuPartials'.id), SetData("synth")>>
  <2>1. vutuPartials'.id \in Nat
    BY <1>8, CtlAnalyzeTypes DEF ControllerTypeOK, VutuPartials
  <2>2. a \in Seq(ProcMsg) /\ 2 \in 1..Len(a) /\ a[2] = SetData("synth")
    BY <2>1, DataSeqs
  <2>3. procMail' = procMail \o a
    BY <1>8 DEF CtlAnalyze, Send, PartialsBroadcast
  <2> HIDE DEF a
  <2> QED
    BY <2>2, <2>3, PendingSent
<1>9. CASE CtlSynthesize
  <2> DEFINE a == <<SetData("synth")>>
  <2>1. a \in Seq(ProcMsg) /\ 1 \in 1..Len(a) /\ a[1] = SetData("synth")
    BY DataSeqs
  <2>2. procMail' = procMail \o a
    BY <1>9 DEF CtlSynthesize, Send
  <2> HIDE DEF a
  <2> QED
    BY <2>1, <2>2, PendingSent
<1>10. CASE CtlExport \/ CtlExportSynth
  BY <1>4, <1>10 DEF CtlExport, CtlExportSynth, samples
<1>11. CASE CtlImport
  BY <1>4, <1>7, <1>11 DEF CtlImport, samples
<1> QED
  BY <1>3, <1>6, <1>8, <1>9, <1>10, <1>11 DEF ControllerNext
-----------------------------------------------------------------------------
(***************************************************************************)
(* The invariant, step by step, while none of that happens.                *)
(***************************************************************************)
Undisturbed == ~StartOverlaps /\ PlayedIsLong

\* Once within a sample, always, but for changes of it that are announced.
LEMMA WithinStays ==
    ASSUME UNCHANGED procSource, UNCHANGED synthSample \/ Pending("synth")',
           Pending("synth") => Pending("synth")', NEW w, NEW frame, Within(w, frame)
    PROVE  Within(w, frame)'
BY DEF Within

\* Nor does what plays change ...
LEMMA OthersKeep ==
    ASSUME TypeOK, PlaybackInv, UNCHANGED procVars,
           UNCHANGED synthSample \/ Pending("synth")',
           Pending("synth") => Pending("synth")'
    PROVE  PlaybackInv'
<1>1. UNCHANGED <<playbackState, playbackSampleIdx, procSource, toggling, arming, audio>>
  BY DEF procVars
<1>2. \A w, frame : Within(w, frame) => Within(w, frame)'
  BY <1>1, WithinStays
<1>3. ArmedInv'
  BY <1>1 DEF PlaybackInv, ArmedInv, Usable
<1>4. NextVectorInv'
  <2> DEFINE next == playbackSampleIdx + VectorSize
  <2>1. Within(playbackState, next) => Within(playbackState, next)'
    BY <1>1, <1>2 DEF Within
  <2> QED
    BY <1>1, <2>1 DEF PlaybackInv, NextVectorInv, Within
<1>5. FrameEndInv'
  <2>1. /\ Within(audio.which, audio.frameEnd) => Within(audio.which, audio.frameEnd)'
        /\ Within(audio.which, playbackSampleIdx + VectorSize)
               => Within(audio.which, playbackSampleIdx + VectorSize)'
    BY <1>1, <1>2 DEF Within
  <2> QED
    BY <1>1, <2>1 DEF PlaybackInv, FrameEndInv, Within
<1> QED
  BY <1>3, <1>4, <1>5 DEF PlaybackInv

\* The handlers of the processor: new data stop playback, a toggle starts it
\* at a frame from which a vector fits.
LEMMA MainKeeps ==
    ASSUME TypeOK, PlaybackInv, Undisturbed, Undisturbed', ~ReplacedWithin, Processor
    PROVE  PlaybackInv'
<1> USE DEF TypeOK
<1>1. ProcessorMain
  BY DEF Processor
<1>2. ASSUME NEW type, Handle(type)
      PROVE  /\ toggling = "none" /\ arming = "none"
             /\ procMail # <<>> /\ procMail' = Tail(procMail)
             /\ Head(procMail).type = type
  BY <1>2 DEF Handle, NotToggling, IsNext
<1>3. CASE ProcSetParam \/ ProcIgnorePartials
  <2>1. /\ procMail # <<>> /\ procMail' = Tail(procMail)
        /\ Head(procMail).type # "set_data"
    BY <1>2, <1>3 DEF ProcSetParam, ProcIgnorePartials
  <2>2. Pending("synth") => Pending("synth")'
    BY <2>1, PendingHandle
  <2>3. UNCHANGED <<samples, playbackState, playbackSampleIdx, procSource, toggling,
                    arming, audio>>
    BY <1>3 DEF ProcSetParam, ProcIgnorePartials, procVars
  <2>4. \A w, frame : Within(w, frame) => Within(w, frame)'
    BY <2>2, <2>3, WithinStays DEF samples
  <2>5. ArmedInv'
    BY <2>3 DEF PlaybackInv, ArmedInv, Usable
  <2>6. NextVectorInv'
    BY <2>3, <2>4 DEF PlaybackInv, NextVectorInv, Within, samples
  <2>7. FrameEndInv'
    BY <2>2, <2>3, <2>4 DEF PlaybackInv, FrameEndInv, Within, samples
  <2> QED
    BY <2>5, <2>6, <2>7 DEF PlaybackInv
<1>4. CASE ProcSetData
  <2>1. audio.pc = "idle" /\ audio' = audio /\ playbackState' = "off"
        /\ toggling' = "none" /\ arming' = "none"
    BY <1>2, <1>4 DEF ProcSetData, ReplacedWithin
  <2> QED
    BY <2>1 DEF PlaybackInv, ArmedInv, NextVectorInv, FrameEndInv, Within
<1>5. CASE ProcToggle
  <2>1. /\ arming = "none" /\ arming' = "none" /\ playbackState' = "off"
        /\ UNCHANGED <<samples, procSource, audio>>
        /\ playbackSampleIdx' \in {0, playbackSampleIdx}
        /\ toggling' \in {"none", Head(procMail).which}
        /\ toggling' # "none" => HasFrames(toggling')
    BY <1>2, <1>5 DEF ProcToggle
  <2>2. Pending("synth") => Pending("synth")'
    BY <1>2, <1>5, PendingHandle DEF ProcToggle
  <2>3. \A w, frame : Within(w, frame) => Within(w, frame)'
    BY <2>1, <2>2, WithinStays DEF samples
  <2>4. ArmedInv'
    BY <2>1 DEF ArmedInv, HasFrames, Usable
  <2>5. NextVectorInv'
    BY <2>1 DEF NextVectorInv, Within
  <2>6. FrameEndInv'
    <3>1. /\ playbackSampleIdx \in Nat /\ VectorSize \in Nat
          /\ procSource.frames \in Nat /\ synthSample.frames \in Nat
      BY FrameAssumption DEF ProcessorTypeOK, ActorsTypeOK, Sample
    <3>2. /\ audio.pc = "load" => Within(audio.which, playbackSampleIdx' + VectorSize)
          /\ audio.pc \in {"load", "check"} =>
                 /\ Within(audio.which, audio.frameEnd)
                 /\ \/ audio.frameEnd >= VectorSize
                    \/ audio.which = "synth" /\ Pending("synth")
      BY <2>1, <3>1 DEF PlaybackInv, FrameEndInv, Within
    <3> QED
      BY <2>1, <2>2, <2>3, <3>2 DEF FrameEndInv, Within, samples
  <2> QED
    BY <2>4, <2>5, <2>6 DEF PlaybackInv
<1>6. CASE ProcToggleSet
  <2>1. /\ toggling # "none" /\ playbackState' = toggling /\ arming' = toggling
        /\ toggling' = "none"
        /\ UNCHANGED <<mail, samples, playbackSampleIdx, procSource, audio>>
    BY <1>6 DEF ProcToggleSet
  <2>2. audio.pc = "idle"
    BY <2>1 DEF Undisturbed, StartOverlaps
  <2> QED
    BY <2>1, <2>2 DEF PlaybackInv, ArmedInv, NextVectorInv, FrameEndInv, Usable
<1>7. CASE ProcToggleStart
  <2>1. /\ arming \in Playable /\ arming = playbackState /\ audio.pc = "idle"
        /\ arming' = "none"
        /\ UNCHANGED <<procMail, samples, playbackState, toggling, procSource, audio>>
        /\ playbackSampleIdx' = StartOf(arming)
    BY <1>7 DEF ProcToggleStart, PlaybackInv, ArmedInv, ProcessorTypeOK, Undisturbed,
       StartOverlaps
  <2>2. ArmedInv' /\ FrameEndInv'
    BY <2>1 DEF PlaybackInv, ArmedInv, FrameEndInv, Usable
  <2>3. Within(arming, StartOf(arming) + VectorSize)
    <3>1. \/ StartOf(arming) + VectorSize <= FrameEndOf(arming)
          \/ arming = "synth" /\ Pending("synth")
      BY <2>1 DEF Undisturbed, PlayedIsLong
    <3> QED
      BY <2>1, <3>1, PlayedParts, FrameAssumption DEF Within, Playable
  <2>4. NextVectorInv'
    BY <2>1, <2>3 DEF NextVectorInv, Within, samples, Pending, At
  <2> QED
    BY <2>2, <2>4 DEF PlaybackInv
<1> QED
  BY <1>1, <1>3, <1>4, <1>5, <1>6, <1>7 DEF ProcessorMain

\* processVector(): after the test for the end either playback stops or the
\* next vector fits.
LEMMA AudioKeeps ==
    ASSUME TypeOK, PlaybackInv, Undisturbed, Undisturbed', Audio
    PROVE  PlaybackInv'
<1> USE DEF TypeOK
<1>1. ProcessorAudio
  BY DEF Audio
<1>2. /\ UNCHANGED <<procMail, samples, procSource, toggling, arming>>
      /\ Pending("synth")' <=> Pending("synth")
  BY <1>1 DEF ProcessorAudio, VectorSilent, VectorBegin, VectorLoad, VectorCheck,
     VectorStop, VectorReport, mail, procVars, Pending, At
<1>3. CASE VectorSilent
  BY <1>2, <1>3, OthersKeep DEF VectorSilent, samples
<1>4. CASE VectorBegin
  <2>1. /\ playbackState \in Playable /\ audio.pc = "idle"
        /\ UNCHANGED <<playbackState, playbackSampleIdx>>
        /\ audio'.pc = "load" /\ audio'.which = playbackState
        /\ audio'.frameEnd = FrameEndOf(playbackState)
    BY <1>4 DEF VectorBegin, ProcessorTypeOK
  <2>2. arming = "none"
    BY <1>2, <2>1 DEF Undisturbed, StartOverlaps
  <2>3. Within(playbackState, playbackSampleIdx + VectorSize)
    BY <2>1, <2>2 DEF PlaybackInv, NextVectorInv
  <2>4. /\ Within(playbackState, FrameEndOf(playbackState))
        /\ \/ FrameEndOf(playbackState) >= VectorSize
           \/ playbackState = "synth" /\ Pending("synth")
    <3>1. \/ StartOf(playbackState) + VectorSize <= FrameEndOf(playbackState)
          \/ playbackState = "synth" /\ Pending("synth")
      BY <2>1 DEF Undisturbed, PlayedIsLong
    <3> QED
      BY <2>1, <3>1, PlayedParts, FrameAssumption DEF Within, Playable
  <2>5. ArmedInv' /\ NextVectorInv'
    BY <1>2, <2>1, <2>3 DEF PlaybackInv, ArmedInv, NextVectorInv, Within, Usable, samples
  <2>6. FrameEndInv'
    BY <1>2, <2>1, <2>3, <2>4 DEF FrameEndInv, Within, samples
  <2> QED
    BY <2>5, <2>6 DEF PlaybackInv
<1>5. CASE VectorLoad
  <2>1. /\ audio.pc = "load" /\ UNCHANGED playbackState
        /\ audio'.pc = "check" /\ audio'.which = audio.which
        /\ audio'.frameEnd = audio.frameEnd
    BY <1>5 DEF VectorLoad, ProcessorTypeOK
  <2>2. ArmedInv' /\ NextVectorInv'
    BY <1>2, <2>1 DEF PlaybackInv, ArmedInv, NextVectorInv, Usable
  <2>3. FrameEndInv'
    BY <1>2, <2>1 DEF PlaybackInv, FrameEndInv, Within, samples
  <2> QED
    BY <2>2, <2>3 DEF PlaybackInv
<1>6. CASE VectorCheck
  <2>1. /\ audio.pc = "check" /\ UNCHANGED <<playbackState, playbackSampleIdx>>
        /\ audio'.pc = (IF AtEnd THEN "stop" ELSE "report")
        /\ audio'.which = audio.which
    BY <1>6 DEF VectorCheck, ProcessorTypeOK
  <2>2. ArmedInv' /\ FrameEndInv'
    BY <1>2, <2>1 DEF PlaybackInv, ArmedInv, FrameEndInv, Usable
  <2>3. NextVectorInv'
    <3>1. CASE AtEnd
      BY <2>1, <3>1 DEF NextVectorInv
    <3>2. CASE ~AtEnd
      <4>1. Within(audio.which, audio.frameEnd)
        BY <2>1 DEF PlaybackInv, FrameEndInv
      <4>2. \/ playbackSampleIdx + VectorSize <= audio.frameEnd
            \/ audio.which = "synth" /\ Pending("synth")
        BY <2>1, <3>2, NotAtEnd DEF PlaybackInv, FrameEndInv
      <4>3. /\ playbackSampleIdx \in Nat /\ VectorSize \in Nat /\ audio.frameEnd \in Nat
            /\ procSource.frames \in Nat /\ synthSample.frames \in Nat
        BY FrameAssumption DEF ProcessorTypeOK, ActorsTypeOK, Sample
      <4>4. Within(audio.which, playbackSampleIdx + VectorSize)
        BY <4>1, <4>2, <4>3 DEF Within
      <4>5. playbackState \in {"off", audio.which}
        BY <2>1 DEF PlaybackInv, FrameEndInv
      <4> QED
        BY <1>2, <2>1, <4>4, <4>5 DEF NextVectorInv, Within, samples
    <3> QED
      BY <3>1, <3>2
  <2> QED
    BY <2>2, <2>3 DEF PlaybackInv
<1>7. CASE VectorStop
  <2>1. /\ audio.pc = "stop" /\ playbackState' = "off" /\ audio'.pc = "report"
    BY <1>7 DEF VectorStop, ProcessorTypeOK
  <2>2. arming = "none"
    BY <2>1 DEF Undisturbed, StartOverlaps
  <2> QED
    BY <1>2, <2>1, <2>2
       DEF PlaybackInv, ArmedInv, NextVectorInv, FrameEndInv, Within, Usable
<1>8. CASE VectorReport
  <2>1. /\ audio.pc = "report" /\ audio'.pc = "idle"
        /\ UNCHANGED <<playbackState, playbackSampleIdx>>
    BY <1>8 DEF VectorReport
  <2>2. ArmedInv' /\ NextVectorInv' /\ FrameEndInv'
    BY <1>2, <2>1 DEF PlaybackInv, ArmedInv, NextVectorInv, FrameEndInv, Within, Usable,
       samples
  <2> QED
    BY <2>2 DEF PlaybackInv
<1> QED
  BY <1>1, <1>3, <1>4, <1>5, <1>6, <1>7, <1>8 DEF ProcessorAudio
-----------------------------------------------------------------------------
\* Nothing plays at first.
LEMMA InitPlayback == Init => PlaybackInv
BY DEF Init, PlaybackInv, ArmedInv, NextVectorInv, FrameEndInv, Within

\* No step of the application breaks the invariant.
LEMMA StepPlayback ==
    ASSUME TypeOK, PlaybackInv, Undisturbed, Undisturbed', [Next]_vars, ~ReplacedWithin
    PROVE  PlaybackInv'
<1>1. CASE Controller
  BY <1>1, OthersKeep, SynthAnnounced DEF Controller, TypeOK
<1>2. CASE View \/ User \/ UNCHANGED vars
  <2>1. UNCHANGED <<procMail, samples, procVars>>
    BY <1>2 DEF View, ViewNext, ViewSetParam, ViewSetData, ViewSetPartials, ViewForward,
       ViewSetProp, User, UserClicks, UserTurns, UserPressesO, UserGives, vars, mail
  <2>2. Pending("synth")' <=> Pending("synth")
    BY <2>1 DEF Pending, At
  <2> QED
    BY <2>1, <2>2, OthersKeep DEF samples
<1>3. CASE Processor
  BY <1>3, MainKeeps
<1>4. CASE Audio
  BY <1>4, AudioKeeps
<1> QED
  BY <1>1, <1>2, <1>3, <1>4 DEF Next

\* At each point of a handler or of processVector() the index, the frame to
\* stop at and the samples' lengths are related as PlaybackInv says, as long
\* as playback does not start within a vector, no sample is replaced within
\* one, and what plays is a vector long.
THEOREM PlaybackInvariant ==
    Spec /\ [](~StartOverlaps /\ PlayedIsLong) /\ [][~ReplacedWithin]_vars
        => []PlaybackInv
<1>1. ASSUME TypeOK, PlaybackInv, Undisturbed, Undisturbed', [Next]_vars,
             [~ReplacedWithin]_vars
      PROVE  PlaybackInv'
  <2>1. CASE ~ReplacedWithin
    BY <1>1, <2>1, StepPlayback
  <2>2. CASE UNCHANGED vars
    <3>1. UNCHANGED <<procMail, samples, procVars>>
      BY <2>2 DEF vars, mail
    <3>2. Pending("synth")' <=> Pending("synth")
      BY <3>1 DEF Pending, At
    <3> QED
      BY <1>1, <3>1, <3>2, OthersKeep DEF samples
  <2> QED
    BY <1>1, <2>1, <2>2
<1>2. ~StartOverlaps /\ PlayedIsLong <=> Undisturbed
  BY DEF Undisturbed
<1> QED
  BY <1>1, <1>2, InitPlayback, TypeCorrect, PTL DEF Spec

\* If processVector() ever reads a frame that the sample it plays does not
\* have, then playback was started or a sample replaced within a vector, or
\* the sample or interval played was shorter than one; or the read falls
\* between the controller's replacing the synthesized sample and the
\* processor's handling the message that says so.  Whatever else happens while
\* it plays, within a vector or not, be it that the interval is changed, the
\* source replaced or playback stopped, is no danger.
THEOREM NeverReadsOutside ==
    Spec /\ [](~StartOverlaps /\ PlayedIsLong) /\ [][~ReplacedWithin]_vars
        => []ReadsInBounds
<1>1. TypeOK /\ PlaybackInv => ReadsInBounds
  <2> SUFFICES ASSUME TypeOK, PlaybackInv, audio.pc = "load"
               PROVE  \/ audio.which = "source" /\ VectorInside(procSource)
                      \/ audio.which = "synth"
                            /\ (Pending("synth") \/ VectorInside(synthSample))
    BY DEF ReadsInBounds
  <2>1. Within(audio.which, playbackSampleIdx + VectorSize)
    BY DEF PlaybackInv, FrameEndInv
  <2>2. audio.which \in Playable
    BY DEF TypeOK, ProcessorTypeOK
  <2> QED
    BY <2>1, <2>2 DEF Within, VectorInside, Playable
<1> QED
  BY <1>1, PlaybackInvariant, TypeCorrect, PTL
=============================================================================
