---------------------------- MODULE VutuPlayback ----------------------------
(***************************************************************************)
(* What can make an audio vector be read from outside its sample, and an   *)
(* inductive invariant that says what the processor knows of               *)
(* playbackSampleIdx at each point if none of that happens.                *)
(***************************************************************************)
EXTENDS VutuApp

(***************************************************************************)
(* The handlers run on the main thread, processVector() on another, and    *)
(* nothing keeps one out of the other.                                     *)
(***************************************************************************)
\* playbackState is set to a sample, but playbackSampleIdx not yet, within a
\* vector.
StartOverlaps == arming # "none" /\ audio.pc # "idle"

\* A sample is replaced, or its replacement made known, within a vector.
ReplacedWithin == audio.pc # "idle" /\ ProcSetData

\* What plays has room for a vector between where it starts and where it ends.
\* This no code sees to, neither for intervals nor for samples.
PlayedIsLong ==
    \A w \in Playable : playbackState = w =>
        \/ StartOf(w) + VectorSize <= FrameEndOf(w)
        \/ w = "synth" /\ Pending("synth")
-----------------------------------------------------------------------------
\* The frames up to this one are in the sample.
Within(which, frame) ==
    /\ which = "source" => frame <= procSource.frames
    /\ which = "synth" => Pending("synth") \/ frame <= synthSample.frames

\* What togglePlaybackState() has found out before it sets the index.
ArmedInv ==
    /\ toggling # "none" => playbackState = "off" /\ arming = "none"
    /\ arming # "none" => arming = playbackState
    /\ toggling = "source" \/ playbackState = "source" => Usable(procSource)

\* Between two vectors, the next one is in the sample ...
NextVectorInv ==
    arming = "none" /\ audio.pc \in {"idle", "load", "report"} =>
        Within(playbackState, playbackSampleIdx + VectorSize)

\* ... and while one is loaded, so are that one and the frame to stop at, even
\* if playback is stopped meanwhile.
FrameEndInv ==
    /\ audio.pc # "idle" => playbackState \in {"off", audio.which}
    /\ audio.pc = "load" => Within(audio.which, playbackSampleIdx + VectorSize)
    /\ audio.pc \in {"load", "check"} =>
           /\ Within(audio.which, audio.frameEnd)
           /\ \/ audio.frameEnd >= VectorSize
              \/ audio.which = "synth" /\ Pending("synth")

PlaybackInv == ArmedInv /\ NextVectorInv /\ FrameEndInv
=============================================================================
