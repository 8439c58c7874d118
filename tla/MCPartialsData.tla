--------------------------- MODULE MCPartialsData ---------------------------
(***************************************************************************)
(* PartialsData for TLC: partials that touch, overlap, nest and leave      *)
(* gaps, one of a single breakpoint, one too high, one without bandwidth.  *)
(***************************************************************************)
EXTENDS PartialsData

MCPartial(time, freq, amp, bandwidth) ==
    [time |-> time, freq |-> freq, amp |-> amp, bandwidth |-> bandwidth,
     phase |-> [i \in DOMAIN time |-> 0]]

MCLow == MCPartial(<<0, 4>>, <<2, 3>>, <<5, 2>>, <<0, 0>>)
MCLate == MCPartial(<<4, 6, 9>>, <<3, 3, 4>>, <<0, 6, 3>>, <<0, 2, 0>>)
MCHigh == MCPartial(<<2, 4>>, <<5, 7>>, <<3, 3>>, <<0, 0>>)
MCDot == MCPartial(<<4>>, <<3>>, <<4>>, <<0>>)

MCFound == {MCLow, MCLate, MCHigh, MCDot}

MCFile(partials) ==
    [source |-> "a", hi_cut |-> 9, fundamental |-> 1,
     p |-> [i \in DOMAIN partials |-> PartialToJSON(partials[i])]]

MCTree(partials) ==
    [source |-> "a", hi_cut |-> 9, fundamental |-> 1, n_partials |-> Len(partials),
     p |-> [i \in DOMAIN partials |-> PartialToBinary(partials[i])]]

WithDuration(file, duration) ==
    [key \in DOMAIN file \cup {"source_duration"} |->
        IF key = "source_duration" THEN duration ELSE file[key]]

\* One has a duration that does not cover its partials.
MCOtherFiles == {WithDuration(MCFile(<<MCDot, MCLow>>), 9),
                 WithDuration(MCFile(<<MCLow>>), 2), MCFile(<<>>)}
MCOtherTrees == {MCTree(<<MCLate>>), WithDuration(MCTree(<<>>), 9)}
=============================================================================
