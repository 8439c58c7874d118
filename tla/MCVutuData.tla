----------------------------- MODULE MCVutuData -----------------------------
(***************************************************************************)
(* VutuApp for TLC: the values of the constants that a cfg cannot write.   *)
(* Lengths are in frames; an audio vector has two of them here, and an     *)
(* interval bound is a multiple of a quarter.                              *)
(***************************************************************************)
EXTENDS VutuApp

MCIntervals == {<<0, 4>>, <<1, 3>>}
MCNarrow == {<<0, 4>>, <<1, 3>>, <<0, 1>>}
MCFundamentals == {<<1>>, <<2>>}
MCSetInterval == {<<1, 3>>}
MCSetNarrow == {<<0, 1>>}
MCSetEither == {<<1, 3>>, <<0, 1>>}
MCSetBoth == {<<1, 3>>, <<2>>}
MCNothing == {}
=============================================================================
