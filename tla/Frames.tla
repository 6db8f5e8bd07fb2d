------------------------------- MODULE Frames -------------------------------
(***************************************************************************)
(* What double_buffering.h and triple_buffering.h exchange: frames of more *)
(* than one machine word, which memcpy copies one word at a time.          *)
(***************************************************************************)
EXTENDS Naturals

CONSTANTS
    Words,      \* the words of a frame
    MaxFrames   \* bound on the calls to dbuf_write or tbuf_write

ASSUME WordsAssumption == Words # {}
ASSUME MaxFramesAssumption == MaxFrames \in Nat
=============================================================================
