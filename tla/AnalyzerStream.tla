--------------------------- MODULE AnalyzerStream ---------------------------
(***************************************************************************)
(* What the stages between the capture ring of the analyzer and its USB    *)
(* endpoint share: the words they carry and the signal that empties them.  *)
(***************************************************************************)
EXTENDS Integers, Sequences

CONSTANTS
  NumWords,        (* distinct words                                       *)
  None             (* no word, no byte                                     *)

VARIABLE
  discarding       (* analyzer.discarding, in this cycle                   *)
=============================================================================
