--------------------------- MODULE AnalyzerStages ---------------------------
(***************************************************************************)
(* The stages between the capture ring of the analyzer and its USB         *)
(* endpoint, each with the other one out of sight: PacketFifo, which hands *)
(* its words on whenever its reader likes, and ClockCrossing, which is     *)
(* offered words at any time.                                              *)
(***************************************************************************)
EXTENDS PacketFifo, ClockCrossing

VARIABLE stage        (* the stage in sight *)

fifoVars == <<source, fsm, is_write, write_address, read_address, word_count,
              ram, psram, out>>
bytesVars == <<phase, word, s16, w, r, storage, dirty>>
stagesVars == <<stage, fifoVars, bytesVars, discarding>>

StagesInit == stage \in {"fifo", "crossing"} /\ Init /\ CrossingInit

FifoStep(action) ==
  stage = "fifo" /\ action /\ UNCHANGED <<stage, bytesVars>>

CrossingStep(action) ==
  stage = "crossing" /\ action /\ UNCHANGED <<stage, fifoVars>>

StagesNext == FifoStep(Next) \/ CrossingStep(CrossingNext)

(* The fairness of both stages.                                            *)
StagesFairness ==
  /\ WF_stagesVars(FifoStep(Discards))
  /\ WF_stagesVars(FifoStep(Running(BeginWrite \/ BeginRead)))
  /\ WF_stagesVars(FifoStep(Running(WriteWord \/ ReadWord)))
  /\ WF_stagesVars(FifoStep(Running(Rest /\ fsm' # fsm)))
  /\ WF_stagesVars(FifoStep(Running(Rest /\ psram' # psram)))
  /\ WF_stagesVars(FifoStep(Takes))
  /\ WF_phase(CrossingStep(Tick))
  /\ SF_r(CrossingStep(Read))

StagesSpec == StagesInit /\ [][StagesNext]_stagesVars /\ StagesFairness
-----------------------------------------------------------------------------
(* Nothing stays in either stage for ever: writing has priority over       *)
(* reading in the HyperRAM, and each side of the crossing acts on an old   *)
(* counter of the other.                                                   *)
EverythingLeaves ==
  /\ EveryWordLeaves
  /\ stage = "crossing" => EveryByteLeaves
=============================================================================
