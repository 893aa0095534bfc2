--------------------------- MODULE MCPipelineRun ----------------------------
(* Small definitions of pipelines and fault budgets for PipelineRun.       *)
EXTENDS PipelineRun, DefaultVideoPipeline, TLC

\* The shape that the theorems about billing and inputs suppose, which the
\* definition of every run has, the built-in one included.
ASSUME ShapeAssumption == FinalizeIsLast /\ BranchesJoin /\ InputsComeBefore

\* The parallel part of the built-in pipeline: tts -> (avatar || subtitles)
\* -> finalize, with subtitles optional.
DiamondStages == {"tts", "avatar", "subtitles", "finalize"}
DiamondDependsOn ==
    [s \in DiamondStages |-> CASE s = "tts" -> {}
                               [] s \in {"avatar", "subtitles"} -> {"tts"}
                               [] s = "finalize" -> {"avatar", "subtitles"}]
DiamondOptional == {"subtitles"}
DiamondRequires ==
    [s \in DiamondStages |-> CASE s = "avatar" -> {"tts"}
                               [] s = "finalize" -> {"avatar"}
                               [] OTHER -> {}]
TwoAttempts == [s \in DiamondStages |-> IF s = "avatar" THEN 2 ELSE 1]

\* A chain in which nothing is optional: script -> tts -> finalize.
StrictStages == {"script", "tts", "finalize"}
StrictDependsOn ==
    [s \in StrictStages |-> CASE s = "script" -> {}
                              [] s = "tts" -> {"script"}
                              [] s = "finalize" -> {"tts"}]
StrictOptional == {}
StrictRequires ==
    [s \in StrictStages |-> IF s = "tts" THEN {"script"} ELSE {}]
StrictAttempts == [s \in StrictStages |-> IF s = "finalize" THEN 2 ELSE 1]

\* The shape that the theorem about lost artifacts supposes.
Chain == INSTANCE PipelineDefinition
         WITH Stages <- StrictStages, DependsOn <- StrictDependsOn,
              Optional <- StrictOptional, MaxAttempts <- StrictAttempts,
              Requires <- StrictRequires
ASSUME ChainAssumption == Chain!OneAtATime

\* The end of the pipeline: thumbnail (optional) -> finalize.
TailStages == {"thumbnail", "finalize"}
TailDependsOn ==
    [s \in TailStages |-> IF s = "finalize" THEN {"thumbnail"} ELSE {}]
TailOptional == {"thumbnail"}
TailRequires == [s \in TailStages |-> {}]
TailAttempts == [s \in TailStages |-> 2]

\* The built-in pipeline as it is, without its translation stage.
VideoStages == defaultStages(FALSE)
VideoDependsOn == defaultDependsOn(FALSE)
VideoOptional == defaultOptional(FALSE)
VideoAttempts == defaultMaxAttempts(FALSE)
VideoRequires == bodyRequires(FALSE)

AllFaults == {"handlerCrash", "handlerThrow", "connectionLost", "workerCrash", "ioError"}

HandlerSymmetry == Permutations(Handlers)
=============================================================================
