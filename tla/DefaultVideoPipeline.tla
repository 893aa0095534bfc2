------------------------ MODULE DefaultVideoPipeline ------------------------
(***************************************************************************)
(* The built-in avatar pipeline (apps/workers/pipeline/src/pipelines/      *)
(* default-video.ts), with or without its translation stage.               *)
(***************************************************************************)
EXTENDS Naturals

defaultStages(translate) ==
    {"script", "tts", "avatar", "subtitles", "render", "thumbnail", "finalize"}
        \cup (IF translate THEN {"translate"} ELSE {})

defaultDependsOn(translate) ==
    [s \in defaultStages(translate) |->
        CASE s = "script"    -> {}
          [] s = "translate" -> {"script"}
          [] s = "tts"       -> {IF translate THEN "translate" ELSE "script"}
          [] s \in {"avatar", "subtitles"} -> {"tts"}
          [] s = "render"    -> {"avatar", "subtitles"}
          [] s = "thumbnail" -> {"render"}
          [] s = "finalize"  -> {"render", "thumbnail"}]

defaultOptional(translate) ==
    defaultStages(translate) \cap {"translate", "subtitles", "thumbnail"}

defaultMaxAttempts(translate) ==
    [s \in defaultStages(translate) |->
        CASE s = "render" -> 2 [] s = "finalize" -> 5 [] OTHER -> 3]

\* The inputs the stage bodies throw without: tts falls back from a skipped
\* translation to the script, render and subtitles do without what is missing.
bodyRequires(translate) ==
    [s \in defaultStages(translate) |->
        CASE s = "tts"    -> {"script"}
          [] s = "avatar" -> {"tts"}
          [] s \in {"thumbnail", "finalize"} -> {"render"}
          [] OTHER -> {}]
=============================================================================
