------------------------- MODULE PipelineDefinition -------------------------
(***************************************************************************)
(* The declarative pipeline a run executes (packages/core/src/domain/      *)
(* pipeline.ts).  Every module about runs takes its definition from here.  *)
(***************************************************************************)
EXTENDS Naturals

CONSTANTS
    Stages,       \* the names of the definition's stages
    DependsOn,    \* the stages each stage waits for
    Optional,     \* the stages that are skipped, not fatal, when they fail
    MaxAttempts,  \* how many times the job of each stage is tried
    Requires,     \* the artifacts without which a stage's body throws
    Finalize      \* the stage that publishes the video and bills for it

(***************************************************************************)
(* What the definitions the code builds satisfy.  An input a body insists  *)
(* on (handlers.ts throws PipelineError without it) comes from a stage     *)
(* that cannot be skipped.                                                 *)
(***************************************************************************)
ASSUME DefinitionAssumption ==
    /\ DependsOn \in [Stages -> SUBSET Stages]
    /\ Optional \subseteq Stages
    /\ MaxAttempts \in [Stages -> Nat \ {0}]
    /\ Requires \in [Stages -> SUBSET (Stages \ Optional)]
    /\ Finalize \in Stages \ Optional

\* Mutants: the dependencies are not looked at; one of them is enough.
readyStagesAnyOrder(completed, started) ==
    {s \in Stages : s \notin completed /\ s \notin started}
readyStagesSome(completed, started) ==
    {s \in Stages : /\ s \notin completed
                    /\ s \notin started
                    /\ DependsOn[s] = {} \/ DependsOn[s] \cap completed # {}}

\* Stages whose dependencies are all satisfied and are not yet started.
readyStages(completed, started) ==
    {s \in Stages : /\ s \notin completed
                    /\ s \notin started
                    /\ DependsOn[s] \subseteq completed}

-----------------------------------------------------------------------------
(* The shape of a definition.                                              *)

\* The stages that come before a stage: those it waits for, those that they
\* wait for, and so on.
before(s) ==
    {t \in Stages :
        \A A \in SUBSET Stages :
            DependsOn[s] \subseteq A /\ (\A a \in A : DependsOn[a] \subseteq A)
                => t \in A}

\* Every stage that can fail the run comes before finalize.
FinalizeIsLast == Stages \ Optional \subseteq before(Finalize) \cup {Finalize}

\* Of two stages, one waits for the other, or each has what comes before the
\* other behind it: branches run side by side only between a fork and a join.
BranchesJoin ==
    \A s, t \in Stages : t \in before(s) \/ before(s) \subseteq before(t)

\* No two stages run side by side: of any two, one comes before the other.
OneAtATime ==
    \A s, t \in Stages : s = t \/ s \in before(t) \/ t \in before(s)

\* The inputs of a stage's body come before it.
InputsComeBefore == \A s \in Stages : Requires[s] \subseteq before(s)
=============================================================================
