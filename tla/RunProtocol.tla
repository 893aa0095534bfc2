---------------------------- MODULE RunProtocol -----------------------------
(***************************************************************************)
(* What a pipeline run promises whatever fails: the abstract machine that  *)
(* PipelineRun implements.  A stage starts after the artifacts of its      *)
(* dependencies were recorded, an artifact is only recorded for a stage    *)
(* that started, and a run completes only when every artifact was.         *)
(*                                                                         *)
(* It also says what is not promised.  The orchestrator and the API write  *)
(* the status without looking at it again, so a handler in flight can      *)
(* revive a cancelled run and change one terminal status into another.  A  *)
(* completed or failed run runs again only if its first event was handled  *)
(* twice at once, which a lost connection to the broker can bring about.   *)
(***************************************************************************)
EXTENDS PipelineDefinition

CONSTANT MayRestart  \* whether the first event may be handled twice at once

VARIABLES
    status,   \* status of the run
    begun,    \* stages that were handed out
    produced  \* stages whose artifact was recorded at least once

pvars == <<status, begun, produced>>

PInit ==
    /\ status = "pending"
    /\ begun = {}
    /\ produced = {}

BeginRun ==
    /\ status \in {"pending", "cancelled"}
    /\ begun = {}
    /\ status' = "running"
    /\ UNCHANGED <<begun, produced>>

RestartRun ==
    /\ MayRestart
    /\ status # "pending"
    /\ status' = "running"
    /\ UNCHANGED <<begun, produced>>

BeginStage(s) ==
    /\ status # "pending"
    /\ DependsOn[s] \subseteq produced
    /\ begun' = begun \cup {s}
    /\ UNCHANGED <<status, produced>>

ProduceArtifact(s) ==
    /\ s \in begun
    /\ produced' = produced \cup {s}
    /\ UNCHANGED <<status, begun>>

Complete ==
    /\ produced = Stages
    /\ status' = "completed"
    /\ UNCHANGED <<begun, produced>>

\* Only a stage that is not optional can take the run down.
Fail ==
    /\ \E s \in begun : s \notin Optional
    /\ status' = "failed"
    /\ UNCHANGED <<begun, produced>>

CancelRun ==
    /\ status \in {"pending", "running"}
    /\ status' = "cancelled"
    /\ UNCHANGED <<begun, produced>>

PNext ==
    \/ BeginRun
    \/ RestartRun
    \/ \E s \in Stages : BeginStage(s) \/ ProduceArtifact(s)
    \/ Complete
    \/ Fail
    \/ CancelRun

PSpec == PInit /\ [][PNext]_pvars
=============================================================================
