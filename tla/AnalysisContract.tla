-------------------------- MODULE AnalysisContract --------------------------
(***************************************************************************)
(* What the analyzer's listener relies on when it calls AnalyzeFile, and   *)
(* what module Analyzer takes one analysis for: the stages are passed in   *)
(* their order, each ends with its own verdicts, and the files are gone    *)
(* when the call returns (analysis_orchestrator.go:45-149).                *)
(***************************************************************************)
EXTENDS AnalysisStages, Naturals

VARIABLES
    run,                \* the number of the analysis
    at,                 \* its stage, "idle" between two, "down" without a process
    verdict,            \* what the last call returned, "none" before
    workspace           \* files on the analyzer's disk, as <<run, kind>>

contractVars == <<run, at, verdict, workspace>>

Files(stage) == {run} \X Creates(stage)

Init == run = 0 /\ at = "idle" /\ verdict = "none" /\ workspace = {}

Begin ==
    /\ at = "idle"
    /\ run' = run + 1
    /\ at' = "download"
    /\ verdict' = "none"
    /\ UNCHANGED workspace

Work ==
    /\ at \in Analysis
    /\ workspace' = workspace \cup Files(at)
    /\ UNCHANGED <<run, at, verdict>>

Pass ==
    /\ at \in DOMAIN NextStage
    /\ at' = NextStage[at]
    /\ workspace' = workspace \cup Files(at)
    /\ UNCHANGED <<run, verdict>>

End ==
    /\ at \in Analysis
    /\ verdict' \in EndsWith[at]
    /\ at' = "idle"
    /\ workspace' = workspace \ ({run} \X FileKinds)
    /\ UNCHANGED run

Die == at' = "down" /\ UNCHANGED <<run, verdict, workspace>>

Restart ==
    /\ at = "down"
    /\ at' = "idle"
    /\ workspace' = {file \in workspace : file[2] = "report"}
    /\ UNCHANGED <<run, verdict>>

Next == Begin \/ Work \/ Pass \/ End \/ Die \/ Restart

Spec == Init /\ [][Next]_contractVars
=============================================================================
