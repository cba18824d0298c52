--------------------------- MODULE AnalysisStages ---------------------------
(* The stages of AnalyzeFile (orchestrator/analysis_orchestrator.go). *)

AnalysisVerdicts == {"SAFE", "MALICIOUS", "FAILURE"}
FileKinds == {"archive", "extracted", "report"}

\* In the order of the code.
NextStage ==
    [download  |-> "extract",
     extract   |-> "audit",
     audit     |-> "antivirus",
     antivirus |-> "sast",
     sast      |-> "detonate",
     detonate  |-> "report",
     report    |-> "judge"]

(***************************************************************************)
(* The verdicts with which a stage can end the analysis.  A vulnerable     *)
(* dependency, a finding and a behaviour are MALICIOUS; whatever goes      *)
(* wrong is a FAILURE, and so is a file the antivirus knows.               *)
(***************************************************************************)
EndsWith ==
    [download  |-> {"FAILURE"},
     extract   |-> {"FAILURE"},
     audit     |-> {"MALICIOUS"},
     antivirus |-> {"FAILURE"},
     sast      |-> {"MALICIOUS"},
     detonate  |-> {"FAILURE"},
     report    |-> {"FAILURE"},
     judge     |-> {"FAILURE", "MALICIOUS", "SAFE"}]

Analysis == DOMAIN EndsWith

\* Files a stage leaves on the disk.
Creates(stage) ==
    CASE stage = "download" -> {"archive"}
      [] stage = "extract"  -> {"extracted"}
      [] stage = "report"   -> {"report"}
      [] OTHER              -> {}
=============================================================================
