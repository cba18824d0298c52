-------------------------- MODULE FunctionContract --------------------------
(***************************************************************************)
(* What the platform promises about one row of the functions table, seen   *)
(* by a client that polls it.  The row passes the gates in order: nothing  *)
(* is prepared that was not verified, nothing verified that was not        *)
(* scanned.  DETECTED and READY are for good; a FAILED extraction is not,  *)
(* for the function is scanned all the same.                               *)
(***************************************************************************)
CONSTANT Functions

VARIABLES
    status,         \* the status a client reads
    judged,         \* has an analysis of it ended?
    built           \* does the row name a drive?

vars == <<status, judged, built>>

Init ==
    /\ status = [f \in Functions |-> "NOROW"]
    /\ judged = [f \in Functions |-> FALSE]
    /\ built = [f \in Functions |-> FALSE]

Becomes(f, from, to) ==
    /\ status[f] \in from
    /\ status' = [status EXCEPT ![f] = to]

Upload(f) == Becomes(f, {"NOROW"}, "QUARANTINED") /\ UNCHANGED <<judged, built>>

Look(f) ==
    /\ \/ Becomes(f, {"QUARANTINED"}, "EXTRACTED")
       \/ Becomes(f, {"QUARANTINED"}, "FAILED")
    /\ UNCHANGED <<judged, built>>

Scan(f) ==
    /\ ~ judged[f]
    /\ Becomes(f, {"EXTRACTED", "FAILED"}, "SCANNING")
    /\ UNCHANGED <<judged, built>>

EndAnalysis(f) ==
    /\ status[f] = "SCANNING" /\ ~ judged[f]
    /\ judged' = [judged EXCEPT ![f] = TRUE]
    /\ UNCHANGED <<status, built>>

Judge(f) ==
    /\ judged[f]
    /\ \/ Becomes(f, {"SCANNING"}, "VERIFIED")
       \/ Becomes(f, {"SCANNING"}, "DETECTED")
    /\ UNCHANGED <<judged, built>>

Prepare(f) == Becomes(f, {"VERIFIED"}, "PREPARING_ENVIRONMENT") /\ UNCHANGED <<judged, built>>

PutBack(f) == Becomes(f, {"PREPARING_ENVIRONMENT"}, "VERIFIED") /\ UNCHANGED <<judged, built>>

GiveUp(f) ==
    /\ Becomes(f, {"VERIFIED", "PREPARING_ENVIRONMENT"}, "FAILED")
    /\ UNCHANGED <<judged, built>>

Ready(f) ==
    /\ Becomes(f, {"PREPARING_ENVIRONMENT"}, "READY")
    /\ built' = [built EXCEPT ![f] = TRUE]
    /\ UNCHANGED judged

Next ==
    \E f \in Functions :
        \/ Upload(f)
        \/ Look(f)
        \/ Scan(f)
        \/ EndAnalysis(f)
        \/ Judge(f)
        \/ Prepare(f)
        \/ PutBack(f)
        \/ GiveUp(f)
        \/ Ready(f)

Spec == Init /\ [][Next]_vars
=============================================================================
