------------------------------ MODULE MCFront -------------------------------
(* A small instance of Front for TLC. *)
EXTENDS Front

CONSTANTS k1, u1, r1, e1, e2, s1, s2

\* One bucket is missing, and an earlier registry has left settings on the others.
Leftover ==
    {[b \in Buckets |-> [exists |-> b # "logs", public |-> b = "functions",
                         days |-> IF b \in {"drives", "quarantine"} THEN 30 ELSE Forever]]}

Calm == [k \in FrontFaults |-> 0]

\* A start that fails in two ways; requests that meet every failure but MinIO's; runs
\* of `configure` that overlap, one of them interrupted; three of them, with no request.
FourProfiles ==
    {[Calm EXCEPT !["minio"] = 1, !["crash"] = 1, !["configure"] = 1, !["send"] = 1],
     [Calm EXCEPT !["db"] = 1, !["rekey"] = 1, !["configure"] = 1, !["send"] = 1],
     [Calm EXCEPT !["kill"] = 1, !["configure"] = 2, !["send"] = 1],
     [Calm EXCEPT !["configure"] = 3]}
=============================================================================
