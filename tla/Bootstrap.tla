----------------------------- MODULE Bootstrap ------------------------------
(***************************************************************************)
(* How the server comes up (cmd/server/main.go): the workers are started,  *)
(* the four buckets are brought to what the registry says of them          *)
(* (server/filestore/initializer.go), and only then it listens.  A call to *)
(* MinIO is one step.  The buckets may be in any state before: an earlier  *)
(* start may have ended half-way, an operator may have changed them.       *)
(***************************************************************************)
EXTENDS Naturals, Sequences

CONSTANTS
    FaultBudgets,       \* how many faults of each kind may happen
    Stores,             \* what MinIO may have before the first start
    Kek, FirstKek       \* the values KEY_ENCRYPTION_KEY may have; the first of them

VARIABLES
    server,             \* "down", "listening", or the call of StartUp that is next
    turn,               \* the place in Order of the bucket it is for
    store,              \* what MinIO has for each bucket
    warned,             \* the warnings this start has logged
    serverKek,          \* the key encryption key this process has read
    envKek,             \* the one in the .env file
    faults              \* faults that may still happen

bootVars == <<server, turn, store, warned, serverKek>>

(* db, minio: a call of the service fails; crash: the server dies; kill: a run *)
(* of `oblak configure` is interrupted.  Not faults, but bounded with them:    *)
(* rekey, the operator changes KEY_ENCRYPTION_KEY in .env; configure, a run of *)
(* `oblak configure` begins; send, a request is sent.                          *)
FrontFaults == {"db", "minio", "crash", "kill", "rekey", "configure", "send"}

ASSUME FaultBudgetsAssumption == FaultBudgets \subseteq [FrontFaults -> Nat]

Order == <<"functions", "logs", "quarantine", "drives">>
Buckets == {Order[n] : n \in DOMAIN Order}

Forever == 0
IsPublic(b) == FALSE
RetentionDays(b) == IF b = "logs" THEN 30 ELSE Forever

Absent == [exists |-> FALSE, public |-> FALSE, days |-> Forever]
BucketStates == [exists : BOOLEAN, public : BOOLEAN, days : {Forever, 30}]

StartUp == {"make", "policy", "lifecycle"}

ASSUME KekAssumption == FirstKek \in Kek

ASSUME StoresAssumption == Stores \subseteq [Buckets -> BucketStates]

BootTypeOK ==
    /\ server \in {"down", "listening"} \cup StartUp
    /\ turn \in DOMAIN Order
    /\ store \in [Buckets -> BucketStates]
    /\ warned \subseteq Buckets \X {"policy", "lifecycle"}
    /\ serverKek \in Kek /\ envKek \in Kek
    /\ faults \in [FrontFaults -> Nat]

BootInit ==
    /\ server = "down" /\ turn = 1
    /\ store \in Stores
    /\ warned = {}
    /\ envKek = FirstKek /\ serverKek = envKek
    /\ faults \in FaultBudgets

Suffer(kind) ==
    /\ faults[kind] > 0
    /\ faults' = [faults EXCEPT ![kind] = @ - 1]

Current == Order[turn]
SetBucket(field, value) == store' = [store EXCEPT ![Current][field] = value]

\* main loads .env, and nothing reads it again.
StartServer ==
    /\ server = "down"
    /\ server' = "make" /\ turn' = 1
    /\ warned' = {}
    /\ serverKek' = envKek
    /\ UNCHANGED <<store, envKek, faults>>

LogFatal == server' = "down"

\* Mutant of MakeBucket: a bucket that exists already is an error.
MakeBucketAnew ==
    /\ server = "make"
    /\ \/ /\ ~ store[Current].exists
          /\ server' = "policy"
          /\ SetBucket("exists", TRUE)
       \/ /\ store[Current].exists
          /\ LogFatal
          /\ UNCHANGED store
    /\ UNCHANGED <<turn, warned, serverKek, envKek, faults>>

\* BucketExists and MakeBucket.
MakeBucket ==
    /\ server = "make"
    /\ \/ /\ server' = "policy"
          /\ store' = IF store[Current].exists THEN store
                      ELSE [store EXCEPT ![Current] = [Absent EXCEPT !.exists = TRUE]]
          /\ UNCHANGED faults
       \/ LogFatal /\ Suffer("minio") /\ UNCHANGED store
    /\ UNCHANGED <<turn, warned, serverKek, envKek>>

\* A private bucket's policy is removed; a failure is only a warning.
SetAccess ==
    /\ server = "policy"
    /\ \/ /\ server' = "lifecycle"
          /\ SetBucket("public", IsPublic(Current))
          /\ UNCHANGED <<warned, faults>>
       \/ /\ ~ IsPublic(Current)
          /\ server' = "lifecycle"
          /\ warned' = warned \cup {<<Current, "policy">>}
          /\ Suffer("minio")
          /\ UNCHANGED store
       \/ /\ IsPublic(Current)
          /\ LogFatal
          /\ Suffer("minio")
          /\ UNCHANGED <<store, warned>>
    /\ UNCHANGED <<turn, serverKek, envKek>>

\* Mutant of NextBucket: the loop runs once too often.
NextBucketOffByOne ==
    IF turn > Len(Order) THEN server' = "listening" /\ UNCHANGED turn
    ELSE server' = "make" /\ turn' = turn + 1

NextBucket ==
    IF turn = Len(Order) THEN server' = "listening" /\ UNCHANGED turn
    ELSE server' = "make" /\ turn' = turn + 1

\* Mutant of SetRetention: a bucket that is kept for good is left as it is.
SetRetentionOnly ==
    /\ server = "lifecycle"
    /\ NextBucket
    /\ IF RetentionDays(Current) = Forever THEN UNCHANGED store
       ELSE SetBucket("days", RetentionDays(Current))
    /\ UNCHANGED <<warned, faults, serverKek, envKek>>

\* An expiration that cannot be set ends the start, one that cannot be removed
\* is only a warning.
SetRetention ==
    /\ server = "lifecycle"
    /\ \/ /\ NextBucket
          /\ SetBucket("days", RetentionDays(Current))
          /\ UNCHANGED <<warned, faults>>
       \/ /\ RetentionDays(Current) = Forever
          /\ NextBucket
          /\ warned' = warned \cup {<<Current, "lifecycle">>}
          /\ Suffer("minio")
          /\ UNCHANGED store
       \/ /\ RetentionDays(Current) # Forever
          /\ LogFatal
          /\ Suffer("minio")
          /\ UNCHANGED <<store, turn, warned>>
    /\ UNCHANGED <<serverKek, envKek>>

CrashServer ==
    /\ server # "down"
    /\ LogFatal
    /\ Suffer("crash")
    /\ UNCHANGED <<turn, store, warned, serverKek, envKek>>

BootStep == StartServer \/ MakeBucket \/ SetAccess \/ SetRetention

(***************************************************************************)
(* A server that takes requests has its buckets: all of them are there,    *)
(* and what differs from the registry has been warned of in the log.  A    *)
(* log expires in any case, and an archive, a function or a drive expires  *)
(* only after such a warning, whatever an earlier start has left behind    *)
(* (initializer.go:27-77, main.go:55-63).                                  *)
(***************************************************************************)
ListensWithBuckets ==
    server = "listening" => \A b \in Buckets :
        /\ store[b].exists
        /\ store[b].public # IsPublic(b) => <<b, "policy">> \in warned
        /\ store[b].days # RetentionDays(b) =>
              <<b, "lifecycle">> \in warned /\ RetentionDays(b) = Forever

(***************************************************************************)
(* However often MinIO fails or the process dies during a start, a server  *)
(* that is started again comes to listen in the end: no step of the        *)
(* initialisation depends on what an earlier one left (initializer.go:32). *)
(***************************************************************************)
ComesUp == <>[](server = "listening")
=============================================================================
