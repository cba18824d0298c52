---------------------------- MODULE FrontProofs -----------------------------
(***************************************************************************)
(* Proofs about Front: any users, keys and requests, any store to begin    *)
(* with, any clocks, any faults.                                           *)
(***************************************************************************)
EXTENDS Front, TLAPS

-----------------------------------------------------------------------------
(* Who changes what. *)

\* A step is one of the server's start, of the admin's commands and of the
\* client's configuration, of the clock, or of one request.
LEMMA StepKinds ==
    ASSUME [Next]_vars
    PROVE  \/ Boots \/ ServerDies
           \/ AccessStep /\ UNCHANGED <<requestVars, hits>>
           \/ Tick
           \/ \E r \in Requests : Send(r) \/ RequestStep(r)
           \/ UNCHANGED vars
BY DEF Next

\* Requests and the clock leave everything else alone.
LEMMA RequestsLeaveAlone ==
    ASSUME \/ Tick
           \/ \E r \in Requests : Send(r) \/ RequestStep(r)
           \/ UNCHANGED vars
    PROVE  UNCHANGED sharedVars
BY DEF Tick, Send, RequestStep, CheckHeaders, LookUpKey, CompareSignatures, Handle,
   Refused, vars, sharedVars

\* Only the admin's commands change users and keys, and only commands profiles.
LEMMA AccessLeftAlone ==
    ASSUME [Next]_vars, ~ AccessStep
    PROVE  UNCHANGED accessVars
BY RequestsLeaveAlone, StepKinds DEF Boots, ServerDies, sharedVars

\* Only the start of the server and its death change the server and its buckets.
LEMMA BootLeftAlone ==
    ASSUME [Next]_vars, ~ Boots, ~ ServerDies
    PROVE  UNCHANGED bootVars
<1>1. AccessStep => UNCHANGED bootVars
  BY DEF AccessStep, CreateUser, CreateAuthKey, ChangeKek, ConfigureStep, Configure,
     OpenTemp, WriteText, RenameConfig, ConfigureDies
<1>2. QED
  BY <1>1, RequestsLeaveAlone, StepKinds DEF sharedVars

-----------------------------------------------------------------------------
(* The start of the server. *)

\* A fault that has happened leaves a number of faults.
LEMMA SufferType ==
    ASSUME faults \in [FrontFaults -> Nat], NEW kind \in FrontFaults, Suffer(kind)
    PROVE  faults' \in [FrontFaults -> Nat]
BY DEF Suffer

LEMMA BucketNames ==
    /\ DOMAIN Order = 1 .. 4 /\ Len(Order) = 4
    /\ Order[1] = "functions" /\ Order[2] = "logs"
    /\ Order[3] = "quarantine" /\ Order[4] = "drives"
    /\ Buckets = {"functions", "logs", "quarantine", "drives"}
    /\ \A n, m \in 1 .. 4 : Order[n] = Order[m] => n = m
<1>1. /\ DOMAIN Order = 1 .. 4 /\ Len(Order) = 4
      /\ Order[1] = "functions" /\ Order[2] = "logs"
      /\ Order[3] = "quarantine" /\ Order[4] = "drives"
  BY DEF Order
<1> HIDE DEF Order
<1>2. \A n \in 1 .. 4 : n = 1 \/ n = 2 \/ n = 3 \/ n = 4
  OBVIOUS
<1>3. Buckets = {"functions", "logs", "quarantine", "drives"}
  BY <1>1, <1>2 DEF Buckets
<1>4. \A n, m \in 1 .. 4 : Order[n] = Order[m] => n = m
  BY <1>1, <1>2
<1>5. QED
  BY <1>1, <1>3, <1>4

\* The bucket of this turn is one of them.
LEMMA CurrentBucket == turn \in DOMAIN Order => Current \in Buckets
BY BucketNames DEF Current, Buckets

\* What the three calls leave of the shape of the buckets.
LEMMA SetBucketType ==
    ASSUME BootTypeOK
    PROVE  /\ \A v \in BOOLEAN : SetBucket("public", v) => store' \in [Buckets -> BucketStates]
           /\ \A v \in {Forever, 30} :
                SetBucket("days", v) => store' \in [Buckets -> BucketStates]
           /\ [store EXCEPT ![Current] = [Absent EXCEPT !.exists = TRUE]]
                \in [Buckets -> BucketStates]
<1>1. store[Current] \in BucketStates
  BY CurrentBucket DEF BootTypeOK
<1>2. ASSUME NEW v \in BOOLEAN
      PROVE  [store[Current] EXCEPT !.public = v] \in BucketStates
  BY <1>1, <1>2 DEF BucketStates
<1>3. ASSUME NEW v \in {Forever, 30}
      PROVE  [store[Current] EXCEPT !.days = v] \in BucketStates
  BY <1>1, <1>3 DEF BucketStates
<1>4. [Absent EXCEPT !.exists = TRUE] \in BucketStates
  BY DEF Absent, BucketStates
<1> HIDE DEF BucketStates
<1>5. QED
  BY <1>2, <1>3, <1>4 DEF SetBucket, BootTypeOK

\* A step of the start keeps the shapes.
LEMMA BootStepType ==
    ASSUME BootTypeOK, BootStep \/ CrashServer
    PROVE  BootTypeOK'
<1>1. Current \in Buckets
  BY CurrentBucket DEF BootTypeOK
<1>2. NextBucket => server' \in {"listening", "make"} /\ turn' \in DOMAIN Order
  BY BucketNames DEF NextBucket, BootTypeOK
<1>3. \A b \in Buckets : IsPublic(b) \in BOOLEAN /\ RetentionDays(b) \in {Forever, 30}
  BY DEF IsPublic, RetentionDays
<1>4. Suffer("minio") \/ Suffer("crash") => faults' \in [FrontFaults -> Nat]
  BY SufferType DEF BootTypeOK, FrontFaults
<1>5. CASE StartServer
  BY <1>5, BucketNames DEF StartServer, BootTypeOK, StartUp
<1>6. CASE MakeBucket
  BY <1>4, <1>6, SetBucketType DEF MakeBucket, LogFatal, BootTypeOK, StartUp
<1>7. CASE SetAccess
  <2>1. warned' \subseteq Buckets \X {"policy", "lifecycle"}
    BY <1>1, <1>7 DEF SetAccess, BootTypeOK
  <2>2. store' \in [Buckets -> BucketStates]
    BY <1>1, <1>3, <1>7, SetBucketType DEF SetAccess, BootTypeOK
  <2>3. QED
    BY <1>4, <1>7, <2>1, <2>2 DEF SetAccess, LogFatal, BootTypeOK, StartUp
<1>8. CASE SetRetention
  <2>1. warned' \subseteq Buckets \X {"policy", "lifecycle"}
    BY <1>1, <1>8 DEF SetRetention, BootTypeOK
  <2>2. store' \in [Buckets -> BucketStates]
    BY <1>1, <1>3, <1>8, SetBucketType DEF SetRetention, BootTypeOK
  <2>3. QED
    BY <1>2, <1>4, <1>8, <2>1, <2>2 DEF SetRetention, LogFatal, BootTypeOK, StartUp
<1>9. CASE CrashServer
  BY <1>4, <1>9 DEF CrashServer, LogFatal, BootTypeOK
<1>10. QED
  BY <1>5, <1>6, <1>7, <1>8, <1>9 DEF BootStep

-----------------------------------------------------------------------------
(***************************************************************************)
(* What the start has done so far: the buckets before this turn's are as   *)
(* the registry has them, or warned of.                                    *)
(***************************************************************************)
Guarded(b) == store[b].public # IsPublic(b) => <<b, "policy">> \in warned

Expiring(b) ==
    store[b].days # RetentionDays(b) =>
        <<b, "lifecycle">> \in warned /\ RetentionDays(b) = Forever

BootInv ==
    /\ server \in StartUp => \A n \in DOMAIN Order : n < turn =>
          store[Order[n]].exists /\ Guarded(Order[n]) /\ Expiring(Order[n])
    /\ server \in {"policy", "lifecycle"} => store[Current].exists
    /\ server = "lifecycle" => Guarded(Current)
    /\ ListensWithBuckets

\* A bucket other than this turn's is left alone, and no warning is taken back.
LEMMA OthersStay ==
    ASSUME BootTypeOK, MakeBucket \/ SetAccess \/ SetRetention,
           NEW b \in Buckets, b # Current
    PROVE  /\ store[b].exists => store'[b].exists
           /\ Guarded(b) => Guarded(b)'
           /\ Expiring(b) => Expiring(b)'
<1>1. store'[b] = store[b]
  BY DEF MakeBucket, SetAccess, SetRetention, SetBucket, BootTypeOK
<1>2. warned \subseteq warned'
  BY DEF MakeBucket, SetAccess, SetRetention
<1>3. QED
  BY <1>1, <1>2 DEF Guarded, Expiring, IsPublic, RetentionDays

\* This turn's bucket gets what its call gives, or a warning.
LEMMA CurrentSet ==
    ASSUME BootTypeOK
    PROVE  /\ MakeBucket /\ server' # "down" => store'[Current].exists
           /\ SetAccess /\ server' # "down" =>
                /\ store'[Current].exists = store[Current].exists
                /\ \/ store'[Current].public = IsPublic(Current)
                   \/ <<Current, "policy">> \in warned'
           /\ SetRetention /\ server' # "down" =>
                /\ store'[Current].exists = store[Current].exists
                /\ store'[Current].public = store[Current].public
                /\ warned \subseteq warned'
                /\ \/ store'[Current].days = RetentionDays(Current)
                   \/ <<Current, "lifecycle">> \in warned' /\ RetentionDays(Current) = Forever
<1>1. Current \in Buckets /\ store[Current] \in BucketStates
  BY CurrentBucket DEF BootTypeOK
<1>2. MakeBucket /\ server' # "down" => store'[Current].exists
  BY <1>1 DEF MakeBucket, LogFatal, Absent, BootTypeOK
<1>3. SetAccess /\ server' # "down" =>
        /\ store'[Current].exists = store[Current].exists
        /\ \/ store'[Current].public = IsPublic(Current)
           \/ <<Current, "policy">> \in warned'
  BY <1>1 DEF SetAccess, LogFatal, SetBucket, BootTypeOK, BucketStates
<1>4. SetRetention /\ server' # "down" =>
        /\ store'[Current].exists = store[Current].exists
        /\ store'[Current].public = store[Current].public
        /\ warned \subseteq warned'
        /\ \/ store'[Current].days = RetentionDays(Current)
           \/ <<Current, "lifecycle">> \in warned' /\ RetentionDays(Current) = Forever
  BY <1>1 DEF SetRetention, LogFatal, SetBucket, BootTypeOK, BucketStates
<1>5. QED
  BY <1>2, <1>3, <1>4

LEMMA BootStepInv ==
    ASSUME BootTypeOK, BootInv, BootStep \/ CrashServer
    PROVE  BootInv'
<1> DEFINE Done(b) == store[b].exists /\ Guarded(b) /\ Expiring(b)
<1>1. /\ Current \in Buckets /\ turn \in 1 .. 4 /\ Current = Order[turn]
      /\ \A n \in 1 .. 4 : Order[n] \in Buckets
      /\ \A b \in Buckets : \E n \in 1 .. 4 : b = Order[n]
      /\ \A n \in 1 .. 4 : n # turn => Order[n] # Current
  BY CurrentBucket, BucketNames DEF BootTypeOK, Current, Buckets
<1>2. CASE server' = "down"
  BY <1>2 DEF BootInv, ListensWithBuckets, StartUp
<1>3. CASE StartServer
  BY <1>3, BucketNames DEF StartServer, BootInv, ListensWithBuckets, StartUp
<1>4. ASSUME MakeBucket \/ SetAccess \/ SetRetention, server' # "down"
      PROVE  BootInv'
  <2>1. server \in StartUp /\ \A n \in 1 .. 4 : n < turn => Done(Order[n])'
    BY <1>1, <1>4, OthersStay, BucketNames
    DEF MakeBucket, SetAccess, SetRetention, StartUp, BootInv
  <2>2. CASE MakeBucket
    BY <1>1, <1>4, <2>1, <2>2, CurrentSet, BucketNames
    DEF MakeBucket, LogFatal, BootInv, ListensWithBuckets, Current
  <2>3. CASE SetAccess
    <3>1. Guarded(Current)' /\ store'[Current].exists /\ UNCHANGED turn
      BY <1>4, <2>3, CurrentSet DEF SetAccess, LogFatal, Guarded, BootInv, IsPublic, Current
    <3>2. QED
      BY <1>1, <1>4, <2>1, <2>3, <3>1, BucketNames
      DEF SetAccess, LogFatal, BootInv, ListensWithBuckets, Current
  <2>4. CASE SetRetention
    <3>1. server = "lifecycle" /\ NextBucket
      BY <1>4, <2>4 DEF SetRetention, LogFatal
    <3>2. store'[Current].exists
      BY <1>4, <2>4, <3>1, CurrentSet DEF BootInv
    <3>3. store'[Current].public # IsPublic(Current) => <<Current, "policy">> \in warned'
      BY <1>4, <2>4, <3>1, CurrentSet DEF BootInv, Guarded
    <3>4. store'[Current].days # RetentionDays(Current) =>
             <<Current, "lifecycle">> \in warned' /\ RetentionDays(Current) = Forever
      BY <1>4, <2>4, CurrentSet
    <3>5. ASSUME NEW n \in 1 .. 4, n <= turn
          PROVE  Done(Order[n])'
      <4>1. CASE n < turn
        BY <2>1, <4>1
      <4>2. CASE n = turn
        <5>1. Order[n] = Current
          BY <1>1, <4>2
        <5>2. QED
          BY <3>2, <3>3, <3>4, <5>1 DEF Guarded, Expiring, IsPublic, RetentionDays
      <4>3. QED
        BY <1>1, <3>5, <4>1, <4>2
    <3>6. CASE turn = 4
      <4>1. server' = "listening"
        BY <3>1, <3>6, BucketNames DEF NextBucket
      <4>2. \A b \in Buckets : Done(b)'
        BY <1>1, <3>5, <3>6
      <4>3. QED
        BY <4>1, <4>2 DEF BootInv, ListensWithBuckets, StartUp, Guarded, Expiring
    <3>7. CASE turn # 4
      <4>1. server' = "make" /\ turn' = turn + 1
        BY <3>1, <3>7, BucketNames DEF NextBucket
      <4>2. \A n \in 1 .. 4 : n < turn' => n <= turn
        BY <1>1, <4>1
      <4>3. \A n \in DOMAIN Order : n < turn' => Done(Order[n])'
        BY <3>5, <4>2, BucketNames
      <4>4. QED
        BY <4>1, <4>3 DEF BootInv, ListensWithBuckets
    <3>8. QED
      BY <3>6, <3>7
  <2>5. QED
    BY <1>4, <2>2, <2>3, <2>4
<1>5. CASE CrashServer
  BY <1>2, <1>5 DEF CrashServer, LogFatal
<1>6. QED
  BY <1>2, <1>3, <1>4, <1>5 DEF BootStep

\* What of the shapes other steps can change: the faults and the .env file.
LEMMA BootTypes == BootTypeOK /\ [Next]_vars => BootTypeOK'
<1> SUFFICES ASSUME BootTypeOK, [Next]_vars
             PROVE  BootTypeOK'
  OBVIOUS
<1>1. ASSUME ~ Boots, ~ ServerDies
      PROVE  faults' \in [FrontFaults -> Nat] /\ envKek' \in Kek
  <2>1. \A kind \in {"db", "rekey", "kill", "configure", "send"} :
           Suffer(kind) => faults' \in [FrontFaults -> Nat]
    BY SufferType DEF BootTypeOK, FrontFaults
  <2>2. CASE AccessStep
    BY <2>1, <2>2 DEF AccessStep, CreateUser, CreateAuthKey, ChangeKek, ConfigureStep,
       Configure, OpenTemp, WriteText, RenameConfig, ConfigureDies, BootTypeOK
  <2>3. CASE ~ AccessStep
    BY <1>1, <2>1, <2>3, StepKinds
    DEF Tick, Send, RequestStep, CheckHeaders, LookUpKey, CompareSignatures, Handle,
        Refused, vars, sharedVars, BootTypeOK
  <2>4. QED
    BY <2>2, <2>3
<1>2. ASSUME ~ Boots, ~ ServerDies
      PROVE  BootTypeOK'
  BY <1>1, <1>2, BootLeftAlone DEF BootTypeOK, bootVars
<1>3. QED
  BY <1>2, BootStepType DEF Boots, ServerDies

LEMMA BootKept == BootTypeOK /\ BootInv /\ [Next]_vars => BootInv'
<1> SUFFICES ASSUME BootTypeOK, BootInv, [Next]_vars
             PROVE  BootInv'
  OBVIOUS
<1>1. ASSUME UNCHANGED bootVars
      PROVE  BootInv'
  BY <1>1 DEF BootInv, ListensWithBuckets, Guarded, Expiring, Current, bootVars
<1>2. QED
  BY <1>1, BootLeftAlone, BootStepInv DEF Boots, ServerDies

\* The shapes of the start, whatever the rest does.
LEMMA BootInvariant == Spec => [](BootTypeOK /\ BootInv)
<1>1. Init => BootTypeOK /\ BootInv
  BY BucketNames, FaultBudgetsAssumption, KekAssumption, StoresAssumption
  DEF Init, BootInit, BootTypeOK, BootInv, ListensWithBuckets, StartUp,
      FaultBudgetsAssumption, KekAssumption, StoresAssumption
<1>2. QED
  BY <1>1, BootTypes, BootKept, PTL DEF Spec

(***************************************************************************)
(* Whatever MinIO has before the first start and however many starts end   *)
(* half-way, a server that listens has its buckets, and what differs from  *)
(* the registry has been warned of (initializer.go:27-77).                 *)
(***************************************************************************)
THEOREM BucketsBeforeRequests == Spec => []ListensWithBuckets
BY BootInvariant, PTL DEF BootInv

-----------------------------------------------------------------------------
(***************************************************************************)
(* Profiles.  Whatever `configure` has written, or is about to write, is   *)
(* what somebody has typed in: a key that create-key has shown, or a       *)
(* typing error.                                                           *)
(***************************************************************************)
Typed == {p \in Profile : p.auth \in shown \cup {Typo}}

FilesAreTyped ==
    /\ \A k \in shown : owner[k] # None
    /\ \A f \in {profile, tmp} : f # None => f.text \in Typed \cup {Empty, Torn}
    /\ \A s \in Shells : typing[s].at # "idle" => typing[s].of \in Typed

(***************************************************************************)
(* Who has had a file open.  A run that has the temporary file open is     *)
(* among those that had; one whose file has become config.toml under it is *)
(* not the only one there, for another run has renamed it.  So whoever is  *)
(* the only one has emptied the file, has then written it, and nobody      *)
(* else has.                                                               *)
(***************************************************************************)
HandlesAreKnown ==
    \A s \in Shells :
      /\ typing[s].on = "tmp" => tmp # None /\ s \in tmp.by
      /\ typing[s].on = "config" =>
            profile # None /\ \E t \in Shells : t # s /\ {s, t} \subseteq profile.by
      /\ typing[s].on # "none" => typing[s].at = "write"

OwnIsWhole ==
    /\ \A s \in Shells : tmp # None /\ tmp.by = {s} =>
         /\ typing[s].on = "tmp" => tmp.text = Empty
         /\ typing[s].at = "write" => typing[s].on = "tmp"
         /\ typing[s].at = "rename" => tmp.text \in Profile
    /\ tmp # None => tmp.by # {}
    /\ ProfileIsWhole

ProfileInv == FilesAreTyped /\ HandlesAreKnown /\ OwnIsWhole

\* What a written file may hold, and that it is the file of the same runs.
LEMMA OverwrittenFile ==
    ASSUME NEW f \in File, NEW p \in Profile, NEW g \in Overwritten(f, p)
    PROVE  /\ g \in File /\ g.by = f.by /\ g.text \in {p, Torn}
           /\ f.text = Empty => g.text = p
BY DEF Overwritten, File

\* What follows of a run whose shell is not the one that renames.
LEMMA FollowedRun ==
    ASSUME NEW r \in Run
    PROVE  /\ Followed(r) \in Run /\ Followed(r).at = r.at /\ Followed(r).of = r.of
           /\ Followed(r).on = "config" <=> r.on = "tmp"
           /\ Followed(r).on # "tmp"
           /\ Followed(r).on # "none" => r.on # "none"
BY DEF Followed, Run

LEMMA ProfileInit == Init => AccessTypeOK /\ ProfileInv
<1> USE AccessAssumption, FrontAssumption DEF AccessAssumption, FrontAssumption
<1> SUFFICES ASSUME Init
             PROVE  AccessTypeOK /\ ProfileInv
  OBVIOUS
<1>1. NoRun \in Run /\ NoRun.on = "none" /\ NoRun.at = "idle"
  BY DEF NoRun, Run, ConfigureStages
<1>2. AccessTypeOK
  BY <1>1, KekAssumption DEF Init, BootInit, AccessInit, AccessTypeOK, KekAssumption
<1>3. ProfileInv
  BY <1>1 DEF Init, AccessInit, ProfileInv, FilesAreTyped, HandlesAreKnown, OwnIsWhole,
     ProfileIsWhole
<1>4. QED
  BY <1>2, <1>3

\* The admin's commands leave the files and the runs alone, and show more keys.
LEMMA AdminStep ==
    ASSUME BootTypeOK, AccessTypeOK, ProfileInv,
           \/ \E u \in Users : CreateUser(u) \/ \E k \in Keys : CreateAuthKey(k, u)
           \/ ChangeKek
    PROVE  AccessTypeOK' /\ ProfileInv'
<1> USE FrontAssumption DEF FrontAssumption
<1>1. UNCHANGED <<profile, tmp, typing>> /\ shown \subseteq shown'
  BY DEF CreateUser, CreateAuthKey, ChangeKek, accessVars
<1>2. HandlesAreKnown' /\ OwnIsWhole'
  BY <1>1 DEF ProfileInv, HandlesAreKnown, OwnIsWhole, ProfileIsWhole
<1>3. AccessTypeOK' /\ \A k \in shown' : owner'[k] # None
  <2>1. CASE ChangeKek
    BY <2>1 DEF ChangeKek, accessVars, AccessTypeOK, ProfileInv, FilesAreTyped
  <2>2. ASSUME NEW u \in Users, CreateUser(u)
        PROVE  AccessTypeOK' /\ \A k \in shown' : owner'[k] # None
    BY <2>2 DEF CreateUser, AccessTypeOK, ProfileInv, FilesAreTyped
  <2>3. ASSUME NEW u \in Users, NEW k \in Keys, CreateAuthKey(k, u)
        PROVE  AccessTypeOK' /\ \A j \in shown' : owner'[j] # None
    <3>1. under' \in [Keys -> Kek]
      BY <2>3 DEF CreateAuthKey, Seal, AccessTypeOK, BootTypeOK
    <3>2. AccessTypeOK'
      BY <2>3, <3>1 DEF CreateAuthKey, AccessTypeOK
    <3>3. \A j \in shown' : owner'[j] # None
      BY <2>3 DEF CreateAuthKey, AccessTypeOK, ProfileInv, FilesAreTyped
    <3>4. QED
      BY <3>2, <3>3
  <2>4. QED
    BY <2>1, <2>2, <2>3
<1>4. FilesAreTyped'
  BY <1>1, <1>3 DEF ProfileInv, FilesAreTyped, Typed
<1>5. QED
  BY <1>2, <1>3, <1>4 DEF ProfileInv

LEMMA ConfigureStepKept ==
    ASSUME AccessTypeOK, ProfileInv, NEW s \in Shells, ConfigureStep(s)
    PROVE  AccessTypeOK' /\ ProfileInv'
<1> USE AccessAssumption DEF AccessAssumption
<1>1. UNCHANGED adminVars /\ Typed' = Typed /\ Typed \subseteq Profile
  BY DEF ConfigureStep, Configure, OpenTemp, WriteText, RenameConfig, ConfigureDies,
     adminVars, Typed
<1>2. ASSUME profile' \in File \cup {None}, tmp' \in File \cup {None},
             typing' \in [Shells -> Run]
      PROVE  AccessTypeOK'
  BY <1>1, <1>2 DEF AccessTypeOK, adminVars
<1>3. NoRun \in Run /\ NoRun.on = "none" /\ NoRun.at = "idle"
  BY DEF NoRun, Run, ConfigureStages
<1>4. typing \in [Shells -> Run] /\ typing[s] \in Run
  BY DEF AccessTypeOK
<1>5. FilesAreTyped /\ HandlesAreKnown /\ OwnIsWhole
  BY DEF ProfileInv
<1>6. CASE Configure(s)
  <2>1. PICK auth \in shown \cup {Typo}, secret \in shown \cup {Typo} :
           typing' = [typing EXCEPT ![s] =
                        [at |-> "open", of |-> [auth |-> auth, secret |-> secret],
                         on |-> "none"]]
    BY <1>6 DEF Configure
  <2> DEFINE p == [auth |-> auth, secret |-> secret]
             r == [at |-> "open", of |-> p, on |-> "none"]
  <2>2. p \in Typed
    BY DEF Typed, Profile, AccessTypeOK
  <2>3. r \in Run /\ r.at = "open" /\ r.on = "none" /\ r.of = p
    BY <1>1, <2>2 DEF Run, ConfigureStages
  <2> HIDE DEF p, r
  <2>4. typing' = [typing EXCEPT ![s] = r] /\ UNCHANGED <<profile, tmp>>
    BY <1>6, <2>1 DEF Configure, p, r
  <2>5. \A t \in Shells : typing'[t] = IF t = s THEN r ELSE typing[t]
    BY <1>4, <2>4
  <2>6. AccessTypeOK'
    BY <1>2, <1>4, <2>3, <2>4 DEF AccessTypeOK
  <2>7. FilesAreTyped'
    BY <1>1, <1>5, <2>2, <2>3, <2>4, <2>5 DEF FilesAreTyped, adminVars
  <2>8. HandlesAreKnown' /\ OwnIsWhole'
    BY <1>5, <2>3, <2>4, <2>5 DEF HandlesAreKnown, OwnIsWhole, ProfileIsWhole
  <2>9. QED
    BY <2>6, <2>7, <2>8 DEF ProfileInv
<1>7. CASE OpenTemp(s)
  <2> DEFINE by == {s} \cup {t \in Shells : typing[t].on = "tmp"}
             r == [typing[s] EXCEPT !.at = "write", !.on = "tmp"]
  <2>1. r \in Run /\ r.at = "write" /\ r.on = "tmp" /\ r.of = typing[s].of
    BY <1>4 DEF Run, ConfigureStages
  <2>2. typing' = [typing EXCEPT ![s] = r] /\ UNCHANGED profile
    BY <1>4, <1>7 DEF OpenTemp
  <2>3. /\ tmp' = [text |-> Empty, by |-> by] /\ tmp' \in File
        /\ tmp'.by = by /\ tmp'.text = Empty /\ tmp' # None
    BY <1>7 DEF OpenTemp, File
  <2> HIDE DEF r
  <2>4. \A t \in Shells : typing'[t] = IF t = s THEN r ELSE typing[t]
    BY <1>4, <2>2
  <2>5. AccessTypeOK'
    BY <1>2, <1>4, <2>1, <2>2, <2>3 DEF AccessTypeOK
  <2>6. FilesAreTyped'
    BY <1>1, <1>5, <1>7, <2>1, <2>2, <2>3, <2>4 DEF FilesAreTyped, adminVars, OpenTemp
  <2>7. HandlesAreKnown'
    BY <1>5, <2>1, <2>2, <2>3, <2>4 DEF HandlesAreKnown
  <2>8. OwnIsWhole'
    <3>1. \A t \in Shells : by = {t} => t = s
      OBVIOUS
    <3>2. \A t \in Shells : tmp'.by = {t} => typing'[t] = r
      BY <2>3, <2>4, <3>1
    <3>3. by # {}
      OBVIOUS
    <3>4. QED
      BY <1>5, <2>1, <2>2, <2>3, <3>2, <3>3 DEF OwnIsWhole, ProfileIsWhole
  <2>9. QED
    BY <2>5, <2>6, <2>7, <2>8 DEF ProfileInv
<1>8. CASE WriteText(s)
  <2> DEFINE r == [typing[s] EXCEPT !.at = "rename", !.on = "none"]
  <2>1. r \in Run /\ r.at = "rename" /\ r.on = "none" /\ r.of = typing[s].of
    BY <1>4 DEF Run, ConfigureStages
  <2>2. typing' = [typing EXCEPT ![s] = r] /\ typing[s].at = "write"
    BY <1>4, <1>8 DEF WriteText
  <2> HIDE DEF r
  <2>3. \A t \in Shells : typing'[t] = IF t = s THEN r ELSE typing[t]
    BY <1>4, <2>2
  <2>4. typing[s].of \in Typed
    BY <1>5, <2>2 DEF FilesAreTyped
  <2>5. CASE typing[s].on = "tmp"
    <3>1. tmp \in File /\ tmp # None /\ s \in tmp.by /\ UNCHANGED profile
      BY <1>5, <1>8, <2>5 DEF WriteText, HandlesAreKnown, AccessTypeOK
    <3>2. /\ tmp' \in File /\ tmp'.by = tmp.by /\ tmp' # None
          /\ tmp'.text \in {typing[s].of, Torn}
          /\ tmp.text = Empty => tmp'.text = typing[s].of
      BY <1>1, <1>8, <2>4, <2>5, <3>1, OverwrittenFile DEF WriteText
    <3>3. AccessTypeOK'
      BY <1>2, <1>4, <2>1, <2>2, <3>1, <3>2 DEF AccessTypeOK
    <3>4. FilesAreTyped'
      BY <1>1, <1>5, <2>1, <2>3, <2>4, <3>1, <3>2 DEF FilesAreTyped, adminVars
    <3>5. HandlesAreKnown'
      BY <1>5, <2>1, <2>3, <3>1, <3>2 DEF HandlesAreKnown
    <3>6. OwnIsWhole'
      <4>1. ASSUME NEW t \in Shells, tmp'.by = {t}
            PROVE  typing'[t] = r /\ tmp'.text \in Profile
        <5>1. t = s
          BY <3>1, <3>2, <4>1
        <5>2. tmp.text = Empty
          BY <1>5, <2>5, <3>1, <3>2, <4>1, <5>1 DEF OwnIsWhole
        <5>3. QED
          BY <1>1, <2>3, <2>4, <3>2, <5>1, <5>2
      <4>2. QED
        BY <1>5, <2>1, <3>1, <3>2, <4>1 DEF OwnIsWhole, ProfileIsWhole
    <3>7. QED
      BY <3>3, <3>4, <3>5, <3>6 DEF ProfileInv
  <2>6. CASE typing[s].on = "config"
    <3>1. PICK t \in Shells : t # s /\ {s, t} \subseteq profile.by
      BY <1>5, <2>6 DEF HandlesAreKnown
    <3>2. profile \in File /\ profile # None /\ UNCHANGED tmp
      BY <1>5, <1>8, <2>6 DEF WriteText, HandlesAreKnown, AccessTypeOK
    <3>3. /\ profile' \in File /\ profile'.by = profile.by /\ profile' # None
          /\ profile'.text \in {typing[s].of, Torn}
      BY <1>1, <1>8, <2>4, <2>6, <3>2, OverwrittenFile DEF WriteText
    <3>4. AccessTypeOK'
      BY <1>2, <1>4, <2>1, <2>2, <3>2, <3>3 DEF AccessTypeOK
    <3>5. FilesAreTyped'
      BY <1>1, <1>5, <2>1, <2>3, <2>4, <3>2, <3>3 DEF FilesAreTyped, adminVars
    <3>6. HandlesAreKnown'
      BY <1>5, <2>1, <2>3, <3>2, <3>3 DEF HandlesAreKnown
    <3>7. ProfileIsWhole'
      BY <3>1, <3>3 DEF ProfileIsWhole
    <3>8. OwnIsWhole'
      <4>1. \A u \in Shells : tmp # None /\ tmp.by = {u} => u # s
        BY <1>5, <2>2, <2>6 DEF OwnIsWhole
      <4>2. QED
        BY <1>5, <2>3, <3>2, <3>7, <4>1 DEF OwnIsWhole
    <3>9. QED
      BY <3>4, <3>5, <3>6, <3>8 DEF ProfileInv
  <2>7. CASE typing[s].on = "lost"
    <3>1. UNCHANGED <<profile, tmp>>
      BY <1>8, <2>7 DEF WriteText
    <3>2. AccessTypeOK'
      BY <1>2, <1>4, <2>1, <2>2, <3>1 DEF AccessTypeOK
    <3>3. FilesAreTyped' /\ HandlesAreKnown'
      BY <1>1, <1>5, <2>1, <2>3, <2>4, <3>1 DEF FilesAreTyped, HandlesAreKnown, adminVars
    <3>4. OwnIsWhole'
      <4>1. \A u \in Shells : tmp # None /\ tmp.by = {u} => u # s
        BY <1>5, <2>2, <2>7 DEF OwnIsWhole
      <4>2. QED
        BY <1>5, <2>3, <3>1, <4>1 DEF OwnIsWhole, ProfileIsWhole
    <3>5. QED
      BY <3>2, <3>3, <3>4 DEF ProfileInv
  <2>8. QED
    BY <1>8, <2>5, <2>6, <2>7 DEF WriteText
<1>9. CASE RenameConfig(s)
  <2>1. typing[s].at = "rename" /\ typing[s].on = "none"
    BY <1>5, <1>9 DEF RenameConfig, HandlesAreKnown
  <2>2. CASE tmp # None
    <3> DEFINE f == [tmp EXCEPT !.by = @ \cup {s}]
    <3>1. /\ profile' = f /\ tmp' = None
          /\ typing' = [t \in Shells |-> IF t = s THEN NoRun ELSE Followed(typing[t])]
      BY <1>9, <2>2 DEF RenameConfig
    <3>2. tmp \in File
      BY <2>2 DEF AccessTypeOK
    <3>3. f \in File /\ f.by = tmp.by \cup {s} /\ f.text = tmp.text
      BY <3>2 DEF File
    <3> HIDE DEF f
    <3>4. \A t \in Shells : typing[t] \in Run
      BY <1>4
    <3>5. \A t \in Shells :
             /\ typing'[t] \in Run
             /\ t = s => typing'[t] = NoRun
             /\ t # s =>
                  /\ typing'[t].at = typing[t].at /\ typing'[t].of = typing[t].of
                  /\ typing'[t].on = "config" <=> typing[t].on = "tmp"
                  /\ typing'[t].on # "tmp"
                  /\ typing'[t].on # "none" => typing[t].on # "none"
      BY <1>3, <3>1, <3>4, FollowedRun
    <3>6. AccessTypeOK'
      <4>1. typing' = [t \in Shells |-> typing'[t]]
        BY <3>1
      <4>2. typing' \in [Shells -> Run]
        BY <3>5, <4>1
      <4>3. QED
        BY <1>2, <3>1, <3>3, <4>2
    <3>7. FilesAreTyped'
      BY <1>1, <1>3, <1>5, <2>2, <3>1, <3>3, <3>5 DEF FilesAreTyped, adminVars
    <3>8. profile' # None
      BY <3>1, <3>3
    <3>9. HandlesAreKnown'
      <4>1. ASSUME NEW t \in Shells, typing'[t].on = "config"
            PROVE  \E u \in Shells : u # t /\ {t, u} \subseteq profile'.by
        <5>1. t # s /\ typing[t].on = "tmp"
          BY <1>3, <3>5, <4>1
        <5>2. {t, s} \subseteq profile'.by
          BY <1>5, <3>1, <3>3, <5>1 DEF HandlesAreKnown
        <5>3. QED
          BY <5>1, <5>2
      <4>2. \A t \in Shells : typing'[t].on # "tmp"
                              /\ (typing'[t].on # "none" => typing'[t].at = "write")
        BY <1>3, <1>5, <3>5 DEF HandlesAreKnown
      <4>3. QED
        BY <3>8, <4>1, <4>2 DEF HandlesAreKnown
    <3>10. ProfileIsWhole'
      <4>1. ASSUME NEW t \in Shells, profile'.by = {t}
            PROVE  profile'.text \in Profile
        <5>1. t = s /\ tmp.by = {s}
          BY <1>5, <2>2, <3>1, <3>3, <4>1 DEF OwnIsWhole
        <5>2. QED
          BY <1>5, <2>1, <2>2, <3>1, <3>3, <5>1 DEF OwnIsWhole
      <4>2. QED
        BY <4>1 DEF ProfileIsWhole
    <3>11. QED
      BY <3>1, <3>6, <3>7, <3>9, <3>10 DEF ProfileInv, OwnIsWhole
  <2>3. CASE tmp = None
    <3>1. typing' = [typing EXCEPT ![s] = NoRun] /\ UNCHANGED <<profile, tmp>>
      BY <1>9, <2>3 DEF RenameConfig
    <3>2. \A t \in Shells : typing'[t] = IF t = s THEN NoRun ELSE typing[t]
      BY <1>4, <3>1
    <3>3. AccessTypeOK'
      BY <1>2, <1>3, <1>4, <3>1 DEF AccessTypeOK
    <3>4. FilesAreTyped'
      BY <1>1, <1>3, <1>5, <3>1, <3>2 DEF FilesAreTyped, adminVars
    <3>5. HandlesAreKnown' /\ OwnIsWhole'
      BY <1>3, <1>5, <3>1, <3>2 DEF HandlesAreKnown, OwnIsWhole, ProfileIsWhole
    <3>6. QED
      BY <3>3, <3>4, <3>5 DEF ProfileInv
  <2>4. QED
    BY <2>2, <2>3
<1>10. CASE ConfigureDies(s)
  <2>1. typing' = [typing EXCEPT ![s] = NoRun] /\ UNCHANGED <<profile, tmp>>
    BY <1>10 DEF ConfigureDies
  <2>2. \A t \in Shells : typing'[t] = IF t = s THEN NoRun ELSE typing[t]
    BY <1>4, <2>1
  <2>3. AccessTypeOK'
    BY <1>2, <1>3, <1>4, <2>1 DEF AccessTypeOK
  <2>4. FilesAreTyped'
    BY <1>1, <1>3, <1>5, <2>1, <2>2 DEF FilesAreTyped, adminVars
  <2>5. HandlesAreKnown' /\ OwnIsWhole'
    BY <1>3, <1>5, <2>1, <2>2 DEF HandlesAreKnown, OwnIsWhole, ProfileIsWhole
  <2>6. QED
    BY <2>3, <2>4, <2>5 DEF ProfileInv
<1>11. QED
  BY <1>6, <1>7, <1>8, <1>9, <1>10 DEF ConfigureStep

LEMMA ProfileStep ==
    BootTypeOK /\ AccessTypeOK /\ ProfileInv /\ [Next]_vars => AccessTypeOK' /\ ProfileInv'
<1> SUFFICES ASSUME BootTypeOK, AccessTypeOK, ProfileInv, [Next]_vars
             PROVE  AccessTypeOK' /\ ProfileInv'
  OBVIOUS
<1>1. ASSUME UNCHANGED accessVars
      PROVE  AccessTypeOK' /\ ProfileInv'
  BY <1>1 DEF accessVars, AccessTypeOK, ProfileInv, FilesAreTyped, HandlesAreKnown,
     OwnIsWhole, ProfileIsWhole, Typed
<1>2. QED
  BY <1>1, AccessLeftAlone, AdminStep, ConfigureStepKept DEF AccessStep

LEMMA ProfileInvariant == Spec => [](AccessTypeOK /\ ProfileInv)
BY BootInvariant, ProfileInit, ProfileStep, PTL DEF Spec

(***************************************************************************)
(* Whatever an interrupted `configure` has left, a config.toml that the    *)
(* runs of one shell alone have written is whole (config.go:45-50).        *)
(***************************************************************************)
THEOREM ProfilesAreWhole == Spec => []ProfileIsWhole
<1>1. ProfileInv => ProfileIsWhole
  BY DEF ProfileInv, OwnIsWhole
<1>2. QED
  BY <1>1, ProfileInvariant, PTL

-----------------------------------------------------------------------------
(* Requests. *)

\* The stage of a request changes, and nothing else of it.
LEMMA StageWritten ==
    ASSUME NEW q \in Req, NEW g \in ReqStages
    PROVE  /\ At(q, g) \in Req /\ At(q, g).at = g
           /\ At(q, g).auth = q.auth /\ At(q, g).secret = q.secret
           /\ At(q, g).answer = q.answer /\ At(q, g).aborted = q.aborted
           /\ At(q, g).late = q.late /\ At(q, g).open = q.open
BY DEF At, Req

\* The first answer is kept, and nothing else of the request changes.
LEMMA AnswerWritten ==
    ASSUME NEW q \in Req, NEW s \in {200, 401, 429, 500}
    PROVE  /\ Answered(q, s) \in Req
           /\ Answered(q, s).answer = (IF q.answer = NoAnswer THEN s ELSE q.answer)
           /\ Answered(q, s).at = q.at
           /\ Answered(q, s).auth = q.auth /\ Answered(q, s).secret = q.secret
           /\ Answered(q, s).aborted = q.aborted
           /\ Answered(q, s).late = q.late /\ Answered(q, s).open = q.open
<1>1. [q EXCEPT !.answer = s] \in Req
  BY DEF Req
<1>2. QED
  BY <1>1 DEF Answered, Req

\* An abort is an answer, and the chain is aborted.
LEMMA AbortWritten ==
    ASSUME NEW q \in Req, NEW s \in {200, 401, 429, 500}
    PROVE  /\ Abort(q, s) \in Req /\ Abort(q, s).aborted
           /\ Abort(q, s).answer = (IF q.answer = NoAnswer THEN s ELSE q.answer)
           /\ Abort(q, s).at = q.at
           /\ Abort(q, s).auth = q.auth /\ Abort(q, s).secret = q.secret
           /\ Abort(q, s).late = q.late /\ Abort(q, s).open = q.open
<1> DEFINE a == Answered(q, s)
<1>1. ASSUME NEW p \in Req
      PROVE  [p EXCEPT !.aborted = TRUE] \in Req
  <2> DEFINE K == Keys \cup {Typo, None}
             S == Keys \cup {Typo, None}
             D == 0 .. MaxTime
             A == {NoAnswer, 200, 401, 429, 500}
  <2> HIDE DEF K, S, D, A
  <2>1. Req = [at : ReqStages, auth : K, secret : S, date : D, answer : A,
               aborted : BOOLEAN, late : BOOLEAN, open : BOOLEAN]
    BY Zenon DEF Req, K, S, D, A
  <2>2. QED
    BY <2>1, Zenon
<1>2. a \in Req
  BY AnswerWritten
<1>3. Abort(q, s) = [a EXCEPT !.aborted = TRUE]
  BY DEF Abort
<1> HIDE DEF a
<1>4. /\ [a EXCEPT !.aborted = TRUE].aborted
      /\ [a EXCEPT !.aborted = TRUE].answer = a.answer
      /\ [a EXCEPT !.aborted = TRUE].at = a.at
      /\ [a EXCEPT !.aborted = TRUE].auth = a.auth
      /\ [a EXCEPT !.aborted = TRUE].secret = a.secret
      /\ [a EXCEPT !.aborted = TRUE].late = a.late
      /\ [a EXCEPT !.aborted = TRUE].open = a.open
  BY <1>2 DEF Req
<1>5. Abort(q, s) \in Req
  BY <1>1, <1>2, <1>3
<1>6. QED
  BY <1>3, <1>4, <1>5, AnswerWritten DEF a

(***************************************************************************)
(* What is known of a request q with the row f that was found for it.  A   *)
(* chain that goes on has passed every check so far, and an answer that    *)
(* has been written was written for its cause.                             *)
(***************************************************************************)
Signed(q, f) ==
    /\ q.auth \in Keys /\ q.secret = q.auth
    /\ ~ q.late
    /\ f.user # None /\ f.user = owner[q.auth]

\* What may be said of a request that is refused, whatever is shown later.
NotAsShown(q) == q.late \/ q.auth \in {None, Typo} \/ q.secret # q.auth

Sound(q, f) ==
    /\ q.auth \in {None, Typo} \/ (q.auth \in Keys /\ owner[q.auth] # None)
    /\ q.at \in {"new", "wire"} => q.answer = NoAnswer /\ ~ q.aborted /\ ~ q.late
    /\ q.aborted => q.answer \in {401, 429, 500} /\ q.at # "run"
    /\ q.at \in {"dated", "known"} => NeedsUser(q)
    /\ q.at \in {"dated", "known"} /\ ~ q.aborted =>
          q.auth # None /\ ~ q.late /\ q.answer = NoAnswer
    /\ q.at = "known" => q.auth \in Keys /\ f.secret = q.auth
                         /\ f.user # None /\ f.user = owner[q.auth]
    /\ NeedsUser(q) /\ (q.at = "run" \/ q.answer = 200) => Signed(q, f)
    /\ q.answer = 401 => NotAsShown(q)

RequestTypeOK ==
    /\ now \in 0 .. MaxTime
    /\ hits \in Nat
    /\ req \in [Requests -> Req]
    /\ found \in [Requests -> [user : Users \cup {None}, secret : Keys \cup {None}]]

RequestInv == \A r \in Requests : Sound(req[r], found[r])

\* It is enough to look at the request a step is about.
LEMMA OneRequest ==
    ASSUME RequestTypeOK, RequestInv, NEW r \in Requests,
           NEW q \in Req, NEW f \in [user : Users \cup {None}, secret : Keys \cup {None}],
           req' = [req EXCEPT ![r] = q], found' = [found EXCEPT ![r] = f],
           Sound(q, f), UNCHANGED <<now, owner>>, hits' \in Nat
    PROVE  RequestTypeOK' /\ RequestInv'
<1>1. RequestTypeOK'
  BY DEF RequestTypeOK
<1>2. \A s \in Requests : Sound(req'[s], found'[s])
  <2>1. \A s \in Requests : s # r => req'[s] = req[s] /\ found'[s] = found[s]
    BY DEF RequestTypeOK
  <2>2. req'[r] = q /\ found'[r] = f
    BY DEF RequestTypeOK
  <2>3. QED
    BY <2>1, <2>2 DEF RequestInv
<1>3. QED
  BY <1>1, <1>2 DEF RequestInv, Sound, NotAsShown, Signed

\* What is sent has the shape of a request, early or late.
LEMMA SentRecord ==
    ASSUME NEW q \in Req
    PROVE  /\ \A date \in 0 .. MaxTime, auth \in Keys \cup {Typo}, secret \in Keys \cup {Typo} :
                [q EXCEPT !.at = "wire", !.date = date, !.auth = auth, !.secret = secret] \in Req
           /\ \A open \in BOOLEAN : [q EXCEPT !.at = "wire", !.open = open] \in Req
           /\ \A late \in BOOLEAN : [q EXCEPT !.late = late] \in Req
<1> DEFINE K == Keys \cup {Typo, None}
           S == Keys \cup {Typo, None}
           D == 0 .. MaxTime
           A == {NoAnswer, 200, 401, 429, 500}
<1>1. /\ Keys \cup {Typo} \subseteq K /\ Keys \cup {Typo} \subseteq S /\ 0 .. MaxTime = D
      /\ "wire" \in ReqStages
  BY DEF ReqStages
<1> HIDE DEF K, S, D, A
<1>2. Req = [at : ReqStages, auth : K, secret : S, date : D, answer : A,
             aborted : BOOLEAN, late : BOOLEAN, open : BOOLEAN]
  BY Zenon DEF Req, K, S, D, A
<1>3. ASSUME NEW date \in D, NEW auth \in K, NEW secret \in S
      PROVE  [q EXCEPT !.at = "wire", !.date = date, !.auth = auth, !.secret = secret] \in Req
  BY <1>1, <1>2, <1>3, Zenon
<1>4. ASSUME NEW open \in BOOLEAN
      PROVE  [q EXCEPT !.at = "wire", !.open = open] \in Req
  BY <1>1, <1>2, <1>4, Zenon
<1>5. ASSUME NEW late \in BOOLEAN
      PROVE  [q EXCEPT !.late = late] \in Req
  BY <1>2, <1>5, Zenon
<1>6. QED
  BY <1>1, <1>3, <1>4, <1>5

LEMMA SendSound ==
    ASSUME ProfileInv, RequestTypeOK, RequestInv, NEW r \in Requests, Send(r)
    PROVE  RequestTypeOK' /\ RequestInv'
<1> DEFINE q == req[r]
           f == found[r]
<1>1. /\ q \in Req /\ f \in [user : Users \cup {None}, secret : Keys \cup {None}]
      /\ Sound(q, f) /\ q.at = "new"
      /\ found' = [found EXCEPT ![r] = f] /\ UNCHANGED <<now, owner, hits>>
  BY DEF RequestTypeOK, RequestInv, Send, sharedVars, accessVars
<1>2. ASSUME NEW date \in 0 .. MaxTime, profile # None, profile.text \in Profile,
             req' = [req EXCEPT ![r] = [@ EXCEPT !.at = "wire", !.date = date,
                                          !.auth = profile.text.auth,
                                          !.secret = profile.text.secret]]
      PROVE  RequestTypeOK' /\ RequestInv'
  <2> DEFINE p == [q EXCEPT !.at = "wire", !.date = date,
                            !.auth = profile.text.auth, !.secret = profile.text.secret]
  <2>1. /\ profile.text.auth \in Keys \cup {Typo} /\ profile.text.secret \in Keys \cup {Typo}
        /\ profile.text.auth \in Keys => owner[profile.text.auth] # None
    BY <1>2, AccessAssumption DEF AccessAssumption, ProfileInv, FilesAreTyped, Typed, Profile
  <2>2. p \in Req
    BY <1>1, <2>1, Zenon, SentRecord
  <2>3. /\ p.at = "wire" /\ p.auth = profile.text.auth /\ p.secret = profile.text.secret
        /\ p.answer = q.answer /\ p.aborted = q.aborted /\ p.late = q.late
    BY <1>1 DEF Req
  <2>4. Sound(p, f)
    BY <1>1, <2>1, <2>3 DEF Sound, NotAsShown, NoAnswer
  <2>5. req' = [req EXCEPT ![r] = p]
    BY <1>2
  <2>6. hits' \in Nat
    BY <1>1 DEF RequestTypeOK
  <2> HIDE DEF p, q, f
  <2>7. QED
    BY <1>1, <2>2, <2>4, <2>5, <2>6, OneRequest
<1>3. ASSUME NEW open \in BOOLEAN,
             req' = [req EXCEPT ![r] = [@ EXCEPT !.at = "wire", !.open = open]]
      PROVE  RequestTypeOK' /\ RequestInv'
  <2> DEFINE p == [q EXCEPT !.at = "wire", !.open = open]
  <2>2. p \in Req
    BY <1>1, Zenon, SentRecord
  <2>3. /\ p.at = "wire" /\ p.auth = q.auth /\ p.secret = q.secret
        /\ p.answer = q.answer /\ p.aborted = q.aborted /\ p.late = q.late
    BY <1>1 DEF Req
  <2>4. Sound(p, f)
    BY <1>1, <2>3 DEF Sound, NotAsShown, NoAnswer
  <2>5. req' = [req EXCEPT ![r] = p]
    BY <1>3
  <2>6. hits' \in Nat
    BY <1>1 DEF RequestTypeOK
  <2> HIDE DEF p, q, f
  <2>7. QED
    BY <1>1, <2>2, <2>4, <2>5, <2>6, OneRequest
<1>4. QED
  BY <1>2, <1>3 DEF Send

LEMMA HeadersSound ==
    ASSUME RequestTypeOK, RequestInv, NEW r \in Requests, CheckHeaders(r)
    PROVE  RequestTypeOK' /\ RequestInv'
<1> DEFINE q == req[r]
           f == found[r]
           stale == Apart(now, q.date) > Window
           l == [q EXCEPT !.late = stale]
<1>1. /\ q \in Req /\ f \in [user : Users \cup {None}, secret : Keys \cup {None}]
      /\ Sound(q, f) /\ q.at = "wire"
      /\ found' = [found EXCEPT ![r] = f] /\ UNCHANGED <<now, owner>> /\ hits' \in Nat
  BY DEF RequestTypeOK, RequestInv, CheckHeaders, sharedVars, accessVars
<1>2. stale \in BOOLEAN
  OBVIOUS
<1>3. \/ req' = [req EXCEPT ![r] = At(Abort(q, 429), "answered")]
      \/ ~ NeedsUser(q) /\ req' = [req EXCEPT ![r] = At(q, "run")]
      \/ /\ NeedsUser(q) /\ (Unsigned(q) \/ stale)
         /\ req' = [req EXCEPT ![r] = At(Abort(l, 401), "dated")]
      \/ /\ NeedsUser(q) /\ ~ Unsigned(q)
         /\ req' = [req EXCEPT ![r] = At(q, "dated")]
  BY DEF CheckHeaders
<1> HIDE DEF stale
<1>4. l \in Req
  BY <1>1, <1>2, Zenon, SentRecord
<1>5. /\ l.late = stale /\ l.at = q.at /\ l.auth = q.auth /\ l.secret = q.secret
      /\ l.answer = q.answer /\ l.aborted = q.aborted /\ l.open = q.open
  BY <1>1 DEF Req
<1> HIDE DEF q, f, l
<1> USE DEF Sound, NotAsShown, Signed, NoAnswer, NeedsUser, Unsigned
<1>6. ASSUME NEW p \in Req, req' = [req EXCEPT ![r] = p], Sound(p, f)
      PROVE  RequestTypeOK' /\ RequestInv'
  <2> HIDE DEF Sound, NotAsShown, Signed, NoAnswer, NeedsUser, Unsigned
  <2>1. QED
    BY <1>1, <1>6, OneRequest
<1>7. /\ "answered" \in ReqStages /\ "run" \in ReqStages /\ "dated" \in ReqStages
  BY DEF ReqStages
<1>8. At(Abort(q, 429), "answered") \in Req /\ Sound(At(Abort(q, 429), "answered"), f)
  <2> DEFINE a == Abort(q, 429)
  <2>1. /\ a \in Req /\ a.aborted /\ a.answer = 429
        /\ a.auth = q.auth /\ a.secret = q.secret /\ a.late = q.late /\ a.open = q.open
    BY <1>1, AbortWritten
  <2> HIDE DEF a
  <2>2. At(a, "answered") \in Req /\ Sound(At(a, "answered"), f)
    BY <1>1, <1>7, <2>1, StageWritten
  <2>3. QED
    BY <2>2 DEF a
<1>9. ~ NeedsUser(q) => At(q, "run") \in Req /\ Sound(At(q, "run"), f)
  BY <1>1, <1>7, StageWritten
<1>10. NeedsUser(q) /\ (Unsigned(q) \/ stale) =>
          At(Abort(l, 401), "dated") \in Req /\ Sound(At(Abort(l, 401), "dated"), f)
  <2> DEFINE a == Abort(l, 401)
  <2>1. /\ a \in Req /\ a.aborted /\ a.answer = 401
        /\ a.auth = q.auth /\ a.secret = q.secret /\ a.late = stale /\ a.open = q.open
    BY <1>1, <1>4, <1>5, AbortWritten
  <2> HIDE DEF a
  <2>2. NeedsUser(q) /\ (Unsigned(q) \/ stale) =>
           At(a, "dated") \in Req /\ Sound(At(a, "dated"), f)
    BY <1>1, <1>7, <2>1, StageWritten
  <2>3. QED
    BY <2>2 DEF a
<1>11. NeedsUser(q) /\ ~ Unsigned(q) => At(q, "dated") \in Req /\ Sound(At(q, "dated"), f)
  BY <1>1, <1>7, StageWritten
<1>12. QED
  BY <1>3, <1>6, <1>8, <1>9, <1>10, <1>11

\* An abort after the headers ends the request soundly if its 401 has a cause.
LEMMA AbortSound ==
    ASSUME NEW q \in Req, NEW f, Sound(q, f), q.at \in {"dated", "known"},
           NEW s \in {401, 500},
           s = 401 => q.answer # NoAnswer \/ NotAsShown(q)
    PROVE  /\ Abort(q, s) \in Req
           /\ At(Abort(q, s), "answered") \in Req
           /\ Sound(At(Abort(q, s), "answered"), f)
<1> DEFINE a == Abort(q, s)
<1>1. /\ a \in Req /\ a.aborted
      /\ a.answer = (IF q.answer = NoAnswer THEN s ELSE q.answer)
      /\ a.auth = q.auth /\ a.secret = q.secret /\ a.late = q.late /\ a.open = q.open
  BY AbortWritten
<1> HIDE DEF a
<1>2. "answered" \in ReqStages
  BY DEF ReqStages
<1>3. At(a, "answered") \in Req /\ Sound(At(a, "answered"), f)
  BY <1>1, <1>2, StageWritten DEF Sound, NotAsShown, Signed, NoAnswer, NeedsUser
<1>4. QED
  BY <1>1, <1>3 DEF a

LEMMA LookUpSound ==
    ASSUME RequestTypeOK, RequestInv, AccessTypeOK, NEW r \in Requests, LookUpKey(r)
    PROVE  RequestTypeOK' /\ RequestInv'
<1> DEFINE q == req[r]
           f == found[r]
<1>1. /\ q \in Req /\ f \in [user : Users \cup {None}, secret : Keys \cup {None}]
      /\ Sound(q, f) /\ q.at = "dated"
      /\ UNCHANGED <<now, owner, hits>> /\ hits' \in Nat
      /\ found = [found EXCEPT ![r] = f]
  BY DEF RequestTypeOK, RequestInv, LookUpKey, sharedVars, accessVars
<1>2. ASSUME NEW p \in Req, req' = [req EXCEPT ![r] = p],
             NEW g \in [user : Users \cup {None}, secret : Keys \cup {None}],
             found' = [found EXCEPT ![r] = g], Sound(p, g)
      PROVE  RequestTypeOK' /\ RequestInv'
  BY <1>1, <1>2, OneRequest
<1>3. ASSUME HasRow(q), req' = [req EXCEPT ![r] = At(q, "known")],
             found' = [found EXCEPT ![r] = [user |-> owner[q.auth], secret |-> q.auth]]
      PROVE  RequestTypeOK' /\ RequestInv'
  <2> DEFINE g == [user |-> owner[q.auth], secret |-> q.auth]
             p == At(q, "known")
  <2>1. q.auth \in Keys
    BY <1>1, <1>3 DEF HasRow, Req
  <2>2. g \in [user : Users \cup {None}, secret : Keys \cup {None}]
        /\ g.user = owner[q.auth] /\ g.secret = q.auth
    BY <2>1 DEF AccessTypeOK
  <2>3. "known" \in ReqStages
    BY DEF ReqStages
  <2>4. p \in Req /\ Sound(p, g)
    <3> HIDE DEF g, q, f
    <3>1. QED
      BY <1>1, <1>3, <2>2, <2>3, StageWritten DEF Sound, NotAsShown, Signed, HasRow, NeedsUser, NoAnswer
  <2>5. req' = [req EXCEPT ![r] = p] /\ found' = [found EXCEPT ![r] = g]
    BY <1>3
  <2> HIDE DEF p, g
  <2>6. QED
    BY <1>2, <2>2, <2>4, <2>5
<1>4. ASSUME NEW s \in {401, 500}, s = 401 => ~ HasRow(q), UNCHANGED found,
             req' = [req EXCEPT ![r] = At(Abort(q, s), "answered")]
      PROVE  RequestTypeOK' /\ RequestInv'
  <2>1. s = 401 => q.answer # NoAnswer \/ NotAsShown(q)
    BY <1>1, <1>4 DEF Sound, HasRow, NotAsShown
  <2> HIDE DEF q, f
  <2>2. At(Abort(q, s), "answered") \in Req /\ Sound(At(Abort(q, s), "answered"), f)
    BY <1>1, <2>1, AbortSound
  <2>3. QED
    BY <1>1, <1>2, <1>4, <2>2
<1>5. QED
  <2>1. \/ HasRow(q) /\ req' = [req EXCEPT ![r] = At(q, "known")]
           /\ found' = [found EXCEPT ![r] = [user |-> owner[q.auth], secret |-> q.auth]]
        \/ /\ ~ HasRow(q) /\ UNCHANGED found
           /\ req' = [req EXCEPT ![r] = At(Abort(q, 401), "answered")]
        \/ /\ UNCHANGED found
           /\ req' = [req EXCEPT ![r] = At(Abort(q, 500), "answered")]
    BY DEF LookUpKey
  <2> HIDE DEF q, f
  <2>2. QED
    BY <1>3, <1>4, <2>1

LEMMA CompareSound ==
    ASSUME RequestTypeOK, RequestInv, NEW r \in Requests, CompareSignatures(r)
    PROVE  RequestTypeOK' /\ RequestInv'
<1> DEFINE q == req[r]
           f == found[r]
           a == Abort(q, 401)
           p == CallHandler(IF ~ SignedWith(q, f.secret) THEN a ELSE q)
<1>1. /\ q \in Req /\ f \in [user : Users \cup {None}, secret : Keys \cup {None}]
      /\ Sound(q, f) /\ q.at = "known"
      /\ UNCHANGED <<now, owner, hits>> /\ hits' \in Nat
      /\ found' = [found EXCEPT ![r] = f]
      /\ req' = [req EXCEPT ![r] = p]
  BY DEF RequestTypeOK, RequestInv, CompareSignatures, sharedVars, accessVars
<1> HIDE DEF q, f
<1>2. "answered" \in ReqStages /\ "run" \in ReqStages
  BY DEF ReqStages
<1>3. CASE ~ SignedWith(q, f.secret)
  <2>1. NotAsShown(q)
    BY <1>1, <1>3 DEF Sound, NotAsShown, SignedWith, NotAsShown
  <2>2. a.aborted
    BY <1>1, AbortWritten
  <2>3. p = At(a, "answered")
    BY <1>3, <2>2 DEF CallHandler
  <2>4. p \in Req /\ Sound(p, f)
    <3>1. At(a, "answered") \in Req /\ Sound(At(a, "answered"), f)
      BY <1>1, <2>1, AbortSound
    <3> HIDE DEF p, a
    <3>2. QED
      BY <2>3, <3>1
  <2> HIDE DEF p
  <2>5. QED
    BY <1>1, <2>4, OneRequest
<1>4. CASE SignedWith(q, f.secret)
  <2>1. p = CallHandler(q)
    BY <1>4
  <2> HIDE DEF p
  <2>2. p \in Req /\ Sound(p, f)
    <3>1. CASE q.aborted
      BY <1>1, <1>2, <2>1, <3>1, StageWritten
      DEF CallHandler, Sound, NotAsShown, Signed, NeedsUser, NoAnswer
    <3>2. CASE ~ q.aborted
      BY <1>1, <1>2, <1>4, <2>1, <3>2, StageWritten
      DEF CallHandler, SignedWith, Sound, NotAsShown, Signed, NeedsUser, NoAnswer
    <3>3. QED
      BY <3>1, <3>2
  <2>3. QED
    BY <1>1, <2>2, OneRequest
<1>5. QED
  BY <1>3, <1>4

LEMMA HandleSound ==
    ASSUME RequestTypeOK, RequestInv, NEW r \in Requests, Handle(r) \/ Refused(r)
    PROVE  RequestTypeOK' /\ RequestInv'
<1> DEFINE q == req[r]
           f == found[r]
<1>1. /\ q \in Req /\ f \in [user : Users \cup {None}, secret : Keys \cup {None}]
      /\ Sound(q, f)
      /\ UNCHANGED <<now, owner, hits>> /\ hits' \in Nat
      /\ found' = [found EXCEPT ![r] = f]
  BY DEF RequestTypeOK, RequestInv, Handle, Refused, sharedVars, accessVars
<1>2. \/ /\ q.at = "run"
         /\ \E s \in {200, 500} : req' = [req EXCEPT ![r] = At(Answered(q, s), "answered")]
      \/ /\ q.at = "wire"
         /\ req' = [req EXCEPT ![r] = At(q, "answered")]
  BY DEF Handle, Refused
<1> HIDE DEF q, f
<1>3. "answered" \in ReqStages
  BY DEF ReqStages
<1>4. ASSUME NEW s \in {200, 500}, q.at = "run"
      PROVE  /\ At(Answered(q, s), "answered") \in Req
             /\ Sound(At(Answered(q, s), "answered"), f)
  <2> DEFINE a == Answered(q, s)
  <2>1. /\ a \in Req /\ a.answer = (IF q.answer = NoAnswer THEN s ELSE q.answer)
        /\ a.auth = q.auth /\ a.secret = q.secret /\ a.aborted = q.aborted
        /\ a.late = q.late /\ a.open = q.open
    BY <1>1, AnswerWritten
  <2> HIDE DEF a
  <2>2. At(a, "answered") \in Req /\ Sound(At(a, "answered"), f)
    BY <1>1, <1>3, <1>4, <2>1, StageWritten DEF Sound, NotAsShown, Signed, NoAnswer, NeedsUser
  <2>3. QED
    BY <2>2 DEF a
<1>5. q.at = "wire" => At(q, "answered") \in Req /\ Sound(At(q, "answered"), f)
  BY <1>1, <1>3, StageWritten DEF Sound, NotAsShown, Signed, NoAnswer, NeedsUser
<1>6. ASSUME NEW p \in Req, req' = [req EXCEPT ![r] = p], Sound(p, f)
      PROVE  RequestTypeOK' /\ RequestInv'
  BY <1>1, <1>6, OneRequest
<1>7. QED
  BY <1>2, <1>4, <1>5, <1>6

\* The connections end: what was answered stays as it was answered.
LEMMA ServerDiesSound ==
    ASSUME RequestTypeOK, RequestInv, ServerDies
    PROVE  RequestTypeOK' /\ RequestInv'
<1>1. UNCHANGED <<now, found, owner>> /\ hits' \in Nat
  BY DEF ServerDies, accessVars
<1>2. "answered" \in ReqStages
  BY DEF ReqStages
<1>3. ASSUME NEW r \in Requests
      PROVE  req'[r] \in Req /\ Sound(req'[r], found[r])
  <2>1. req[r] \in Req /\ Sound(req[r], found[r])
    BY DEF RequestTypeOK, RequestInv
  <2>2. \/ req'[r] = req[r]
        \/ req[r].at \in {"dated", "known", "run"} /\ req'[r] = At(req[r], "answered")
    BY DEF ServerDies
  <2>3. CASE /\ req[r].at \in {"dated", "known", "run"}
             /\ req'[r] = At(req[r], "answered")
    BY <1>2, <2>1, <2>3, StageWritten DEF Sound, NotAsShown, Signed, NoAnswer, NeedsUser
  <2>4. QED
    BY <2>1, <2>2, <2>3
<1>4. req' \in [Requests -> Req]
  <2>1. req' = [r \in Requests |-> req'[r]]
    BY DEF ServerDies
  <2>2. QED
    BY <1>3, <2>1
<1>5. RequestTypeOK'
  BY <1>1, <1>4 DEF RequestTypeOK
<1>6. QED
  BY <1>1, <1>3, <1>5 DEF RequestInv, Sound, NotAsShown, Signed

\* A user of a key stays its user.
LEMMA OwnersStay ==
    ASSUME AccessTypeOK, [Next]_vars, NEW k \in Keys, owner[k] # None
    PROVE  owner'[k] = owner[k]
<1>1. CASE AccessStep
  BY <1>1 DEF AccessStep, CreateUser, CreateAuthKey, ChangeKek, ConfigureStep, Configure,
     OpenTemp, WriteText, RenameConfig, ConfigureDies, adminVars, accessVars, AccessTypeOK
<1>2. QED
  BY <1>1, AccessLeftAlone DEF accessVars

LEMMA RequestStepKept ==
    /\ AccessTypeOK /\ ProfileInv /\ RequestTypeOK /\ RequestInv
    /\ [Next]_vars
    => RequestTypeOK' /\ RequestInv'
<1> SUFFICES ASSUME AccessTypeOK, ProfileInv, RequestTypeOK, RequestInv, [Next]_vars
             PROVE  RequestTypeOK' /\ RequestInv'
  OBVIOUS
<1>1. ASSUME UNCHANGED <<req, found>>, now' \in 0 .. MaxTime, hits' \in Nat
      PROVE  RequestTypeOK' /\ RequestInv'
  <2>1. ASSUME NEW r \in Requests
        PROVE  Sound(req[r], found[r])'
    <3>1. Sound(req[r], found[r]) /\ req[r] \in Req
      BY DEF RequestInv, RequestTypeOK
    <3>2. req[r].auth \in Keys \cup {Typo, None}
      BY <3>1 DEF Req
    <3>3. \/ req[r].auth \in {None, Typo}
          \/ req[r].auth \in Keys /\ owner'[req[r].auth] = owner[req[r].auth]
      BY <3>1, <3>2, OwnersStay DEF Sound
    <3>4. QED
      BY <1>1, <3>1, <3>3, AccessAssumption, FrontAssumption
      DEF Sound, NotAsShown, Signed, AccessAssumption, FrontAssumption
  <2>2. QED
    BY <1>1, <2>1 DEF RequestTypeOK, RequestInv
<1>2. CASE Boots \/ (AccessStep /\ UNCHANGED <<requestVars, hits>>) \/ UNCHANGED vars
  BY <1>1, <1>2 DEF Boots, requestVars, vars, RequestTypeOK
<1>3. CASE Tick
  <2>1. now' \in 0 .. MaxTime /\ hits' \in Nat /\ UNCHANGED <<req, found>>
    BY <1>3, FrontAssumption DEF Tick, RequestTypeOK, FrontAssumption
  <2>2. QED
    BY <1>1, <2>1
<1>4. ASSUME NEW r \in Requests, Send(r) \/ RequestStep(r)
      PROVE  RequestTypeOK' /\ RequestInv'
  BY <1>4, SendSound, HeadersSound, LookUpSound, CompareSound, HandleSound DEF RequestStep
<1>5. QED
  BY <1>2, <1>3, <1>4, ServerDiesSound, StepKinds

LEMMA RequestInvariant == Spec => [](RequestTypeOK /\ RequestInv)
<1>1. Init => RequestTypeOK /\ RequestInv
  <2> SUFFICES ASSUME Init
               PROVE  RequestTypeOK /\ RequestInv
    OBVIOUS
  <2> DEFINE q == [at |-> "new", auth |-> None, secret |-> None, date |-> 0,
                   answer |-> NoAnswer, aborted |-> FALSE, late |-> FALSE, open |-> FALSE]
  <2>1. MaxTime \in Nat /\ 0 \in 0 .. MaxTime
    BY FrontAssumption DEF FrontAssumption
  <2>2. q \in Req
    <3> DEFINE D == 0 .. MaxTime
    <3>1. 0 \in D
      BY <2>1
    <3> HIDE DEF D
    <3>2. Req = [at : ReqStages, auth : Keys \cup {Typo, None}, secret : Keys \cup {Typo, None},
                 date : D, answer : {NoAnswer, 200, 401, 429, 500},
                 aborted : BOOLEAN, late : BOOLEAN, open : BOOLEAN]
      BY DEF Req, D
    <3>3. QED
      BY <3>1, <3>2, Zenon DEF ReqStages
  <2>3. NoOne \in [user : Users \cup {None}, secret : Keys \cup {None}]
    BY DEF NoOne
  <2>4. Sound(q, NoOne)
    BY DEF Sound, NoAnswer
  <2>5. req = [r \in Requests |-> q] /\ found = [r \in Requests |-> NoOne]
        /\ now = 0 /\ hits = 0
    BY DEF Init
  <2> HIDE DEF q
  <2>6. QED
    BY <2>1, <2>2, <2>3, <2>4, <2>5 DEF RequestTypeOK, RequestInv
<1>2. QED
  BY <1>1, ProfileInvariant, RequestStepKept, PTL DEF Spec

(***************************************************************************)
(* Servers, buckets, users, keys, profiles and requests keep their shapes. *)
(***************************************************************************)
THEOREM FrontTypeCorrect == Spec => []TypeOK
<1>1. BootTypeOK /\ AccessTypeOK /\ RequestTypeOK => TypeOK
  BY DEF TypeOK, RequestTypeOK
<1>2. QED
  BY <1>1, BootInvariant, ProfileInvariant, RequestInvariant, PTL

(***************************************************************************)
(* For any number of users, keys and requests: a handler that wants a user *)
(* runs only for a request signed in time with the secret of a key, and as *)
(* the user of that key (auth.go:31-69).                                   *)
(***************************************************************************)
THEOREM OnlySignedIsHandled == Spec => []HandledIsSigned
<1>1. RequestInv => HandledIsSigned
  BY DEF RequestInv, Sound, NotAsShown, Signed, HandledIsSigned
<1>2. QED
  BY <1>1, RequestInvariant, PTL

(***************************************************************************)
(* Nobody who sends in time what create-key has shown is unauthorized      *)
(* (auth.go:39-46, authkey/store.go:36-47).                                *)
(***************************************************************************)
THEOREM RefusalHasCause == Spec => []UnauthorizedForCause
<1>1. AccessTypeOK /\ RequestInv => UnauthorizedForCause
  BY AccessAssumption, FrontAssumption
  DEF AccessAssumption, FrontAssumption, AccessTypeOK, RequestInv, Sound, NotAsShown,
      UnauthorizedForCause
<1>2. QED
  BY <1>1, ProfileInvariant, RequestInvariant, PTL
=============================================================================
