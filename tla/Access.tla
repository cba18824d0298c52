------------------------------- MODULE Access -------------------------------
(***************************************************************************)
(* Users, auth keys and profiles: the admin commands that create them      *)
(* (cmd/admin, server/user, server/authkey) and `oblak configure`, which   *)
(* writes what the operator was shown into the client's profile            *)
(* (cmd/cli/configure.go, cli/config/config.go).                           *)
(*                                                                         *)
(* A secret is random and stands for its key.  Encryption is what it does: *)
(* a stored secret can be had again only under the key encryption key it   *)
(* was stored under.                                                       *)
(***************************************************************************)
EXTENDS Bootstrap

CONSTANTS
    Users, Keys,
    Shells,             \* where `oblak configure` is run, one run at a time in each
    None, Typo,         \* no key; an id or a secret that was not copied right
    Empty, Torn         \* the text of a file without, or with a damaged, profile

VARIABLES
    users,              \* rows of the users table
    owner,              \* per key: the user_id of its row, None without a row
    under,              \* per key: the key encryption key its secret is stored under
    shown,              \* the keys whose id and secret create-key has printed
    profile,            \* config.toml: None, or a file
    tmp,                \* config.toml.tmp: None, or a file
    typing              \* per shell: the run of `oblak configure` in it

accessVars == <<users, owner, under, shown, profile, tmp, typing>>
adminVars == <<users, owner, under, shown>>

Profile == [auth : Keys \cup {Typo}, secret : Keys \cup {Typo}]

\* by: the shells whose run has had the file open since it was last truncated, or
\* has renamed it (of the history, for the properties; the code keeps no such thing).
File == [text : Profile \cup {Empty, Torn}, by : SUBSET Shells]

ConfigureStages == {"idle", "open", "write", "rename"}
NoRun == [at |-> "idle", of |-> None, on |-> "none"]

\* on: where the file is by now that the run has open; lost when it has no name left.
Run == [at : ConfigureStages, of : Profile \cup {None},
        on : {"none", "tmp", "config", "lost"}]

ASSUME AccessAssumption ==
    /\ {Empty, Torn} \cap Profile = {} /\ None \notin File /\ None \notin Profile
    /\ Typo \notin Keys \cup {None}

AccessTypeOK ==
    /\ users \subseteq Users
    /\ owner \in [Keys -> Users \cup {None}]
    /\ under \in [Keys -> Kek]
    /\ shown \subseteq Keys
    /\ profile \in File \cup {None}
    /\ tmp \in File \cup {None}
    /\ typing \in [Shells -> Run]

AccessInit ==
    /\ users = {}
    /\ owner = [k \in Keys |-> None]
    /\ under = [k \in Keys |-> envKek]
    /\ shown = {}
    /\ profile = None /\ tmp = None
    /\ typing = [s \in Shells |-> NoRun]

\* An INSERT whose reply is lost leaves a row the operator is not told of.
CreateUser(u) ==
    /\ u \notin users
    /\ \/ users' = users \cup {u} /\ UNCHANGED faults
       \/ users' \in {users, users \cup {u}} /\ Suffer("db")
    /\ UNCHANGED <<bootVars, envKek, owner, under, shown, profile, tmp, typing>>

\* encrypt, under the .env of the admin command.
Seal(k) == under' = [under EXCEPT ![k] = envKek]

\* The secret is stored, and then printed.
CreateAuthKey(k, u) ==
    /\ owner[k] = None
    /\ u \in users
    /\ \/ /\ owner' = [owner EXCEPT ![k] = u]
          /\ Seal(k)
          /\ shown' = shown \cup {k}
          /\ UNCHANGED faults
       \/ /\ owner' \in {owner, [owner EXCEPT ![k] = u]}
          /\ Seal(k)
          /\ UNCHANGED shown
          /\ Suffer("db")
    /\ UNCHANGED <<bootVars, envKek, users, profile, tmp, typing>>

\* The operator edits .env; running processes keep what they have read.
ChangeKek ==
    /\ \E e \in Kek \ {envKek} : envKek' = e
    /\ Suffer("rekey")
    /\ UNCHANGED <<bootVars, accessVars>>

-----------------------------------------------------------------------------
\* A user types in what create-key has shown, or something else, for the id and for
\* the secret; nothing is checked.  A file that is there and does not parse may end
\* the command here.
Configure(s) ==
    /\ typing[s].at = "idle"
    /\ \E auth, secret \in shown \cup {Typo} :
         typing' = [typing EXCEPT ![s] =
                      [at |-> "open", of |-> [auth |-> auth, secret |-> secret], on |-> "none"]]
    /\ Suffer("configure")
    /\ UNCHANGED <<bootVars, envKek, adminVars, profile, tmp>>

\* Mutant of OpenTemp: the file is written in its place.
OpenInPlace(s) ==
    /\ typing[s].at = "open"
    /\ profile' = [text |-> Empty, by |-> {s} \cup {t \in Shells : typing[t].on = "config"}]
    /\ typing' = [typing EXCEPT ![s].at = "write", ![s].on = "config"]
    /\ UNCHANGED <<bootVars, envKek, faults, adminVars, tmp>>

\* WriteFile opens the one temporary file that every run uses, and truncates it.
OpenTemp(s) ==
    /\ typing[s].at = "open"
    /\ tmp' = [text |-> Empty, by |-> {s} \cup {t \in Shells : typing[t].on = "tmp"}]
    /\ typing' = [typing EXCEPT ![s].at = "write", ![s].on = "tmp"]
    /\ UNCHANGED <<bootVars, envKek, faults, adminVars, profile>>

\* What a file may hold after p is written from its start: nothing else if it was
\* empty, and else, if the two differ in length, the end of what was there.
Overwritten(f, p) ==
    {[f EXCEPT !.text = x] : x \in IF f.text = Empty THEN {p} ELSE {p, Torn}}

\* The text goes to the file this run has opened, wherever that is by now.
WriteText(s) ==
    /\ typing[s].at = "write"
    /\ \/ typing[s].on = "tmp" /\ tmp' \in Overwritten(tmp, typing[s].of) /\ UNCHANGED profile
       \/ /\ typing[s].on = "config"
          /\ profile' \in Overwritten(profile, typing[s].of)
          /\ UNCHANGED tmp
       \/ typing[s].on = "lost" /\ UNCHANGED <<profile, tmp>>
    /\ typing' = [typing EXCEPT ![s].at = "rename", ![s].on = "none"]
    /\ UNCHANGED <<bootVars, envKek, faults, adminVars>>

\* A handle on the temporary file stays on it, and one on the config.toml of before
\* is on a file without a name.
Followed(run) ==
    [run EXCEPT !.on = IF @ = "tmp" THEN "config" ELSE IF @ = "config" THEN "lost" ELSE @]

\* Whatever is under the temporary name is renamed; without it the command fails.
RenameConfig(s) ==
    /\ typing[s].at = "rename"
    /\ \/ /\ tmp # None
          /\ profile' = [tmp EXCEPT !.by = @ \cup {s}]
          /\ tmp' = None
          /\ typing' = [t \in Shells |-> IF t = s THEN NoRun ELSE Followed(typing[t])]
       \/ /\ tmp = None
          /\ typing' = [typing EXCEPT ![s] = NoRun]
          /\ UNCHANGED <<profile, tmp>>
    /\ UNCHANGED <<bootVars, envKek, faults, adminVars>>

\* The command is interrupted; what it has written stays.
ConfigureDies(s) ==
    /\ typing[s].at # "idle"
    /\ typing' = [typing EXCEPT ![s] = NoRun]
    /\ Suffer("kill")
    /\ UNCHANGED <<bootVars, envKek, adminVars, profile, tmp>>

ConfigureStep(s) ==
    \/ Configure(s) \/ OpenTemp(s) \/ WriteText(s) \/ RenameConfig(s) \/ ConfigureDies(s)

AccessStep ==
    \/ \E u \in Users : CreateUser(u) \/ \E k \in Keys : CreateAuthKey(k, u)
    \/ ChangeKek
    \/ \E s \in Shells : ConfigureStep(s)

(***************************************************************************)
(* A config.toml that the runs of one shell alone have written has a whole *)
(* profile in it, whatever of them was interrupted, and whatever they and  *)
(* others have left in the temporary file (config.go:45-50).  Runs in two  *)
(* shells at once may leave an empty or a damaged one.                     *)
(***************************************************************************)
ProfileIsWhole ==
    profile # None /\ (\E s \in Shells : profile.by = {s}) => profile.text \in Profile
=============================================================================
