------------------------------ MODULE Archive -------------------------------
(***************************************************************************)
(* The two readers of an uploaded archive: the server's extractor, which   *)
(* only looks at the headers (server/extractor/extractor.go), and the      *)
(* analyzer's unzipper, which writes the files (orchestrator/unzipper.go). *)
(* Each has rules and limits of its own.                                   *)
(*                                                                         *)
(* An entry is what the readers tell apart: its type ("reg", "dir",        *)
(* "other", or "broken" where the stream cannot be read on), the form of   *)
(* its name, the cleaned path, << >> for ".", and its size.  The forms:    *)
(* "relative"; "suspect", absolute or with ".." in it, yet inside the      *)
(* target once it is joined to it ("/a", "a..b", out and back in again);   *)
(* "outside", which is not; and "long", which no file system takes.        *)
(***************************************************************************)
EXTENDS Naturals, FiniteSets, SequencesExt

CONSTANTS
    MaxTotalSize, MaxFiles,     \* limits of the extractor
    MaxAllowedBytes             \* limit of the unzipper

ASSUME ArchiveAssumption ==
    /\ MaxTotalSize \in Nat /\ MaxFiles \in Nat /\ MaxAllowedBytes \in Nat
    /\ MaxTotalSize < MaxAllowedBytes

Forms == {"relative", "suspect", "outside", "long"}

\* archive/tar has no headers with a negative size.
ArchiveEntries ==
    [type : {"reg", "dir", "other", "broken"}, form : Forms, path : Seq(STRING), size : Nat]

SizeUpTo(archive, k) == FoldLeft(LAMBDA sum, e : sum + e.size, 0, SubSeq(archive, 1, k))

\* validateTarHeader, for the k-th header after those before it.  It does not
\* look at the length of a name; archive/tar gives none with a NUL in it.
ValidHeader(archive, k) ==
    /\ archive[k].type \in {"reg", "dir"}
    /\ archive[k].form \in {"relative", "long"}
    /\ archive[k].path # << >>
    /\ SizeUpTo(archive, k) <= MaxTotalSize
    /\ k <= MaxFiles

\* Extractor.Unzip: an archive passes when all its headers do.
Passes(archive) == \A k \in DOMAIN archive : ValidHeader(archive, k)

-----------------------------------------------------------------------------
\* The unzipper's target: directories, the length of each file, the total.
EmptyTarget == [ok |-> TRUE, written |-> 0, dirs |-> {<< >>}, files |-> << >>]

Parents(path) == {SubSeq(path, 1, n) : n \in 0 .. Len(path) - 1}

HasFile(target, paths) == DOMAIN target.files \cap paths # {}

Refused(target) == [target EXCEPT !.ok = FALSE]

\* MkdirAll fails on a file in its way.
UnpackDirectory(target, e) ==
    IF HasFile(target, Parents(e.path) \cup {e.path})
    THEN Refused(target)
    ELSE [target EXCEPT !.dirs = @ \cup Parents(e.path) \cup {e.path}]

\* Mutant of WithinLimit: the limit itself is still allowed.
WithinLimitToo(written) == written <= MaxAllowedBytes

WithinLimit(written) == written < MaxAllowedBytes

\* Mutant of UnpackFile: the stream is copied without io.LimitReader.
UnpackFileUnlimited(target, e) ==
    IF HasFile(target, Parents(e.path)) \/ e.path \in target.dirs
    THEN Refused(target)
    ELSE LET written == target.written + e.size
         IN [ok      |-> WithinLimit(written),
             written |-> written,
             dirs    |-> target.dirs \cup Parents(e.path),
             files   |-> [p \in DOMAIN target.files \cup {e.path} |->
                            IF p = e.path THEN e.size ELSE target.files[p]]]

\* io.LimitReader ends the file at what the limit leaves.
UnpackFile(target, e) ==
    IF HasFile(target, Parents(e.path)) \/ e.path \in target.dirs
    THEN Refused(target)
    ELSE LET length == IF e.size > MaxAllowedBytes - target.written
                       THEN MaxAllowedBytes - target.written ELSE e.size
             written == target.written + length
         IN [ok      |-> WithinLimit(written),
             written |-> written,
             dirs    |-> target.dirs \cup Parents(e.path),
             files   |-> [p \in DOMAIN target.files \cup {e.path} |->
                            IF p = e.path THEN length ELSE target.files[p]]]

\* The stream ends, the prefix of the target is missing, or MkdirAll and
\* OpenFile fail on the name.
Unwritable(e) ==
    \/ e.type = "broken"
    \/ e.form = "outside"
    \/ e.form = "long" /\ e.type \in {"reg", "dir"}

\* Links and devices are passed over; a suspect name is taken below the target.
UnpackEntry(target, e) ==
    CASE ~target.ok                                      -> target
      [] target.ok /\ Unwritable(e)                      -> Refused(target)
      [] target.ok /\ ~Unwritable(e) /\ e.type = "dir"   -> UnpackDirectory(target, e)
      [] target.ok /\ ~Unwritable(e) /\ e.type = "reg"   -> UnpackFile(target, e)
      [] OTHER                                           -> target

\* Mutant of Unpack: a directory is made only by an entry of its own.
UnpackWithoutParents(archive) ==
    FoldLeft(LAMBDA target, e :
                IF e.type = "reg" /\ ~(Parents(e.path) \subseteq target.dirs)
                THEN Refused(target) ELSE UnpackEntry(target, e),
             EmptyTarget, archive)

\* UnzipperService.Extract.
Unpack(archive) == FoldLeft(UnpackEntry, EmptyTarget, archive)

-----------------------------------------------------------------------------
\* The files an archive holds: every name once, and nothing below a file.
TreeShaped(archive) ==
    \A j, k \in DOMAIN archive :
        j # k => /\ archive[j].path # archive[k].path
                 /\ archive[k].type = "reg" => archive[k].path \notin Parents(archive[j].path)

NamesFit(archive) == \A k \in DOMAIN archive : archive[k].form # "long"

Regular(archive) == {k \in DOMAIN archive : archive[k].type = "reg"}

\* Every file is there with the length of its last entry.
Complete(archive, target) ==
    /\ DOMAIN target.files = {archive[k].path : k \in Regular(archive)}
    /\ \A p \in DOMAIN target.files :
         \E k \in Regular(archive) :
            /\ archive[k].path = p /\ archive[k].size = target.files[p]
            /\ \A j \in Regular(archive) : archive[j].path = p => j <= k
=============================================================================
