----------------------------- MODULE MCAnalysis -----------------------------
(* A small instance of Analysis for TLC. *)
EXTENDS Analysis, TLC

CONSTANT MaxEntries         \* bound: the length of an archive

Entry(type, form, path, size) == [type |-> type, form |-> form, path |-> path, size |-> size]

Entries ==
    {Entry("reg", "relative", <<"a">>, 3), Entry("reg", "relative", <<"b">>, 1),
     Entry("reg", "relative", <<"a", "c">>, 1), Entry("dir", "relative", <<"a">>, 0),
     Entry("reg", "outside", <<"b">>, 1),
     Entry("reg", "suspect", <<"b">>, 1),
     Entry("reg", "long", <<"b">>, 1),
     Entry("other", "relative", <<"b">>, 0), Entry("broken", "relative", <<"b">>, 0)}

\* An entry for which one of the readers does something else than write it.
Odd(e) == e.form # "relative" \/ e.type \in {"other", "broken"}

\* The longest archives have one odd entry at most.
SmallArchives ==
    {a \in BoundedSeq(Entries, MaxEntries) :
        Len(a) = MaxEntries => Cardinality({i \in DOMAIN a : Odd(a[i])}) <= 1}

EachOnce == [k \in FaultKinds |-> 1]
=============================================================================
