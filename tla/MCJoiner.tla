------------------------------ MODULE MCJoiner ------------------------------
(***************************************************************************)
(* Every fingerprint and every scan of up to three paths, where a path is  *)
(* absent, a directory, a file with one of two contents, or unreadable.    *)
(***************************************************************************)
EXTENDS Joiner, SequencesExt

File(p, h)    == [path |-> p, type |-> "file", err |-> FALSE, hash |-> h, link |-> 1,
                  size |-> 1, mtime |-> 1, attrs |-> 1]
Dir(p)        == [File(p, "unhashed") EXCEPT !.type = "dir"]
Unreadable(p) == [File(p, "unhashed") EXCEPT !.err = TRUE]

\* The entries of a stream for one path: one, or none.
At(p, what) ==
    CASE what = "dir"        -> <<Dir(p)>>
      [] what = "unreadable" -> <<Unreadable(p)>>
      [] what = "absent"     -> <<>>
      [] OTHER               -> <<File(p, what)>>

What == {"absent", "dir", "h1", "h2", "unreadable"}

Streams == {FlattenSeq([p \in Path |-> At(p, f[p])]) : f \in [Path -> What]}

\* Rules that overlap with --show: added directories are hidden, and at path 2
\* they are ignored as well.
MCIgnored == {<<"+D", 2>>, <<"-F", 1>>, <<"~F", 3>>}
MCShown   == Op \ {"+D", "~D"}
=============================================================================
