--------------------------- MODULE ClassifyCheck ---------------------------
(***************************************************************************)
(* Classify over every pair of entries of one path.  A step is something   *)
(* that happens to the file between the two scans, so that the action      *)
(* properties can say what a given change may do to the verdict.           *)
(***************************************************************************)
EXTENDS Classify

VARIABLES old, live

entries == <<old, live>>

SamePath == {e \in Entry : e.path = CHOOSE p \in Path : TRUE}

EntriesInit ==
    /\ old \in SamePath
    /\ live = old

\* One fact of the live entry changes.
Touch    == \E t \in MTime : live' = [live EXCEPT !.mtime = t]
Chmod    == \E a \in Attrs : live' = [live EXCEPT !.attrs = a]
Rewrite  == \E h \in Hash \cup {Unhashed}, s \in Size : live' = [live EXCEPT !.hash = h, !.size = s]
Retarget == \E l \in Link : live' = [live EXCEPT !.link = l]
Replace  == \E t \in Type : live' = [live EXCEPT !.type = t]
Lock     == live' = [live EXCEPT !.err = ~@]

EntriesNext == (Touch \/ Chmod \/ Rewrite \/ Retarget \/ Replace \/ Lock) /\ UNCHANGED old

EntriesSpec == EntriesInit /\ [][EntriesNext]_entries

\* Package diff: "the classification never looks at the modification time"
\* where both sides were hashed: what a touch does to a readable, hashed file is
\* invisible, however many other facts changed before it.
TouchIsInvisible ==
    [][(Touch /\ UNCHANGED old /\ live.type = "file" /\ BothHashed(old, live))
          => Classify(old', live') = Classify(old, live)]_entries

\* compareUnhashed and the package comment: a content change is claimed exactly
\* when two hashes of readable files were compared and differ, whatever happened
\* to the attributes as well.
ContentClaimsAreVerified ==
    Classify(old, live) = "~F" <=>
        /\ ~old.err /\ ~live.err
        /\ old.type = "file" /\ live.type = "file"
        /\ BothHashed(old, live) /\ old.hash # live.hash

\* An entry reported as unchanged was readable both times and agrees on all that
\* was recorded of it: nothing is passed over because an earlier line of the
\* table hid it.
UnchangedMeansEqual ==
    Classify(old, live) = "=" =>
        /\ ~old.err /\ ~live.err
        /\ old.type = live.type /\ old.attrs = live.attrs
        /\ live.type = "symlink" => old.link = live.link
        /\ live.type = "file" => IF BothHashed(old, live) THEN old.hash = live.hash
                                 ELSE old.size = live.size /\ old.mtime = live.mtime
=============================================================================
