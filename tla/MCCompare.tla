----------------------------- MODULE MCCompare -----------------------------
(***************************************************************************)
(* Six paths: the root, a directory a with a directory a/d in it that      *)
(* holds f, and an excluded file b.  a may be anything a directory can be, *)
(* or a file; f is a file, or a directory as deep as the limit allows.     *)
(***************************************************************************)
EXTENDS Compare

\* 1 = /    2 = /a    3 = /a/d    4 = /a/d/f    5 = /a/d/f/g    6 = /b
MCPath  == 1 .. 6
MCAbove == <<{}, {1}, {1, 2}, {1, 2, 3}, {1, 2, 3, 4}, {1}>>

Possible == <<{"dir"}, {"absent", "dir", "locked", "share", "h1"}, {"absent", "unlisted", "dir"},
              {"absent", "unlisted", "h1", "h2", "lost", "link", "dir"},
              {"absent", "unlisted", "h1"}, {"h1"}>>

MCSystems ==
    {f \in [MCPath -> What] :
        /\ \A p \in MCPath : f[p] \in Possible[p]
        /\ \A p \in MCPath :
              /\ There(f, p) => \A d \in MCAbove[p] : f[d] \in Directory
              /\ f[p] = "unlisted" => \E d \in MCAbove[p] : f[d] = "locked"}

\* --exclude /a/d, or nothing.
MCExtras == {{}, {3, 4, 5}}

MCIgnored == {<<"~F", 4>>}
MCShown   == {"+D", "-D", "~D", "+F", "-F", "~F", "~L", "?E"}
=============================================================================
