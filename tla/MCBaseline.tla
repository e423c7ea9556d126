----------------------------- MODULE MCBaseline -----------------------------
(***************************************************************************)
(* A tree in which the order of the bytes and that of the walk differ: a   *)
(* directory /a with a and o in it, and /a., which comes between them as   *)
(* bytes and after them in the walk.  The fingerprint is /o or /a/o, and   *)
(* its temporary file /o.t or /a/o.t.  /b is osfp; /ab and /oo are files.  *)
(***************************************************************************)
EXTENDS Baseline

a == 97
b == 98
o == 111
t == 116
sl == Slash
acute == <<195, 169>>   \* a letter of two bytes

MCCharacter   == {<<byte>> : byte \in Byte \cap 0 .. 127} \cup {acute, <<239, 191, 189>>}
MCReplacement == <<239, 191, 189>>

MCTmpSuffix == <<Dot, t>>
MCBinary    == <<sl, b>>

MCTree ==
    {<<sl>>, <<sl, a>>, <<sl, a, sl, a>>, <<sl, a, sl, a, sl, b>>, <<sl, a, Dot>>,
     <<sl, a, b>>, <<sl, b>>, <<sl, o, o>>, <<sl>> \o acute}

MCTrees == {MCTree}

At(p) == [given |-> p, real |-> p]

MCRoots   == {At(<<sl>>), At(<<sl, a>>)}
MCTargets == {At(<<sl, o>>), At(<<sl, a, sl, o>>)}

\* /a  /a/  /a/*  *b  a.  /  #  " /a. "  [  /[ao]  [[]  and the letter of two bytes.
Pool ==
    {<<sl, a>>, <<sl, a, sl>>, <<sl, a, sl, Star>>, <<Star, b>>, <<a, Dot>>, <<sl>>,
     <<HashSign, a>>, <<Space, sl, a, Dot, Space>>, <<Opening>>,
     <<sl, Opening, a, o, Closing>>, <<Opening, Opening, Closing>>, acute}

MCListed == {<<>>} \cup {<<p>> : p \in Pool} \cup {<<p, q>> : p, q \in Pool}

-----------------------------------------------------------------------------
(* Paths that are not the ones the walk comes by: /l is a link to the      *)
(* directory /a, [a] is a class to filepath.Match, and the root "." is /a. *)

MCOtherTrees   == {MCTree \cup {<<sl, 108>>, <<sl, Opening, a, Closing>>}}
MCOtherRoots   == {At(<<sl>>), [given |-> <<Dot>>, real |-> <<sl, a>>]}
MCOtherTargets ==
    {At(<<sl, a, sl, o>>), At(<<sl, Opening, a, Closing, sl, o>>),
     [given |-> <<sl, 108, sl, o>>, real |-> <<sl, a, sl, o>>]}
MCUnlisted     == {<<>>}

\* With that root and a file /a/#.
MCRelativeTrees == {MCTree \cup {<<sl, a, sl, HashSign>>}}
MCRelativeRoots == {[given |-> <<Dot>>, real |-> <<sl, a>>]}

-----------------------------------------------------------------------------
(* A file whose name is a byte that no character begins with, excluded.    *)

MCStray       == <<sl, 195>>
MCStrayTrees  == {MCTree \cup {MCStray}}
MCStrayListed == {<<MCStray>>}

\* Only the first instance has the names the theorems of BaselineProofs are about.
ASSUME HypothesisHolds == PlainNames <=> Targets = MCTargets /\ Listed = MCListed
=============================================================================
