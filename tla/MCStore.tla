------------------------------ MODULE MCStore ------------------------------
(***************************************************************************)
(* The paths /, /a, /a/a, /a.a, /a.aa and /b, which share prefixes, and    *)
(* the empty path.  '.' is below '/' as a byte and above it in the order.  *)
(* /a.aa is longer than the reader allows a string to be, but its suffix   *)
(* after another path need not be.                                         *)
(***************************************************************************)
EXTENDS Store

dot == 46
a == 97
b == 98

MCKey == {<<>>, <<Slash>>, <<Slash, a>>, <<Slash, a, Slash, a>>,
          <<Slash, a, dot, a>>, <<Slash, a, dot, a, a>>, <<Slash, b>>}
=============================================================================
