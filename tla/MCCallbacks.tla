----------------------------- MODULE MCCallbacks -----------------------------
(* Keys around the edges of the gate: in another case, shorter than a prefix,  *)
(* cut to the buffer, with a unit whose low byte would match, and with '{',    *)
(* which is as far from '[' as lower case is from upper.                       *)
EXTENDS Callbacks, TLC

A == 65
a == 97
Backslash == 92
OpenBracket == 91
OpenBrace == 123
Beyond == 256 + a

MCPrefixes == {<<A, Backslash>>, <<OpenBracket>>}

MCKeys == {<< >>, <<a>>, <<a, Backslash>>, <<A, Backslash, a, a>>, <<Beyond, Backslash>>,
           <<OpenBrace, a, a, a>>}

Symmetry == Permutations(Calls)
=============================================================================
