--------------------------- MODULE MCTranslation ---------------------------
(***************************************************************************)
(* Translation on two programs of GLSL, one with an image without a name   *)
(* of its own, after one with, and beside a separate image, the other with *)
(* one whose new name is the name of the next, and with a nameless buffer  *)
(* of either kind; and on one of HLSL, with a separate image and with one  *)
(* that nothing names.  HLSL's images can be combined twice.               *)
(***************************************************************************)
EXTENDS Translation, TLC

MCGLSL == {
    [images |-> <<"a", "_1">>,        separate |-> 1, ubos |-> <<"source", "none_UBO">>],
    [images |-> <<"_1", "texture0">>, separate |-> 0, ubos |-> <<"none_other">>] }

MCHLSL == { [images |-> <<"">>, separate |-> 1, ubos |-> <<"none_UBO">>] }

MCTextureName(i) == "texture" \o ToString(i)
MCFreshName(i) == "_9" \o ToString(i)
MCSuffixed(n, k) == n \o "_dup" \o ToString(k)
=============================================================================
