--------------------------- MODULE MCLoupeDriver ---------------------------
EXTENDS LoupeDriver

(* Two screens with the same elements at other places, and an empty one. *)
MCLayout == <<<<"ok", "cancel">>, <<"cancel", "ok">>, <<>>>>
=============================================================================
