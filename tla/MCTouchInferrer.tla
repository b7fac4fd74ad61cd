-------------------------- MODULE MCTouchInferrer --------------------------
(* A small app: a sign-in form with its password empty and filled in, a    *)
(* screen that is loading, and a home screen without a usable target.      *)
EXTENDS TouchInferrer

Node(id, label, text, role) == [id |-> id, label |-> label, text |-> text, role |-> role]

Button   == Node("signin", "", "Sign in", "button")
Field(t) == Node("password", "", t, "textfield")
Spinner  == Node("spinner", "", "", "image")
Logo     == Node("", "logo", "", "image")
Count    == Node("", "", "42", "text")

Screens == {
  <<Field(""), Button>>,
  <<Field("secret"), Button>>,
  <<Spinner, Field("")>>,
  <<Logo, Count>> }

FirstScreens == { <<Field(""), Button>> }

=============================================================================
