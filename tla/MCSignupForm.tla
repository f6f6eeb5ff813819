----------------------------- MODULE MCSignupForm -----------------------------
(***************************************************************************)
(* The page for TLC: two submissions, an empty and two acceptable names,   *)
(* an empty and one acceptable password.                                   *)
(***************************************************************************)
EXTENDS SignupForm

CONSTANTS s1, s2, n1, n2, p1

MCSubmission == {s1, s2}
MCName == {Empty, n1, n2}
MCValidName == {n1, n2}
MCPassword == {Empty, p1}
MCValidPassword == {p1}
=============================================================================
