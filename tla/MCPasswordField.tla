--------------------------- MODULE MCPasswordField ---------------------------
(* A small instance of PasswordField. *)
EXTENDS PasswordField

CONSTANT EditLen \* bound: the longest password that is edited in every way

\* Passwords as long as EditLen are edited in every way; longer ones, for the
\* rules, only come about by typing on at the end, and are cleared.
TypesOn ==
    \/ start = Len(realPassword) /\ \E c \in Char : InsertText(<<c>>)
    \/ ClearPassword

EditsShort ==
    /\ Len(realPassword) <= EditLen
    /\ Next
    /\ Len(realPassword') <= EditLen

MCSpec == Init /\ [][EditsShort \/ TypesOn]_vars
=============================================================================
