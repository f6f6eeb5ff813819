------------------------------ MODULE TextField ------------------------------
(***************************************************************************)
(* What a user takes a text field to be: a text with a selection in it, in *)
(* which an edit replaces what is selected.  `plain` says that the user    *)
(* has so far kept to the edits the field is made for; of what happens     *)
(* after another edit nothing is said.                                     *)
(***************************************************************************)
EXTENDS Integers, Sequences

CONSTANTS Symbol, MaxLen, MaxData

VARIABLES text, start, end, plain

absVars == <<text, start, end, plain>>

\* Text t in place of the characters from..to-1 of s, counted from 0.
Replaced(s, from, to, t) == SubSeq(s, 1, from) \o t \o SubSeq(s, to + 1, Len(s))

AbsInit == text = <<>> /\ start = 0 /\ end = 0 /\ plain = TRUE

AbsSelect(from, to) ==
    /\ from <= to /\ to <= Len(text)
    /\ start' = from /\ end' = to
    /\ UNCHANGED <<text, plain>>

\* The characters from..to-1 give way to t, and the caret is put after it.
AbsReplace(from, to, t) ==
    /\ text' = Replaced(text, from, to, t)
    /\ start' = from + Len(t) /\ end' = from + Len(t)
    /\ UNCHANGED plain

\* Typing and pasting; deleting a selection, or the character on either side
\* of the caret.
AbsEdit ==
    \/ \E n \in 1 .. MaxData : \E t \in [1 .. n -> Symbol] : AbsReplace(start, end, t)
    \/ start < end /\ AbsReplace(start, end, <<>>)
    \/ start = end /\ start > 0 /\ AbsReplace(start - 1, start, <<>>)
    \/ start = end /\ end < Len(text) /\ AbsReplace(start, start + 1, <<>>)

AbsClear == text' = <<>> /\ start' = 0 /\ end' = 0 /\ UNCHANGED plain

AbsNext ==
    \/ \E from, to \in 0 .. MaxLen : AbsSelect(from, to)
    \/ AbsEdit
    \/ AbsClear
    \/ ~plain'

AbsSpec == AbsInit /\ [][AbsNext]_absVars
=============================================================================
