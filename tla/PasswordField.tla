---------------------------- MODULE PasswordField ----------------------------
(***************************************************************************)
(* The masked password field (password.js, password_input.js,              *)
(* password_listener.js) and what the page shows of the password           *)
(* (ui_update.js).  The field is a contenteditable element that holds      *)
(* asterisks, or the password when "Show Password" is checked; the         *)
(* password is the global realPassword, kept up to date by guessing from   *)
(* each input event and the caret what the browser did to the asterisks.   *)
(*                                                                         *)
(* The browser edits the element before the input event, so an action here *)
(* is the browser's edit and the handler.  Left out is the hidden element  *)
(* credential-real, which is written and never read.                       *)
(***************************************************************************)
EXTENDS Validators

CONSTANTS
    Char,       \* codes of the characters a user types
    Star,       \* the asterisk that masks a character
    MaxLen,     \* bound on the password's length
    MaxData,    \* bound on the characters one event inserts
    MediumFrom, \* from this length on a password is "medium"
    StrongFrom  \* and from this one "strong"

ASSUME FieldAssumption ==
    /\ Char \subseteq Nat /\ Star \in Nat \ Char
    /\ MaxLen \in Nat /\ MaxData \in Nat
    /\ MediumFrom \in Nat \ {0} /\ StrongFrom \in Nat

VARIABLES
    realPassword, \* the password, as it will be submitted
    textContent,  \* what the element holds
    start, end,   \* the selection in it; a caret if they are equal
    focused,      \* the element has the focus
    checked,      \* the box "Show Password"
    preview,      \* the text of password-preview, ungrouped
    strength,     \* the class of strength-indicator
    length,       \* the $length in password-label
    plain         \* history: only edits the handlers are written for

caret  == <<start, end, focused>>
labels == <<preview, strength, length>>
vars   == <<realPassword, textContent, caret, checked, labels, plain>>

Smaller(a, b) == IF a < b THEN a ELSE b

\* substring(0, i) and substring(i).
Before(s, i) == SubSeq(s, 1, Smaller(i, Len(s)))
From(s, i) == SubSeq(s, i + 1, Len(s))

\* What the page shows of password p.
Shown(p, box) == IF box THEN p ELSE [i \in 1 .. Len(p) |-> Star]

Strength(n) ==
    IF n = 0 THEN "" ELSE IF n < MediumFrom THEN "weak"
    ELSE IF n < StrongFrom THEN "medium" ELSE "strong"
-----------------------------------------------------------------------------
\* DOMContentLoaded has run.
Init ==
    /\ realPassword = <<>>
    /\ textContent = <<>>
    /\ start = 0 /\ end = 0 /\ focused = FALSE
    /\ checked = FALSE
    /\ preview = <<>>
    /\ strength = ""
    /\ length = 0
    /\ plain = TRUE

\* Mutant: the caret ends one place further on.
PlaceCaret_Past(position) ==
    /\ start' = position + 1
    /\ end' = position + 1
    /\ focused' = TRUE

\* placeCaretAtPosition.
PlaceCaret(position) ==
    /\ start' = Smaller(position, Len(textContent'))
    /\ end' = start'
    /\ focused' = TRUE

\* The calls that follow an assignment of realPassword: renderPassword,
\* updateStrength, updatePasswordLabelLength and updatePasswordPreview.
Update(p) ==
    /\ realPassword' = p
    /\ textContent' = Shown(p, checked)
    /\ strength' = Strength(Len(p))
    /\ length' = Len(p)
    /\ preview' = Shown(p, checked)
    /\ UNCHANGED checked

Inserted == UNION {[1 .. n -> Char] : n \in 1 .. MaxData}
Fits(t) == Len(realPassword) + Len(t) <= MaxLen

\* Whether the edit at hand is one the handlers are written for.
Noted(condition) == plain' = (plain /\ condition)
-----------------------------------------------------------------------------
(* The browser's edits, each followed by handlePasswordInput.              *)

\* inputType insertText: t has been put in place of the selection, and the
\* caret is after it.  Once in a while t is a word of a suggestion.
InsertText(t) ==
    /\ focused /\ Fits(t)
    /\ LET startOffset == start + Len(t)
       IN  /\ Update(Before(realPassword, startOffset - 1) \o t
                     \o From(realPassword, startOffset - 1))
           /\ PlaceCaret(startOffset)
    /\ Noted(start = end /\ (Len(t) = 1 \/ start = Len(realPassword)))

\* One character is taken out of the password at the caret.
Dropped(p, startOffset) == Before(p, startOffset) \o From(p, startOffset + 1)

\* inputType deleteContentBackward: Backspace has deleted the selection, or
\* the character before the caret.
DeleteBackward ==
    /\ focused /\ end > 0
    /\ LET startOffset == IF start < end THEN start ELSE start - 1
       IN  /\ Update(IF startOffset <= Len(realPassword)
                     THEN Dropped(realPassword, startOffset) ELSE realPassword)
           /\ PlaceCaret(startOffset)
    /\ Noted(end <= start + 1)

\* inputType deleteContentForward, not from the Delete key.
DeleteForward ==
    /\ focused /\ start < Len(textContent)
    /\ Update(Dropped(realPassword, start))
    /\ PlaceCaret(start)
    /\ Noted(end <= start + 1)

\* Any other inputType (cutting, deleting a word, dropping a text, composing,
\* replacing): t is in place of the characters from..to-1 of the element, and
\* what it now holds becomes the password.
OtherInput(from, to, t) ==
    /\ focused /\ Fits(t)
    /\ from < to \/ (from = to /\ t # <<>>)
    /\ to <= Len(textContent)
    /\ Update(Before(textContent, from) \o t \o From(textContent, to))
    /\ PlaceCaret(from + Len(t))
    /\ Noted(checked /\ from = start /\ to = end)
-----------------------------------------------------------------------------
(* The events that are handled in the browser's stead.                     *)

\* keydown of Delete.
DeleteKey ==
    /\ focused
    /\ start < Len(realPassword)
    /\ Update(Dropped(realPassword, start))
    /\ PlaceCaret(start)
    /\ Noted(end <= start + 1)

\* Mutant: what is selected stays.
Paste_Beside(t) ==
    /\ focused /\ Fits(t)
    /\ Update(Before(realPassword, start) \o t \o From(realPassword, start))
    /\ PlaceCaret(start + Len(t))
    /\ UNCHANGED plain

Paste(t) ==
    /\ focused /\ Fits(t)
    /\ Update(Before(realPassword, start) \o t \o From(realPassword, end))
    /\ PlaceCaret(start + Len(t))
    /\ UNCHANGED plain

\* Mutant: the label keeps its length.
ClearPassword_KeepsLabel ==
    /\ realPassword' = <<>>
    /\ textContent' = <<>>
    /\ PlaceCaret(0)
    /\ UNCHANGED <<length, checked, preview, strength, plain>>

\* The × beside the field.  The preview and the strength stay as they are.
ClearPassword ==
    /\ realPassword' = <<>>
    /\ textContent' = <<>>
    /\ length' = 0
    /\ PlaceCaret(0)
    /\ UNCHANGED <<checked, preview, strength, plain>>
-----------------------------------------------------------------------------
(* The caret, the box and the language.                                    *)

\* A click or an arrow key in the field.
Select(from, to) ==
    /\ from <= to /\ to <= Len(textContent)
    /\ start' = from /\ end' = to /\ focused' = TRUE
    /\ UNCHANGED <<realPassword, textContent, checked, labels, plain>>

Blur == start' = 0 /\ end' = 0 /\ focused' = FALSE

\* Mutant: the preview is not redrawn.
ToggleVisibility_KeepsPreview ==
    /\ checked' = ~checked
    /\ textContent' = Shown(realPassword, checked')
    /\ Blur
    /\ UNCHANGED <<realPassword, labels, plain>>

\* togglePasswordVisibility; the box has taken the focus.
ToggleVisibility ==
    /\ checked' = ~checked
    /\ textContent' = Shown(realPassword, checked')
    /\ preview' = Shown(realPassword, checked')
    /\ Blur
    /\ UNCHANGED <<realPassword, strength, length, plain>>

\* applyLanguage: the label takes its length from the element.
ApplyLanguage ==
    /\ length' = Len(textContent)
    /\ preview' = Shown(realPassword, checked)
    /\ Blur
    /\ UNCHANGED <<realPassword, textContent, checked, strength, plain>>

Next ==
    \/ \E t \in Inserted : InsertText(t)
    \/ \E t \in Inserted \cup {<<>>} : Paste(t)
    \/ DeleteBackward
    \/ DeleteForward
    \/ DeleteKey
    \/ \E from, to \in 0 .. MaxLen : \E t \in Inserted \cup {<<>>} : OtherInput(from, to, t)
    \/ ClearPassword
    \/ \E from, to \in 0 .. MaxLen : Select(from, to)
    \/ ToggleVisibility
    \/ ApplyLanguage

Spec == Init /\ [][Next]_vars
-----------------------------------------------------------------------------
(* Properties.                                                             *)

\* Every variable has its type, and the selection is within the element.
TypeOK ==
    /\ realPassword \in Seq(Char \cup {Star}) /\ Len(realPassword) <= MaxLen
    /\ textContent \in Seq(Char \cup {Star})
    /\ start \in 0 .. end /\ end \in 0 .. Len(textContent)
    /\ focused \in BOOLEAN
    /\ checked \in BOOLEAN
    /\ preview \in Seq(Char \cup {Star})
    /\ strength \in {"", "weak", "medium", "strong"}
    /\ length \in 0 .. MaxLen
    /\ plain \in BOOLEAN

\* Between two events the element shows the password, or as many asterisks,
\* and the label its length: the offsets the next event is handled with are
\* offsets into the password (password.js:6-44, ui_update.js:31-39).
FieldShowsPassword ==
    /\ textContent = Shown(realPassword, checked)
    /\ length = Len(realPassword)

\* Preview and strength are those of the password, unless that is empty: the
\* clear button leaves them as they were (ui_listener.js:54-61).
PreviewIsCurrent ==
    realPassword # <<>> =>
        /\ preview = Shown(realPassword, checked)
        /\ strength = Strength(Len(realPassword))

\* The rules refuse just the passwords with more than three equal, ascending
\* or descending characters in a row, wherever they are (validators.js:14-43).
\* The page says that three are refused (lang.js:22-23): what is let through
\* against its word is just the passwords whose longest such row has three.
RowOf(n) == \E d \in {-1, 0, 1} : AtLeast(n, realPassword, d)
Refused == hasRepeatingChars(realPassword) \/ hasSequentialChars(realPassword)

RulesAgree ==
    /\ hasRepeatingChars(realPassword) <=> AtLeast(4, realPassword, 0)
    /\ hasSequentialChars(realPassword) <=>
          AtLeast(4, realPassword, 1) \/ AtLeast(4, realPassword, -1)
    /\ RowOf(3) /\ ~Refused <=> RowOf(3) /\ ~RowOf(4)

\* The password is edited as the text of an ordinary field would be: typing
\* at a caret, deleting one character, pasting, with any moves, clearings and
\* switches of the box between (password_input.js:27-46).
Abs == INSTANCE TextField WITH
         Symbol <- Char, MaxLen <- MaxLen, MaxData <- MaxData,
         text <- realPassword, start <- start, end <- end, plain <- plain
EditsLikeTextField == Abs!AbsSpec
=============================================================================
