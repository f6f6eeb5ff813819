------------------------- MODULE PasswordFieldProofs -------------------------
(***************************************************************************)
(* The password field keeps its guess of the password, and what it shows   *)
(* of it, for any characters and any bound on the length; and while the    *)
(* edits are the ones the handlers are written for, it is edited as an     *)
(* ordinary text field.                                                    *)
(*                                                                         *)
(* The offsets of an event are offsets into the element, and the handlers  *)
(* use them in realPassword: neither TypeOK (the selection is within the   *)
(* element) nor FieldShowsPassword (the two have the same length) is       *)
(* inductive without the other.                                            *)
(***************************************************************************)
EXTENDS PasswordField, SequenceTheorems, WellFoundedInduction, TLAPS

Sym == Char \cup {Star}

IInv == TypeOK /\ FieldShowsPassword /\ PreviewIsCurrent
-----------------------------------------------------------------------------
(* The handlers' operators on texts.                                       *)

LEMMA BeforeIs ==
    ASSUME NEW S, NEW s \in Seq(S), NEW i \in Nat
    PROVE  /\ Before(s, i) \in Seq(S)
           /\ Len(Before(s, i)) = IF i < Len(s) THEN i ELSE Len(s)
           /\ i <= Len(s) => Before(s, i) = SubSeq(s, 1, i)
           /\ i >= Len(s) => Before(s, i) = s
<1>1. Len(s) \in Nat /\ \A k \in 1 .. Len(s) : s[k] \in S
  BY LenProperties, ElementOfSeq
<1> DEFINE m == Smaller(i, Len(s))
<1>2. m \in Nat /\ m <= Len(s) /\ m = IF i < Len(s) THEN i ELSE Len(s)
  BY <1>1 DEF Smaller
<1> HIDE DEF m
<1>3. SubSeq(s, 1, m) \in Seq(S) /\ Len(SubSeq(s, 1, m)) = IF 1 <= m THEN m - 1 + 1 ELSE 0
  BY <1>1, <1>2, SubSeqProperties
<1>4. SubSeq(s, 1, Len(s)) = s
  BY SubSeqFull
<1>5. Before(s, i) = SubSeq(s, 1, m)
  BY DEF Before, m
<1>6. Before(s, i) \in Seq(S) /\ Len(Before(s, i)) = m
  BY <1>2, <1>3, <1>5
<1>7. i <= Len(s) => m = i
  BY <1>1, <1>2
<1>8. i >= Len(s) => m = Len(s)
  BY <1>1, <1>2
<1> QED BY <1>2, <1>4, <1>5, <1>6, <1>7, <1>8

LEMMA FromIs ==
    ASSUME NEW S, NEW s \in Seq(S), NEW i \in Nat
    PROVE  /\ From(s, i) \in Seq(S)
           /\ Len(From(s, i)) = IF i < Len(s) THEN Len(s) - i ELSE 0
           /\ i >= Len(s) => From(s, i) = <<>>
<1>1. Len(s) \in Nat /\ \A k \in 1 .. Len(s) : s[k] \in S
  BY LenProperties, ElementOfSeq
<1>2. /\ SubSeq(s, i + 1, Len(s)) \in Seq(S)
      /\ Len(SubSeq(s, i + 1, Len(s))) = IF i + 1 <= Len(s) THEN Len(s) - (i + 1) + 1 ELSE 0
  BY <1>1, SubSeqProperties
<1>3. i >= Len(s) => SubSeq(s, i + 1, Len(s)) = <<>>
  BY <1>1, SubSeqEmpty
<1> QED BY <1>1, <1>2, <1>3 DEF From

\* A text with t in place of what is between two offsets.
LEMMA JoinedIs ==
    ASSUME NEW S, NEW s \in Seq(S), NEW t \in Seq(S), NEW i \in Nat, NEW j \in Nat
    PROVE  /\ Before(s, i) \o t \o From(s, j) \in Seq(S)
           /\ Len(Before(s, i) \o t \o From(s, j)) =
                Len(Before(s, i)) + Len(t) + Len(From(s, j))
<1>1. Before(s, i) \in Seq(S) /\ From(s, j) \in Seq(S)
  BY BeforeIs, FromIs
<1>2. /\ Before(s, i) \o t \in Seq(S)
      /\ Len(Before(s, i) \o t) = Len(Before(s, i)) + Len(t)
  BY <1>1, ConcatProperties
<1>3. /\ Before(s, i) \o t \o From(s, j) \in Seq(S)
      /\ Len(Before(s, i) \o t \o From(s, j)) = Len(Before(s, i) \o t) + Len(From(s, j))
  BY <1>1, <1>2, ConcatProperties
<1> QED BY <1>2, <1>3

LEMMA DroppedIs ==
    ASSUME NEW S, NEW s \in Seq(S), NEW i \in Nat, i <= Len(s)
    PROVE  /\ Dropped(s, i) \in Seq(S)
           /\ Len(Dropped(s, i)) = IF i < Len(s) THEN Len(s) - 1 ELSE Len(s)
<1>1. Before(s, i) \in Seq(S) /\ Len(Before(s, i)) = i
  BY BeforeIs, LenProperties
<1>2. /\ From(s, i + 1) \in Seq(S)
      /\ Len(From(s, i + 1)) = IF i + 1 < Len(s) THEN Len(s) - (i + 1) ELSE 0
  <2>1. i + 1 \in Nat
    OBVIOUS
  <2> QED BY <2>1, FromIs
<1>3. Dropped(s, i) \in Seq(S) /\ Len(Dropped(s, i)) = i + Len(From(s, i + 1))
  BY <1>1, <1>2, ConcatProperties DEF Dropped
<1> QED BY <1>2, <1>3, LenProperties

LEMMA ShownIs ==
    ASSUME NEW p \in Seq(Sym), NEW box \in BOOLEAN
    PROVE  Shown(p, box) \in Seq(Sym) /\ Len(Shown(p, box)) = Len(p)
<1>1. Len(p) \in Nat
  BY LenProperties
<1>2. CASE box
  BY <1>2 DEF Shown
<1>3. CASE ~box
  <2>1. Shown(p, box) = [i \in 1 .. Len(p) |-> Star]
    BY <1>3 DEF Shown
  <2>2. [i \in 1 .. Len(p) |-> Star] \in [1 .. Len(p) -> Sym]
    BY DEF Sym
  <2>3. [i \in 1 .. Len(p) |-> Star] \in Seq(Sym)
    BY <1>1, <2>2, SeqDef
  <2>4. Len([i \in 1 .. Len(p) |-> Star]) = Len(p)
    BY <1>1, <2>3, LenProperties
  <2> QED BY <2>1, <2>3, <2>4
<1> QED BY <1>2, <1>3

LEMMA StrengthIs == ASSUME NEW n \in Nat PROVE Strength(n) \in {"", "weak", "medium", "strong"}
BY DEF Strength

\* What is inserted is a text of at least one character.
LEMMA InsertedIs ==
    ASSUME NEW t \in Inserted
    PROVE  t \in Seq(Char) /\ t \in Seq(Sym) /\ Len(t) \in Nat \ {0}
           /\ t \in [1 .. Len(t) -> Char] /\ Len(t) \in 1 .. MaxData
<1>1. PICK n \in 1 .. MaxData : t \in [1 .. n -> Char]
  BY DEF Inserted
<1>2. n \in Nat \ {0}
  BY FieldAssumption
<1>3. t \in Seq(Char)
  BY <1>1, <1>2, SeqDef
<1>4. Len(t) = n
  BY <1>1, <1>2, <1>3, LenProperties
<1>5. Char \subseteq Sym
  BY DEF Sym
<1>6. t \in Seq(Sym)
  BY <1>3, <1>5, SeqMonotonic
<1> QED BY <1>1, <1>2, <1>3, <1>4, <1>6
-----------------------------------------------------------------------------
(* The invariant.                                                          *)

LEMMA Facts ==
    ASSUME IInv
    PROVE  /\ realPassword \in Seq(Sym) /\ Len(realPassword) \in Nat
           /\ Len(realPassword) <= MaxLen /\ MaxLen \in Nat
           /\ textContent = Shown(realPassword, checked)
           /\ Len(textContent) = Len(realPassword)
           /\ start \in Nat /\ end \in Nat /\ start <= end /\ end <= Len(realPassword)
           /\ focused \in BOOLEAN /\ checked \in BOOLEAN /\ plain \in BOOLEAN
<1>1. realPassword \in Seq(Sym) /\ checked \in BOOLEAN
  BY DEF IInv, TypeOK, Sym
<1>2. textContent = Shown(realPassword, checked)
  BY DEF IInv, FieldShowsPassword
<1>3. Len(textContent) = Len(realPassword) /\ Len(realPassword) \in Nat
  BY <1>1, <1>2, ShownIs, LenProperties
<1>4. start \in 0 .. end /\ end \in 0 .. Len(textContent)
  BY DEF IInv, TypeOK
<1>5. start \in Nat /\ end \in Nat /\ start <= end /\ end <= Len(realPassword)
  BY <1>3, <1>4
<1>6. Len(realPassword) <= MaxLen /\ MaxLen \in Nat
  BY FieldAssumption DEF IInv, TypeOK
<1>7. focused \in BOOLEAN /\ plain \in BOOLEAN
  BY DEF IInv, TypeOK
<1> QED BY <1>1, <1>2, <1>3, <1>5, <1>6, <1>7

\* A handler has made p the password and placed the caret.
LEMMA UpdateKeeps ==
    ASSUME IInv, NEW p \in Seq(Sym), Len(p) <= MaxLen, NEW position \in Nat,
           Update(p), PlaceCaret(position), plain' \in BOOLEAN
    PROVE  IInv'
<1>1. checked \in BOOLEAN /\ MaxLen \in Nat
  BY Facts
<1>2. Len(p) \in Nat
  BY LenProperties
<1>3. /\ realPassword' = p /\ textContent' = Shown(p, checked)
      /\ strength' = Strength(Len(p)) /\ length' = Len(p)
      /\ preview' = Shown(p, checked) /\ checked' = checked
  BY DEF Update
<1>4. Shown(p, checked) \in Seq(Sym) /\ Len(Shown(p, checked)) = Len(p)
  BY <1>1, ShownIs
<1>5. start' = Smaller(position, Len(textContent')) /\ end' = start' /\ focused' = TRUE
  BY DEF PlaceCaret
<1>6. start' \in 0 .. end' /\ end' \in 0 .. Len(textContent')
  BY <1>2, <1>3, <1>4, <1>5 DEF Smaller
<1>7. strength' \in {"", "weak", "medium", "strong"}
  BY <1>2, <1>3, StrengthIs
<1>8. length' \in 0 .. MaxLen
  BY <1>1, <1>2, <1>3
<1>9. TypeOK'
  BY <1>1, <1>3, <1>4, <1>5, <1>6, <1>7, <1>8 DEF TypeOK, Sym
<1>10. FieldShowsPassword' /\ PreviewIsCurrent'
  BY <1>3 DEF FieldShowsPassword, PreviewIsCurrent
<1> QED BY <1>9, <1>10 DEF IInv

\* The text that InsertText makes of the password.
LEMMA InsertedText ==
    ASSUME IInv, NEW t \in Inserted, Fits(t)
    PROVE  LET p == Before(realPassword, start + Len(t) - 1) \o t
                    \o From(realPassword, start + Len(t) - 1)
           IN  p \in Seq(Sym) /\ Len(p) = Len(realPassword) + Len(t) /\ Len(p) <= MaxLen
<1> DEFINE i == start + Len(t) - 1
<1>1. t \in Seq(Sym) /\ Len(t) \in Nat \ {0}
  BY InsertedIs
<1>2. i \in Nat
  BY <1>1, Facts
<1> HIDE DEF i
<1>3. /\ Len(Before(realPassword, i)) = IF i < Len(realPassword) THEN i ELSE Len(realPassword)
      /\ Len(From(realPassword, i)) = IF i < Len(realPassword) THEN Len(realPassword) - i ELSE 0
  BY <1>2, Facts, BeforeIs, FromIs
<1>4. /\ Before(realPassword, i) \o t \o From(realPassword, i) \in Seq(Sym)
      /\ Len(Before(realPassword, i) \o t \o From(realPassword, i)) =
           Len(Before(realPassword, i)) + Len(t) + Len(From(realPassword, i))
  <2>1. realPassword \in Seq(Sym) /\ t \in Seq(Sym)
    BY <1>1, Facts
  <2> QED BY <1>2, <2>1, JoinedIs
<1>5. Len(Before(realPassword, i) \o t \o From(realPassword, i)) = Len(realPassword) + Len(t)
  BY <1>1, <1>2, <1>3, <1>4, Facts
<1>6. Len(realPassword) + Len(t) <= MaxLen
  BY DEF Fits
<1> QED BY <1>4, <1>5, <1>6 DEF i

\* The text that replacing what is between two offsets makes of s.
LEMMA ReplacedText ==
    ASSUME IInv, NEW s \in Seq(Sym), Len(s) = Len(realPassword),
           NEW t \in Inserted \cup {<<>>}, Fits(t),
           NEW from \in Nat, NEW to \in Nat, from <= to, to <= Len(s)
    PROVE  LET p == Before(s, from) \o t \o From(s, to)
           IN  /\ p \in Seq(Sym) /\ Len(p) <= MaxLen
               /\ Len(p) = from + Len(t) + Len(s) - to
               /\ Before(s, from) = SubSeq(s, 1, from)
<1>1. t \in Seq(Sym) /\ Len(t) \in Nat
  BY InsertedIs, EmptySeq
<1>2. from <= Len(s) /\ Len(s) \in Nat
  BY LenProperties
<1>3. Len(Before(s, from)) = from /\ Before(s, from) = SubSeq(s, 1, from)
  BY <1>2, BeforeIs
<1>4. Len(From(s, to)) = Len(s) - to
  <2>1. Len(From(s, to)) = IF to < Len(s) THEN Len(s) - to ELSE 0
    BY FromIs
  <2> QED BY <1>2, <2>1
<1>5. /\ Before(s, from) \o t \o From(s, to) \in Seq(Sym)
      /\ Len(Before(s, from) \o t \o From(s, to)) =
           Len(Before(s, from)) + Len(t) + Len(From(s, to))
  BY <1>1, JoinedIs
<1>6. Len(Before(s, from) \o t \o From(s, to)) = from + Len(t) + Len(s) - to
  BY <1>1, <1>2, <1>3, <1>4, <1>5
<1>7. Len(s) + Len(t) <= MaxLen
  BY DEF Fits
<1>8. from + Len(t) + Len(s) - to <= MaxLen
  BY <1>1, <1>2, <1>7, FieldAssumption
<1> QED BY <1>3, <1>5, <1>6, <1>8

LEMMA InitInv == ASSUME Init PROVE IInv
<1>1. /\ <<>> \in Seq(Sym) /\ Len(<<>>) = 0
  BY EmptySeq
<1>2. Shown(<<>>, FALSE) \in Seq(Sym) /\ Len(Shown(<<>>, FALSE)) = 0
  BY <1>1, ShownIs
<1>3. Shown(<<>>, FALSE) = <<>>
  BY <1>2, EmptySeq
<1>4. TypeOK
  <2>1. Len(realPassword) = 0 /\ Len(textContent) = 0
    BY <1>1, Zenon DEF Init
  <2>2. length = 0 /\ start = 0 /\ end = 0
    BY DEF Init
  <2>3. Len(realPassword) <= MaxLen /\ length \in 0 .. MaxLen
    BY <2>1, <2>2, FieldAssumption
  <2>4. start \in 0 .. end /\ end \in 0 .. Len(textContent)
    BY <2>1, <2>2
  <2>5. /\ focused \in BOOLEAN /\ checked \in BOOLEAN /\ plain \in BOOLEAN
        /\ strength \in {"", "weak", "medium", "strong"}
    BY DEF Init
  <2>6. realPassword \in Seq(Sym) /\ textContent \in Seq(Sym) /\ preview \in Seq(Sym)
    BY <1>1 DEF Init
  <2> QED BY <2>3, <2>4, <2>5, <2>6 DEF TypeOK, Sym
<1>5. FieldShowsPassword /\ PreviewIsCurrent
  BY <1>1, <1>3 DEF Init, FieldShowsPassword, PreviewIsCurrent
<1> QED BY <1>4, <1>5 DEF IInv

LEMMA DeletionKeeps ==
    ASSUME IInv, NEW position \in Nat, position <= Len(realPassword),
           Update(Dropped(realPassword, position)), PlaceCaret(position), plain' \in BOOLEAN
    PROVE  IInv'
<1>1. /\ Dropped(realPassword, position) \in Seq(Sym)
      /\ Len(Dropped(realPassword, position)) =
           IF position < Len(realPassword) THEN Len(realPassword) - 1 ELSE Len(realPassword)
  BY Facts, DroppedIs
<1>2. Len(Dropped(realPassword, position)) <= MaxLen
  BY <1>1, Facts
<1> QED BY <1>1, <1>2, UpdateKeeps

LEMMA StepInv == ASSUME IInv, [Next]_vars PROVE IInv'
<1>1. ASSUME NEW t \in Inserted, InsertText(t) PROVE IInv'
  <2> DEFINE p == Before(realPassword, start + Len(t) - 1) \o t
                  \o From(realPassword, start + Len(t) - 1)
  <2>1. Update(p) /\ PlaceCaret(start + Len(t)) /\ Fits(t) /\ plain' \in BOOLEAN
    <3>1. Fits(t) /\ PlaceCaret(start + Len(t))
      BY <1>1 DEF InsertText
    <3>2. Update(p)
      BY <1>1, InsertedIs, Facts DEF InsertText
    <3>3. plain' \in BOOLEAN
      BY <1>1 DEF InsertText, Noted
    <3> QED BY <3>1, <3>2, <3>3
  <2>2. p \in Seq(Sym) /\ Len(p) <= MaxLen
    BY <2>1, InsertedText
  <2>3. start + Len(t) \in Nat
    BY InsertedIs, Facts
  <2> HIDE DEF p
  <2> QED BY <2>1, <2>2, <2>3, UpdateKeeps
<1>2. ASSUME NEW t \in Inserted \cup {<<>>}, Paste(t) PROVE IInv'
  <2> DEFINE p == Before(realPassword, start) \o t \o From(realPassword, end)
  <2>1. Update(p) /\ PlaceCaret(start + Len(t)) /\ Fits(t) /\ plain' \in BOOLEAN
    BY <1>2, Facts DEF Paste
  <2>2. p \in Seq(Sym) /\ Len(p) <= MaxLen
    BY <2>1, Facts, ReplacedText
  <2>3. start + Len(t) \in Nat
    BY InsertedIs, EmptySeq, Facts
  <2> HIDE DEF p
  <2> QED BY <2>1, <2>2, <2>3, UpdateKeeps
<1>3. ASSUME DeleteBackward PROVE IInv'
  <2> DEFINE i == IF start < end THEN start ELSE start - 1
             p == IF i <= Len(realPassword) THEN Dropped(realPassword, i) ELSE realPassword
  <2>1. Update(p) /\ PlaceCaret(i) /\ end > 0 /\ plain' \in BOOLEAN
    BY <1>3 DEF DeleteBackward, Noted
  <2>2. i \in Nat /\ i <= Len(realPassword)
    BY <2>1, Facts
  <2>3. p = Dropped(realPassword, i)
    BY <2>2
  <2> HIDE DEF i, p
  <2> QED BY <2>1, <2>2, <2>3, DeletionKeeps
<1>4. ASSUME DeleteForward PROVE IInv'
  <2>1. start \in Nat /\ start <= Len(realPassword)
    BY Facts
  <2>2. Update(Dropped(realPassword, start)) /\ PlaceCaret(start) /\ plain' \in BOOLEAN
    BY <1>4 DEF DeleteForward, Noted
  <2> QED BY <2>1, <2>2, DeletionKeeps
<1>5. ASSUME DeleteKey PROVE IInv'
  <2>1. start \in Nat /\ start <= Len(realPassword)
    BY Facts
  <2>2. Update(Dropped(realPassword, start)) /\ PlaceCaret(start) /\ plain' \in BOOLEAN
    BY <1>5 DEF DeleteKey, Noted
  <2> QED BY <2>1, <2>2, DeletionKeeps
<1>6. ASSUME NEW from \in 0 .. MaxLen, NEW to \in 0 .. MaxLen,
             NEW t \in Inserted \cup {<<>>}, OtherInput(from, to, t)
      PROVE  IInv'
  <2> DEFINE p == Before(textContent, from) \o t \o From(textContent, to)
  <2>1. Update(p) /\ PlaceCaret(from + Len(t)) /\ Fits(t) /\ plain' \in BOOLEAN
    BY <1>6 DEF OtherInput, Noted
  <2>2. from \in Nat /\ to \in Nat /\ from <= to /\ to <= Len(textContent)
    BY <1>6 DEF OtherInput
  <2>3. textContent \in Seq(Sym) /\ Len(textContent) = Len(realPassword)
    BY Facts, ShownIs
  <2>4. p \in Seq(Sym) /\ Len(p) <= MaxLen
    BY <2>1, <2>2, <2>3, ReplacedText
  <2>5. from + Len(t) \in Nat
    BY InsertedIs, EmptySeq
  <2> HIDE DEF p
  <2> QED BY <2>1, <2>4, <2>5, UpdateKeeps
<1>7. ASSUME ClearPassword PROVE IInv'
  <2>1. <<>> \in Seq(Sym) /\ Len(<<>>) = 0
    BY EmptySeq
  <2>2. Shown(<<>>, checked) = <<>>
    BY <2>1, Facts, ShownIs, EmptySeq
  <2>3. /\ realPassword' = <<>> /\ textContent' = <<>> /\ length' = 0
        /\ UNCHANGED <<checked, preview, strength, plain>>
    BY <1>7 DEF ClearPassword
  <2>4. start' = 0 /\ end' = 0 /\ focused' = TRUE
    BY <1>7, <2>1, <2>3 DEF ClearPassword, PlaceCaret, Smaller
  <2>5. TypeOK'
    <3>1. Len(realPassword') <= MaxLen /\ length' \in 0 .. MaxLen
      BY <2>1, <2>3, FieldAssumption
    <3>2. start' \in 0 .. end' /\ end' \in 0 .. Len(textContent')
      BY <2>1, <2>3, <2>4
    <3>3. focused' \in BOOLEAN /\ realPassword' \in Seq(Sym) /\ textContent' \in Seq(Sym)
      BY <2>1, <2>3, <2>4
    <3> QED BY <2>3, <3>1, <3>2, <3>3 DEF IInv, TypeOK, Sym
  <2>6. FieldShowsPassword' /\ PreviewIsCurrent'
    BY <2>1, <2>2, <2>3 DEF FieldShowsPassword, PreviewIsCurrent
  <2> QED BY <2>5, <2>6 DEF IInv
<1>8. ASSUME NEW from \in 0 .. MaxLen, NEW to \in 0 .. MaxLen, Select(from, to)
      PROVE  IInv'
  <2>1. start' \in 0 .. end' /\ end' \in 0 .. Len(textContent')
    BY <1>8, Facts DEF Select
  <2>2. TypeOK'
    BY <1>8, <2>1 DEF Select, labels, IInv, TypeOK
  <2>3. FieldShowsPassword' /\ PreviewIsCurrent'
    BY <1>8 DEF Select, labels, IInv, FieldShowsPassword, PreviewIsCurrent
  <2> QED BY <2>2, <2>3 DEF IInv
<1>9. ASSUME ToggleVisibility PROVE IInv'
  <2>1. /\ checked' \in BOOLEAN
        /\ textContent' = Shown(realPassword, checked') /\ preview' = Shown(realPassword, checked')
        /\ start' = 0 /\ end' = 0 /\ focused' = FALSE
        /\ UNCHANGED <<realPassword, strength, length, plain>>
    BY <1>9 DEF ToggleVisibility, Blur
  <2>2. /\ Shown(realPassword, checked') \in Seq(Sym)
        /\ Len(Shown(realPassword, checked')) \in Nat
    BY <2>1, Facts, ShownIs
  <2>3. TypeOK'
    <3>1. start' \in 0 .. end' /\ end' \in 0 .. Len(textContent')
      BY <2>1, <2>2
    <3>2. /\ focused' \in BOOLEAN
          /\ textContent' \in Seq(Sym) /\ preview' \in Seq(Sym)
      BY <2>1, <2>2
    <3> QED BY <2>1, <3>1, <3>2 DEF IInv, TypeOK, Sym
  <2>4. FieldShowsPassword' /\ PreviewIsCurrent'
    BY <2>1 DEF IInv, FieldShowsPassword, PreviewIsCurrent
  <2> QED BY <2>3, <2>4 DEF IInv
<1>10. ASSUME ApplyLanguage PROVE IInv'
  <2>1. /\ length' = Len(realPassword) /\ preview' = textContent
        /\ start' = 0 /\ end' = 0 /\ focused' = FALSE
        /\ UNCHANGED <<realPassword, textContent, checked, strength, plain>>
    BY <1>10, Facts DEF ApplyLanguage, Blur
  <2>2. TypeOK'
    <3>1. start' \in 0 .. end' /\ end' \in 0 .. Len(textContent') /\ length' \in 0 .. MaxLen
      BY <2>1, Facts
    <3>2. focused' \in BOOLEAN
      BY <2>1
    <3> QED BY <2>1, <3>1, <3>2 DEF IInv, TypeOK
  <2>3. FieldShowsPassword' /\ PreviewIsCurrent'
    BY <2>1, Facts DEF IInv, FieldShowsPassword, PreviewIsCurrent
  <2> QED BY <2>2, <2>3 DEF IInv
<1>11. CASE UNCHANGED vars
  <2>1. UNCHANGED <<realPassword, textContent, start, end, focused, checked,
                    preview, strength, length, plain>>
    BY <1>11 DEF vars, caret, labels
  <2> QED BY <2>1 DEF IInv, TypeOK, FieldShowsPassword, PreviewIsCurrent
<1> QED BY <1>1, <1>2, <1>3, <1>4, <1>5, <1>6, <1>7, <1>8, <1>9, <1>10, <1>11 DEF Next

\* The inductive invariant holds in every reachable state.
THEOREM Invariance == Spec => []IInv
BY InitInv, StepInv, PTL DEF Spec

\* Every variable has its type; above all, no event leaves the selection
\* beyond what the element holds.
THEOREM TypeCorrect == Spec => []TypeOK
<1>1. IInv => TypeOK
  BY DEF IInv
<1> QED BY <1>1, Invariance, PTL

\* After every event the element shows the password or as many asterisks,
\* and the label its length.
THEOREM ShowsPassword == Spec => []FieldShowsPassword
<1>1. IInv => FieldShowsPassword
  BY DEF IInv
<1> QED BY <1>1, Invariance, PTL

\* Preview and strength are never those of an earlier password, but after
\* the clear button.
THEOREM PreviewCurrent == Spec => []PreviewIsCurrent
<1>1. IInv => PreviewIsCurrent
  BY DEF IInv
<1> QED BY <1>1, Invariance, PTL
-----------------------------------------------------------------------------
(* The field implements TextField.                                         *)

\* An update of what is between two offsets is an edit of the text field.
LEMMA UpdateIsReplace ==
    ASSUME IInv, NEW t \in Inserted \cup {<<>>}, Fits(t),
           NEW from \in Nat, NEW to \in Nat, from <= to, to <= Len(realPassword),
           Update(Before(realPassword, from) \o t \o From(realPassword, to)),
           PlaceCaret(from + Len(t)), plain' = plain
    PROVE  Abs!AbsReplace(from, to, t)
<1> DEFINE p == Before(realPassword, from) \o t \o From(realPassword, to)
<1>1. /\ p \in Seq(Sym) /\ Len(p) = from + Len(t) + Len(realPassword) - to
      /\ Before(realPassword, from) = SubSeq(realPassword, 1, from)
  BY Facts, ReplacedText
<1>2. p = Abs!Replaced(realPassword, from, to, t)
  BY <1>1 DEF Abs!Replaced, From
<1>3. Update(p)
  OBVIOUS
<1> HIDE DEF p
<1>4. realPassword' = p /\ Len(textContent') = Len(p)
  BY <1>1, <1>3, Facts, ShownIs DEF Update
<1>5. Len(t) \in Nat
  BY InsertedIs, EmptySeq
<1>6. start' = from + Len(t) /\ end' = start'
  <2>1. Len(textContent') = from + Len(t) + Len(realPassword) - to
    BY <1>1, <1>4
  <2>2. Len(realPassword) \in Nat
    BY Facts
  <2>3. from + Len(t) <= Len(textContent')
    BY <1>5, <2>1, <2>2
  <2> QED BY <2>3 DEF PlaceCaret, Smaller
<1> QED BY <1>2, <1>4, <1>6 DEF Abs!AbsReplace

\* Dropping a character is putting nothing in its place.
LEMMA DroppedIsReplaced ==
    ASSUME NEW S, NEW s \in Seq(S), NEW i \in Nat
    PROVE  Dropped(s, i) = Before(s, i) \o <<>> \o From(s, i + 1)
<1>1. Before(s, i) \in Seq(S)
  BY BeforeIs
<1>2. Before(s, i) \o <<>> = Before(s, i)
  BY <1>1, ConcatEmptySeq
<1> QED BY <1>2 DEF Dropped

LEMMA DropIsReplace ==
    ASSUME IInv, NEW position \in Nat, position < Len(realPassword),
           Update(Dropped(realPassword, position)), PlaceCaret(position), plain' = plain
    PROVE  Abs!AbsReplace(position, position + 1, <<>>)
<1>1. Dropped(realPassword, position) =
        Before(realPassword, position) \o <<>> \o From(realPassword, position + 1)
  BY Facts, DroppedIsReplaced
<1>2. Update(Before(realPassword, position) \o <<>> \o From(realPassword, position + 1))
  BY <1>1
<1>3. Len(<<>>) = 0
  BY EmptySeq
<1>4. PlaceCaret(position + Len(<<>>)) /\ Fits(<<>>)
  <2>1. position + Len(<<>>) = position
    BY <1>3
  <2>2. Len(realPassword) + Len(<<>>) <= MaxLen
    BY <1>3, Facts
  <2> QED BY <2>1, <2>2 DEF Fits
<1>5. position + 1 \in Nat /\ position <= position + 1 /\ position + 1 <= Len(realPassword)
  BY Facts
<1>6. <<>> \in Inserted \cup {<<>>}
  OBVIOUS
<1> QED BY <1>2, <1>4, <1>5, <1>6, UpdateIsReplace

\* An insertion that fits is of a length TextField allows.
LEMMA InsertIsEdit ==
    ASSUME IInv, NEW t \in Inserted, Fits(t), Abs!AbsReplace(start, end, t)
    PROVE  Abs!AbsEdit
<1>1. Len(t) \in 1 .. MaxData
  BY InsertedIs
<1>2. t \in [1 .. Len(t) -> Char]
  BY InsertedIs
<1> QED BY <1>1, <1>2 DEF Abs!AbsEdit

\* One character gone, beside the caret or selected.
LEMMA DropIsEdit ==
    ASSUME IInv, NEW position \in Nat, position < Len(realPassword),
           Abs!AbsReplace(position, position + 1, <<>>),
           \/ position = start /\ end <= start + 1
           \/ position = start - 1 /\ start = end
    PROVE  Abs!AbsEdit
<1>1. CASE position = start /\ end = start
  BY <1>1, Facts DEF Abs!AbsEdit
<1>2. CASE position = start /\ end = start + 1
  <2>1. start < end /\ Abs!AbsReplace(start, end, <<>>)
    BY <1>2, Facts
  <2> QED BY <2>1 DEF Abs!AbsEdit
<1>3. CASE position = start - 1 /\ start = end
  <2>1. start > 0 /\ position + 1 = start
    BY <1>3, Facts
  <2>2. Abs!AbsReplace(start - 1, start, <<>>)
    BY <1>3, <2>1
  <2> QED BY <1>3, <2>1, <2>2 DEF Abs!AbsEdit
<1> QED BY <1>1, <1>2, <1>3, Facts

LEMMA InitAbs == ASSUME Init PROVE Abs!AbsInit
BY DEF Init, Abs!AbsInit

LEMMA StepAbs == ASSUME IInv, [Next]_vars PROVE [Abs!AbsNext]_(Abs!absVars)
<1>1. ASSUME NEW t \in Inserted, InsertText(t) PROVE Abs!AbsNext
  <2>1. CASE ~plain'
    BY <2>1 DEF Abs!AbsNext
  <2>2. CASE plain'
    <3>1. /\ plain' = plain /\ start = end /\ (Len(t) = 1 \/ start = Len(realPassword))
      BY <1>1, <2>2, Facts DEF InsertText, Noted
    <3>2. Fits(t) /\ PlaceCaret(start + Len(t))
      BY <1>1 DEF InsertText
    <3>3. Update(Before(realPassword, start + Len(t) - 1) \o t
                 \o From(realPassword, start + Len(t) - 1))
      BY <1>1, InsertedIs, Facts DEF InsertText
    <3>4. /\ Before(realPassword, start + Len(t) - 1) = Before(realPassword, start)
          /\ From(realPassword, start + Len(t) - 1) = From(realPassword, end)
      <4>1. CASE Len(t) = 1
        <5>1. start + Len(t) - 1 = start
          BY <4>1, Facts
        <5> QED BY <3>1, <5>1
      <4>2. CASE start = Len(realPassword)
        <5>1. start + Len(t) - 1 \in Nat /\ start + Len(t) - 1 >= Len(realPassword)
          BY <4>2, InsertedIs, Facts
        <5>2. start \in Nat /\ start >= Len(realPassword) /\ realPassword \in Seq(Sym)
          BY <4>2, Facts
        <5>3. /\ Before(realPassword, start + Len(t) - 1) = realPassword
              /\ From(realPassword, start + Len(t) - 1) = <<>>
          BY <5>1, <5>2, BeforeIs, FromIs
        <5>4. Before(realPassword, start) = realPassword /\ From(realPassword, start) = <<>>
          BY <5>2, BeforeIs, FromIs
        <5> QED BY <3>1, <5>3, <5>4
      <4> QED BY <3>1, <4>1, <4>2
    <3>5. Update(Before(realPassword, start) \o t \o From(realPassword, end))
      BY <3>3, <3>4
    <3>6. Abs!AbsReplace(start, end, t)
      BY <3>1, <3>2, <3>5, Facts, UpdateIsReplace
    <3> QED BY <3>2, <3>6, InsertIsEdit DEF Abs!AbsNext
  <2> QED BY <2>1, <2>2
<1>2. ASSUME NEW t \in Inserted \cup {<<>>}, Paste(t)
      PROVE  Abs!AbsNext \/ UNCHANGED Abs!absVars
  <2>1. /\ Update(Before(realPassword, start) \o t \o From(realPassword, end))
        /\ PlaceCaret(start + Len(t)) /\ Fits(t) /\ plain' = plain
    BY <1>2 DEF Paste
  <2>2. Abs!AbsReplace(start, end, t)
    BY <2>1, Facts, UpdateIsReplace
  <2>3. CASE t \in Inserted
    BY <2>1, <2>2, <2>3, InsertIsEdit DEF Abs!AbsNext
  <2>4. CASE t = <<>> /\ start < end
    BY <2>2, <2>4 DEF Abs!AbsNext, Abs!AbsEdit
  <2>5. CASE t = <<>> /\ start = end
    <3>1. Len(<<>>) = 0 /\ start \in Nat /\ start <= Len(realPassword)
      BY <2>5, Facts, EmptySeq
    <3>2. realPassword' = SubSeq(realPassword, 1, start) \o <<>>
                          \o SubSeq(realPassword, start + 1, Len(realPassword))
      BY <2>2, <2>5 DEF Abs!AbsReplace, Abs!Replaced
    <3>3. SubSeq(realPassword, 1, start) \o <<>> = SubSeq(realPassword, 1, start)
      BY <3>1, Facts, BeforeIs, ConcatEmptySeq
    <3>4. SubSeq(realPassword, 1, start) \o SubSeq(realPassword, start + 1, Len(realPassword))
            = SubSeq(realPassword, 1, Len(realPassword))
      <4>1. /\ 1 \in 1 .. Len(realPassword) + 1
            /\ start \in 1 - 1 .. Len(realPassword)
            /\ Len(realPassword) \in start .. Len(realPassword)
            /\ realPassword \in Seq(Sym)
        BY <3>1, Facts
      <4> QED BY <4>1, ConcatAdjacentSubSeq
    <3>5. realPassword' = realPassword
      BY <3>2, <3>3, <3>4, Facts, SubSeqFull
    <3>6. start' = start + Len(t) /\ end' = start + Len(t) /\ plain' = plain
      BY <2>2 DEF Abs!AbsReplace
    <3>7. start + Len(t) = start
      BY <2>5, <3>1
    <3> QED BY <2>5, <3>5, <3>6, <3>7 DEF Abs!absVars
  <2> QED BY <2>3, <2>4, <2>5, Facts
<1>3. ASSUME DeleteBackward PROVE Abs!AbsNext
  <2> DEFINE i == IF start < end THEN start ELSE start - 1
  <2>1. CASE ~plain'
    BY <2>1 DEF Abs!AbsNext
  <2>2. CASE plain'
    <3>1. plain' = plain /\ end <= start + 1 /\ end > 0
      BY <1>3, <2>2, Facts DEF DeleteBackward, Noted
    <3>2. /\ i \in Nat /\ i < Len(realPassword)
          /\ (i = start /\ end <= start + 1) \/ (i = start - 1 /\ start = end)
      BY <3>1, Facts
    <3>3. /\ Update(IF i <= Len(realPassword) THEN Dropped(realPassword, i) ELSE realPassword)
          /\ PlaceCaret(i)
      BY <1>3 DEF DeleteBackward
    <3> HIDE DEF i
    <3>4. Update(Dropped(realPassword, i))
      BY <3>2, <3>3, Facts
    <3>5. Abs!AbsReplace(i, i + 1, <<>>)
      BY <3>1, <3>2, <3>3, <3>4, DropIsReplace
    <3>6. Abs!AbsEdit
      BY <3>2, <3>5, DropIsEdit
    <3> QED BY <3>6 DEF Abs!AbsNext
  <2> QED BY <2>1, <2>2
<1>4. ASSUME DeleteForward \/ DeleteKey PROVE Abs!AbsNext
  <2>1. CASE ~plain'
    BY <2>1 DEF Abs!AbsNext
  <2>2. CASE plain'
    <3>1. plain' = plain /\ end <= start + 1
      BY <1>4, <2>2, Facts DEF DeleteForward, DeleteKey, Noted
    <3>2. start \in Nat /\ start < Len(realPassword)
      BY <1>4, Facts DEF DeleteForward, DeleteKey
    <3>3. Update(Dropped(realPassword, start)) /\ PlaceCaret(start)
      BY <1>4 DEF DeleteForward, DeleteKey
    <3>4. Abs!AbsReplace(start, start + 1, <<>>)
      BY <3>1, <3>2, <3>3, DropIsReplace
    <3>5. Abs!AbsEdit
      BY <3>1, <3>2, <3>4, DropIsEdit
    <3> QED BY <3>5 DEF Abs!AbsNext
  <2> QED BY <2>1, <2>2
<1>5. ASSUME NEW from \in 0 .. MaxLen, NEW to \in 0 .. MaxLen,
             NEW t \in Inserted \cup {<<>>}, OtherInput(from, to, t)
      PROVE  Abs!AbsNext
  <2>1. CASE ~plain'
    BY <2>1 DEF Abs!AbsNext
  <2>2. CASE plain'
    <3>1. plain' = plain /\ checked /\ from = start /\ to = end
      BY <1>5, <2>2, Facts DEF OtherInput, Noted
    <3>2. textContent = realPassword
      BY <3>1, Facts DEF Shown
    <3>3. /\ Update(Before(textContent, from) \o t \o From(textContent, to))
          /\ PlaceCaret(from + Len(t)) /\ Fits(t)
      BY <1>5 DEF OtherInput
    <3>4. /\ Update(Before(realPassword, start) \o t \o From(realPassword, end))
          /\ PlaceCaret(start + Len(t))
      BY <3>1, <3>2, <3>3
    <3>5. Abs!AbsReplace(start, end, t)
      BY <3>1, <3>3, <3>4, Facts, UpdateIsReplace
    <3>6. t \in Inserted \/ (t = <<>> /\ start < end)
      BY <1>5, <3>1 DEF OtherInput
    <3>7. CASE t \in Inserted
      BY <3>3, <3>5, <3>7, InsertIsEdit DEF Abs!AbsNext
    <3>8. CASE t = <<>> /\ start < end
      BY <3>5, <3>8 DEF Abs!AbsNext, Abs!AbsEdit
    <3> QED BY <3>6, <3>7, <3>8
  <2> QED BY <2>1, <2>2
<1>6. ASSUME ClearPassword PROVE Abs!AbsNext
  <2>1. realPassword' = <<>> /\ textContent' = <<>> /\ plain' = plain /\ Len(<<>>) = 0
    BY <1>6, EmptySeq DEF ClearPassword
  <2>2. start' = 0 /\ end' = 0
    BY <1>6, <2>1 DEF ClearPassword, PlaceCaret, Smaller
  <2> QED BY <2>1, <2>2 DEF Abs!AbsNext, Abs!AbsClear
<1>7. ASSUME NEW from \in 0 .. MaxLen, NEW to \in 0 .. MaxLen, Select(from, to)
      PROVE  Abs!AbsNext
  <2>1. Abs!AbsSelect(from, to)
    BY <1>7, Facts DEF Select, Abs!AbsSelect
  <2> QED BY <2>1 DEF Abs!AbsNext
<1>8. ASSUME ToggleVisibility \/ ApplyLanguage PROVE Abs!AbsNext
  <2>1. start' = 0 /\ end' = 0 /\ realPassword' = realPassword /\ plain' = plain
    BY <1>8 DEF ToggleVisibility, ApplyLanguage, Blur
  <2>2. Abs!AbsSelect(0, 0) /\ 0 \in 0 .. MaxLen
    BY <2>1, Facts DEF Abs!AbsSelect
  <2> QED BY <2>2 DEF Abs!AbsNext
<1>9. CASE UNCHANGED vars
  BY <1>9 DEF vars, caret, Abs!absVars
<1> QED BY <1>1, <1>2, <1>3, <1>4, <1>5, <1>6, <1>7, <1>8, <1>9 DEF Next

\* As long as the edits are those the handlers are written for, the password
\* is edited as the text of an ordinary field, with any moves of the caret,
\* clearings, and switches of the box and the language between.
THEOREM Refinement == Spec => EditsLikeTextField
<1>1. Init => Abs!AbsInit
  BY InitAbs
<1>2. IInv /\ [Next]_vars => [Abs!AbsNext]_(Abs!absVars)
  BY StepAbs
<1> QED BY <1>1, <1>2, Invariance, PTL DEF Spec, EditsLikeTextField, Abs!AbsSpec
-----------------------------------------------------------------------------
(* The rules for a password.                                               *)

\* A set of natural numbers that is not empty has a least element.
LEMMA Least == ASSUME NEW T \in SUBSET Nat, T # {} PROVE \E n \in T : \A m \in T : n <= m
<1> DEFINE R == {ss \in Nat \X Nat : ss[1] < ss[2]}
<1>1. IsWellFoundedOn(R, Nat)
  BY NatLessThanWellFounded, Zenon DEF OpToRel
<1>2. PICK n \in T : \A m \in T : <<m, n>> \notin R
  BY <1>1, WFMin, Zenon
<1>3. ASSUME NEW m \in T PROVE n <= m
  <2>1. <<m, n>> \in Nat \X Nat
    BY <1>3
  <2>2. ~(m < n)
    BY <1>2, <1>3, <2>1
  <2> QED BY <1>3, <2>2
<1> QED BY <1>3

\* The k-th character is d away from the one before it.
Link(p, k, d) == k > 1 /\ p[k] = p[k - 1] + d

\* The k-th character ends a row that began with the i-th.
Row(p, i, k, d) == \A j \in i + 1 .. k : Link(p, j, d)

\* Where the longest row that the k-th character ends began.
Began(p, k, d) ==
    CHOOSE i \in 1 .. k : Row(p, i, k, d) /\ \A j \in 1 .. k : Row(p, j, k, d) => i <= j

LEMMA BeganIs ==
    ASSUME NEW p, NEW d, NEW k \in Nat \ {0}
    PROVE  /\ Began(p, k, d) \in 1 .. k
           /\ Row(p, Began(p, k, d), k, d)
           /\ \A j \in 1 .. k : Row(p, j, k, d) => Began(p, k, d) <= j
<1> DEFINE T == {i \in 1 .. k : Row(p, i, k, d)}
<1>1. k \in T
  BY DEF Row
<1>2. T \in SUBSET Nat /\ T # {}
  BY <1>1
<1>3. \E i \in T : \A j \in T : i <= j
  BY <1>2, Least
<1>4. \E i \in 1 .. k : Row(p, i, k, d) /\ \A j \in 1 .. k : Row(p, j, k, d) => i <= j
  BY <1>3
<1> QED BY <1>4 DEF Began

\* A row that goes on began where it began for the character before.
LEMMA BeganStep ==
    ASSUME NEW p, NEW d, NEW k \in Nat \ {0}
    PROVE  Began(p, k, d) = IF Link(p, k, d) THEN Began(p, k - 1, d) ELSE k
<1>1. CASE ~Link(p, k, d)
  <2>1. Began(p, k, d) \in 1 .. k /\ Row(p, Began(p, k, d), k, d)
    BY BeganIs
  <2>2. ~(k \in Began(p, k, d) + 1 .. k)
    BY <1>1, <2>1 DEF Row
  <2> QED BY <1>1, <2>1, <2>2
<1>2. CASE Link(p, k, d)
  <2>1. k - 1 \in Nat \ {0}
    BY <1>2 DEF Link
  <2>2. \A i \in 1 .. k - 1 : Row(p, i, k, d) <=> Row(p, i, k - 1, d)
    BY <1>2, <2>1 DEF Row
  <2>3. /\ Began(p, k - 1, d) \in 1 .. k - 1 /\ Row(p, Began(p, k - 1, d), k - 1, d)
        /\ \A j \in 1 .. k - 1 : Row(p, j, k - 1, d) => Began(p, k - 1, d) <= j
    BY <2>1, BeganIs
  <2>4. /\ Began(p, k, d) \in 1 .. k /\ Row(p, Began(p, k, d), k, d)
        /\ \A j \in 1 .. k : Row(p, j, k, d) => Began(p, k, d) <= j
    BY BeganIs
  <2>5. Began(p, k, d) <= Began(p, k - 1, d)
    BY <2>1, <2>2, <2>3, <2>4
  <2>6. Began(p, k, d) \in 1 .. k - 1
    BY <2>1, <2>3, <2>4, <2>5
  <2>7. Began(p, k - 1, d) <= Began(p, k, d)
    BY <2>2, <2>3, <2>4, <2>6
  <2> QED BY <1>2, <2>3, <2>4, <2>5, <2>7
<1> QED BY <1>1, <1>2

\* The equation of streak has a solution, so that Streak is one.
LEMMA StreakIs ==
    ASSUME NEW S, NEW p \in Seq(S), NEW d
    PROVE  Streak(p, d) = [k \in 1 .. Len(p) |->
              IF k > 1 /\ p[k] = p[k - 1] + d THEN Streak(p, d)[k - 1] + 1 ELSE 1]
<1> DEFINE Solves(g) == g = [k \in 1 .. Len(p) |->
              IF k > 1 /\ p[k] = p[k - 1] + d THEN g[k - 1] + 1 ELSE 1]
           h == [k \in 1 .. Len(p) |-> k - Began(p, k, d) + 1]
<1>1. Solves(h)
  <2>1. ASSUME NEW k \in 1 .. Len(p)
        PROVE  k - Began(p, k, d) + 1 =
                 IF k > 1 /\ p[k] = p[k - 1] + d THEN h[k - 1] + 1 ELSE 1
    <3>1. k \in Nat \ {0} /\ Len(p) \in Nat
      BY LenProperties
    <3>2. Began(p, k, d) = IF Link(p, k, d) THEN Began(p, k - 1, d) ELSE k
      BY <3>1, BeganStep
    <3>3. CASE Link(p, k, d)
      <4>1. k - 1 \in 1 .. Len(p) /\ k - 1 \in Nat \ {0}
        BY <3>1, <3>3 DEF Link
      <4>2. Began(p, k - 1, d) \in 1 .. k - 1
        BY <4>1, BeganIs
      <4>3. h[k - 1] = k - 1 - Began(p, k - 1, d) + 1
        BY <4>1
      <4> QED BY <3>1, <3>2, <3>3, <4>2, <4>3 DEF Link
    <3>4. CASE ~Link(p, k, d)
      BY <3>1, <3>2, <3>4 DEF Link
    <3> QED BY <3>3, <3>4
  <2> QED BY <2>1
<1>2. \E g : Solves(g)
  BY <1>1
<1>3. Streak(p, d) = CHOOSE g : Solves(g)
  BY DEF Streak
<1> HIDE DEF Solves
<1>4. Solves(Streak(p, d))
  BY <1>2, <1>3, Zenon
<1> QED BY <1>4 DEF Solves

LEMMA StreakType ==
    ASSUME NEW S, NEW p \in Seq(S), NEW d
    PROVE  \A k \in 1 .. Len(p) : Streak(p, d)[k] \in Nat \ {0}
<1> DEFINE st == Streak(p, d)
           T == {k \in 1 .. Len(p) : st[k] \notin Nat \ {0}}
<1>1. \A k \in 1 .. Len(p) :
         st[k] = IF k > 1 /\ p[k] = p[k - 1] + d THEN st[k - 1] + 1 ELSE 1
  BY StreakIs
<1> HIDE DEF st
<1>2. SUFFICES ASSUME T # {} PROVE FALSE
  BY DEF st
<1>3. Len(p) \in Nat
  BY LenProperties
<1>4. T \in SUBSET Nat
  BY <1>3
<1>5. PICK k \in T : \A m \in T : k <= m
  BY <1>2, <1>4, Least
<1>6. k \in 1 .. Len(p) /\ st[k] \notin Nat \ {0}
  BY <1>5
<1>7. k > 1 /\ st[k] = st[k - 1] + 1
  BY <1>1, <1>6
<1>8. k - 1 \in 1 .. Len(p) /\ k - 1 \notin T
  BY <1>3, <1>5, <1>6, <1>7
<1>9. st[k - 1] \in Nat \ {0}
  BY <1>8
<1> QED BY <1>6, <1>7, <1>9

\* A streak is longer than n + 1 if its last two characters are d apart and
\* the streak up to the last but one is longer than n.
LEMMA StreakStep ==
    ASSUME NEW S, NEW p \in Seq(S), NEW d, NEW k \in 1 .. Len(p), NEW n \in Nat
    PROVE  /\ Streak(p, d)[k] > n + 1 <=> Link(p, k, d) /\ Streak(p, d)[k - 1] > n
           /\ Streak(p, d)[k] > 0
<1>1. Streak(p, d)[k] =
        IF k > 1 /\ p[k] = p[k - 1] + d THEN Streak(p, d)[k - 1] + 1 ELSE 1
  BY StreakIs
<1>2. Streak(p, d)[k] \in Nat \ {0} /\ Len(p) \in Nat
  BY StreakType, LenProperties
<1>3. CASE Link(p, k, d)
  <2>1. k - 1 \in 1 .. Len(p)
    BY <1>2, <1>3 DEF Link
  <2>2. Streak(p, d)[k - 1] \in Nat \ {0}
    BY <2>1, StreakType
  <2> QED BY <1>1, <1>2, <1>3, <2>2 DEF Link
<1>4. CASE ~Link(p, k, d)
  BY <1>1, <1>2, <1>4 DEF Link
<1> QED BY <1>3, <1>4

\* More than three in a row are four in a row, wherever they are.
LEMMA FourIs ==
    ASSUME NEW S, NEW p \in Seq(S), NEW d
    PROVE  AtLeast(4, p, d) <=>
             \E i \in 1 .. Len(p) - 3 : \A k \in 1 .. 3 : p[i + k] = p[i + k - 1] + d
<1> DEFINE st == Streak(p, d)
<1>1. Len(p) \in Nat
  BY LenProperties
<1>2. ASSUME NEW k \in 1 .. Len(p)
      PROVE  st[k] > 3 <=> Link(p, k, d) /\ Link(p, k - 1, d) /\ Link(p, k - 2, d)
  <2>1. st[k] > 3 <=> Link(p, k, d) /\ st[k - 1] > 2
    <3>1. st[k] > 2 + 1 <=> Link(p, k, d) /\ st[k - 1] > 2
      BY StreakStep
    <3> QED BY <3>1
  <2>2. Link(p, k, d) => (st[k - 1] > 2 <=> Link(p, k - 1, d) /\ st[k - 2] > 1)
    <3>1. SUFFICES ASSUME Link(p, k, d)
                   PROVE  st[k - 1] > 2 <=> Link(p, k - 1, d) /\ st[k - 2] > 1
      OBVIOUS
    <3>2. k - 1 \in 1 .. Len(p) /\ k - 1 - 1 = k - 2
      BY <1>1, <3>1 DEF Link
    <3>3. st[k - 1] > 1 + 1 <=> Link(p, k - 1, d) /\ st[k - 1 - 1] > 1
      BY <3>2, StreakStep
    <3> QED BY <3>2, <3>3
  <2>3. Link(p, k - 1, d) => (st[k - 2] > 1 <=> Link(p, k - 2, d))
    <3>1. SUFFICES ASSUME Link(p, k - 1, d)
                   PROVE  st[k - 2] > 1 <=> Link(p, k - 2, d)
      OBVIOUS
    <3>2. k - 2 \in 1 .. Len(p) /\ k - 2 - 1 = k - 3
      BY <1>1, <3>1 DEF Link
    <3>3. st[k - 2] > 0 + 1 <=> Link(p, k - 2, d) /\ st[k - 2 - 1] > 0
      BY <3>2, StreakStep
    <3>4. Link(p, k - 2, d) => k - 3 \in 1 .. Len(p)
      BY <1>1, <3>2 DEF Link
    <3>5. Link(p, k - 2, d) => st[k - 3] > 0
      BY <3>4, StreakStep
    <3> QED BY <3>2, <3>3, <3>5
  <2> QED BY <2>1, <2>2, <2>3
<1>3. AtLeast(4, p, d) <=>
        \E k \in 1 .. Len(p) : Link(p, k, d) /\ Link(p, k - 1, d) /\ Link(p, k - 2, d)
  <2>1. \A k \in 1 .. Len(p) : st[k] \in Nat
    BY StreakType
  <2>2. AtLeast(4, p, d) <=> \E k \in 1 .. Len(p) : st[k] > 3
    BY <2>1 DEF AtLeast
  <2> QED BY <1>2, <2>2
<1>4. ASSUME NEW k \in 1 .. Len(p), Link(p, k, d), Link(p, k - 1, d), Link(p, k - 2, d)
      PROVE  \E i \in 1 .. Len(p) - 3 : \A j \in 1 .. 3 : p[i + j] = p[i + j - 1] + d
  <2> DEFINE i == k - 3
  <2>1. i \in 1 .. Len(p) - 3
    BY <1>1, <1>4 DEF Link
  <2>2. p[k] = p[k - 1] + d /\ p[k - 1] = p[k - 1 - 1] + d /\ p[k - 2] = p[k - 2 - 1] + d
    BY <1>4 DEF Link
  <2>3. /\ i + 3 = k /\ i + 3 - 1 = k - 1
        /\ i + 2 = k - 1 /\ i + 2 - 1 = k - 1 - 1
        /\ i + 1 = k - 2 /\ i + 1 - 1 = k - 2 - 1
    BY <1>1
  <2>4. p[i + 3] = p[i + 3 - 1] + d /\ p[i + 2] = p[i + 2 - 1] + d /\ p[i + 1] = p[i + 1 - 1] + d
    BY <2>2, <2>3
  <2> HIDE DEF i
  <2> QED BY <2>1, <2>4
<1>5. ASSUME NEW i \in 1 .. Len(p) - 3, \A j \in 1 .. 3 : p[i + j] = p[i + j - 1] + d
      PROVE  \E k \in 1 .. Len(p) : Link(p, k, d) /\ Link(p, k - 1, d) /\ Link(p, k - 2, d)
  <2> DEFINE k == i + 3
  <2>1. k \in 1 .. Len(p) /\ k > 1 /\ k - 1 > 1 /\ k - 2 > 1
    BY <1>1
  <2>2. p[i + 3] = p[i + 3 - 1] + d /\ p[i + 2] = p[i + 2 - 1] + d /\ p[i + 1] = p[i + 1 - 1] + d
    BY <1>5
  <2>3. /\ i + 3 = k /\ i + 3 - 1 = k - 1
        /\ i + 2 = k - 1 /\ i + 2 - 1 = k - 1 - 1
        /\ i + 1 = k - 2 /\ i + 1 - 1 = k - 2 - 1
    BY <1>1
  <2>4. p[k] = p[k - 1] + d /\ p[k - 1] = p[k - 1 - 1] + d /\ p[k - 2] = p[k - 2 - 1] + d
    BY <2>2, <2>3
  <2> HIDE DEF k
  <2>5. Link(p, k, d) /\ Link(p, k - 1, d) /\ Link(p, k - 2, d)
    BY <2>1, <2>4 DEF Link
  <2> QED BY <2>1, <2>5
<1> QED BY <1>3, <1>4, <1>5

\* What the regular expression and the two loops refuse.
LEMMA RulesAre ==
    ASSUME NEW p \in Seq(Nat)
    PROVE  /\ hasRepeatingChars(p) <=> AtLeast(4, p, 0)
           /\ hasSequentialChars(p) <=> AtLeast(4, p, 1) \/ AtLeast(4, p, -1)
<1> DEFINE L == Len(p)
           Apart(i, d) == \A k \in 1 .. 3 : p[i + k] = p[i + k - 1] + d
<1>1. L \in Nat /\ \A k \in 1 .. L : p[k] \in Nat
  BY LenProperties, ElementOfSeq
<1>2. /\ AtLeast(4, p, 0) <=> \E i \in 1 .. L - 3 : Apart(i, 0)
      /\ AtLeast(4, p, 1) <=> \E i \in 1 .. L - 3 : Apart(i, 1)
      /\ AtLeast(4, p, -1) <=> \E i \in 1 .. L - 3 : Apart(i, -1)
  <2>1. \A d : AtLeast(4, p, d) <=> \E i \in 1 .. L - 3 : Apart(i, d)
    BY FourIs
  <2> QED BY <2>1
<1>3. ASSUME NEW i \in 1 .. L - 3
      PROVE  /\ p[i] \in Nat /\ p[i + 1] \in Nat /\ p[i + 2] \in Nat /\ p[i + 3] \in Nat
             /\ i + 1 - 1 = i /\ i + 2 - 1 = i + 1 /\ i + 3 - 1 = i + 2
  BY <1>1
<1>4. ASSUME NEW i \in 1 .. L - 3, NEW d \in Int
      PROVE  Apart(i, d) <=> /\ p[i + 1] = p[i] + d
                             /\ p[i + 2] = p[i + 1] + d
                             /\ p[i + 3] = p[i + 2] + d
  BY <1>3
<1>5. ASSUME NEW i \in 1 .. L - 3, NEW d
      PROVE  Climbs(p, i, d) <=> /\ p[i + 1] = p[i] + 1 * d
                                 /\ p[i + 2] = p[i] + 2 * d
                                 /\ p[i + 3] = p[i] + 3 * d
  BY DEF Climbs
<1>6. ASSUME NEW i \in 1 .. L - 3
      PROVE  /\ Climbs(p, i, 1) <=> Apart(i, 1)
             /\ Climbs(p, i, -1) <=> Apart(i, -1)
  <2>1. PICK a \in Nat, b \in Nat, c \in Nat, e \in Nat :
               a = p[i] /\ b = p[i + 1] /\ c = p[i + 2] /\ e = p[i + 3]
    BY <1>3
  <2>2. /\ Climbs(p, i, 1) <=> b = a + 1 * 1 /\ c = a + 2 * 1 /\ e = a + 3 * 1
        /\ Climbs(p, i, -1) <=> b = a + 1 * (-1) /\ c = a + 2 * (-1) /\ e = a + 3 * (-1)
    BY <1>5, <2>1
  <2>3. /\ Apart(i, 1) <=> b = a + 1 /\ c = b + 1 /\ e = c + 1
        /\ Apart(i, -1) <=> b = a + (-1) /\ c = b + (-1) /\ e = c + (-1)
    BY <1>4, <2>1
  <2>4. (b = a + 1 /\ c = a + 2 /\ e = a + 3) <=> (b = a + 1 /\ c = b + 1 /\ e = c + 1)
    OBVIOUS
  <2>5. (b = a - 1 /\ c = a - 2 /\ e = a - 3) <=> (b = a + (-1) /\ c = b + (-1) /\ e = c + (-1))
    OBVIOUS
  <2>6. /\ a + 1 * 1 = a + 1 /\ a + 2 * 1 = a + 2 /\ a + 3 * 1 = a + 3
        /\ a + 1 * (-1) = a - 1 /\ a + 2 * (-1) = a - 2 /\ a + 3 * (-1) = a - 3
    BY <2>1
  <2> QED BY <2>2, <2>3, <2>4, <2>5, <2>6
<1>7. hasSequentialChars(p) <=> AtLeast(4, p, 1) \/ AtLeast(4, p, -1)
  BY <1>2, <1>6 DEF hasSequentialChars
<1>8. ASSUME NEW i \in 1 .. L, NEW n \in 3 .. L - i, \A k \in 1 .. n : p[i + k] = p[i]
      PROVE  i \in 1 .. L - 3 /\ Apart(i, 0)
  <2>1. i \in 1 .. L - 3
    BY <1>1
  <2>2. p[i + 1] = p[i] /\ p[i + 2] = p[i] /\ p[i + 3] = p[i]
    BY <1>1, <1>8
  <2> QED BY <1>3, <1>4, <2>1, <2>2
<1>9. ASSUME NEW i \in 1 .. L - 3, Apart(i, 0)
      PROVE  i \in 1 .. L /\ 3 \in 3 .. L - i /\ \A k \in 1 .. 3 : p[i + k] = p[i]
  <2>1. i \in 1 .. L /\ 3 \in 3 .. L - i
    BY <1>1
  <2>2. p[i + 1] = p[i] /\ p[i + 2] = p[i] /\ p[i + 3] = p[i]
    BY <1>3, <1>4, <1>9
  <2> QED BY <2>1, <2>2
<1>10. hasRepeatingChars(p) <=> AtLeast(4, p, 0)
  BY <1>2, <1>8, <1>9 DEF hasRepeatingChars
<1> QED BY <1>7, <1>10

\* The rules refuse just the passwords with more than three equal, ascending
\* or descending characters in a row: for passwords of any length, and not
\* only those a user comes to.
THEOREM RulesHold == Spec => []RulesAgree
<1>1. IInv => RulesAgree
  <2>1. Sym \subseteq Nat
    BY FieldAssumption DEF Sym
  <2>2. SUFFICES ASSUME IInv PROVE RulesAgree
    OBVIOUS
  <2>3. realPassword \in Seq(Nat)
    BY <2>1, <2>2, Facts, SeqMonotonic
  <2>4. /\ hasRepeatingChars(realPassword) <=> AtLeast(4, realPassword, 0)
        /\ hasSequentialChars(realPassword) <=>
              AtLeast(4, realPassword, 1) \/ AtLeast(4, realPassword, -1)
    BY <2>3, RulesAre
  <2>5. Refused <=> RowOf(4)
    BY <2>4 DEF Refused, RowOf
  <2> QED BY <2>4, <2>5 DEF RulesAgree
<1> QED BY <1>1, Invariance, PTL
=============================================================================
