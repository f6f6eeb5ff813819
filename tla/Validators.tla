------------------------------ MODULE Validators ------------------------------
(***************************************************************************)
(* The rules of validators.js for a password, which is here a sequence of  *)
(* character codes.                                                        *)
(***************************************************************************)
EXTENDS Integers, Sequences

\* /(.)\1{3,}/ : a character, and the same one at least three times more.
hasRepeatingChars(password) ==
    \E i \in 1 .. Len(password) : \E n \in 3 .. Len(password) - i :
        \A k \in 1 .. n : password[i + k] = password[i]

\* From i on, each of three more characters is d away from the one before.
Climbs(password, i, d) == \A k \in 1 .. 3 : password[i + k] = password[i] + k * d

\* Mutant: the last place a sequence can start at is left out.
hasSequentialChars_Short(password) ==
    \E i \in 1 .. Len(password) - 4 : Climbs(password, i, 1) \/ Climbs(password, i, -1)

\* The two loops, ascending and descending, over i < length - 3.
hasSequentialChars(password) ==
    \/ \E i \in 1 .. Len(password) - 3 : Climbs(password, i, 1)
    \/ \E i \in 1 .. Len(password) - 3 : Climbs(password, i, -1)
-----------------------------------------------------------------------------
\* How many characters in a row, up to the k-th, are d apart.
Streak(password, d) ==
    LET streak[k \in 1 .. Len(password)] ==
          IF k > 1 /\ password[k] = password[k - 1] + d THEN streak[k - 1] + 1 ELSE 1
    IN  streak

\* n characters in a row, or more, are d apart.
AtLeast(n, password, d) == \E k \in 1 .. Len(password) : Streak(password, d)[k] >= n
===============================================================================
