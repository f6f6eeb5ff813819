--------------------------- MODULE SignupFormProofs ---------------------------
(***************************************************************************)
(* Proofs about the page, for any number of submissions, names and         *)
(* passwords.  TypeOK is not inductive: that a hash has a name in it needs *)
(* realUsername to be set while a submission runs, that a body has a       *)
(* cookie needs one to have arrived.  Staged adds what each stage has      *)
(* filled; on top of it, Own says that the second hash is salted with the  *)
(* submission's session, and Undisturbed what a submission that is alone   *)
(* finds in the page's globals at each stage.                              *)
(***************************************************************************)
EXTENDS SignupForm, TLAPS

JobType ==
    [pc : {"new", "ended"} \cup Stages,
     name : ValidName \cup {None}, password : ValidPassword \cup {None},
     hash : Hashes \cup {None}, posted : Bodies \cup {None},
     alone : BOOLEAN]

\* What the stage of s has filled.
Filled(s) ==
    /\ InFlight(s) => realUsername \in Name /\ job[s].name \in ValidName
    /\ job[s].pc \in {"sessionText", "hash1", "hash2"} => cookie \in Submission
    /\ job[s].pc = "hash1" => job[s].hash \in Hash1s
    /\ job[s].pc = "hash2" => job[s].hash \in Hashes

Staged == TypeOK /\ \A s \in Submission : Filled(s)

LEMMA StagedInit == Init => Staged
<1> SUFFICES ASSUME Init PROVE Staged
  OBVIOUS
<1>1. Fresh \in JobType
  BY DEF Fresh, JobType
<1>2. TypeOK
  BY <1>1, FormAssumption DEF Init, TypeOK, JobType
<1>3. \A s \in Submission : Filled(s)
  BY DEF Init, Filled, InFlight, Stages, Fresh
<1> QED
  BY <1>2, <1>3 DEF Staged

-----------------------------------------------------------------------------
(* What the steps build                                                    *)

\* The first hash of a submission is a Hash1.
LEMMA Hash1Type ==
  ASSUME NEW salt \in Salts, NEW of \in Password, argon2saltsalt' = salt,
         realUsername \in Name
  PROVE  Hashed(salt, of) \in Hash1s /\ Hashed(salt, of) \in Hashes
BY DEF Hashed, Hash1s, Hashes

\* A hash of a Hash1 is a hash.
LEMMA Hash2Type ==
  ASSUME NEW salt \in Salts, NEW of \in Hash1s, argon2saltsalt' = salt,
         realUsername \in Name
  PROVE  Hashed(salt, of) \in Hashes
BY DEF Hashed, Hashes

\* The salt of the first hash is a salt.
LEMMA Salt1Type ==
  ASSUME NEW s \in Submission, job[s].name \in Name
  PROVE  Salt1(s) \in Salts
BY DEF Salt1, Salts

\* A body is built from a name, a session, a hash and a cookie.
LEMMA BodyType ==
  ASSUME NEW s \in Submission, realUsername \in Name, cookie \in Submission,
         job[s].hash \in Hashes
  PROVE  Body(s) \in Bodies
BY DEF Body, Bodies

\* A step that moves one submission to a stage, and leaves the two globals
\* Filled reads alone or makes the cookie a submission, keeps Filled, when the
\* stage reached has what it needs.
LEMMA Moved ==
  ASSUME Staged, NEW s \in Submission, NEW j \in JobType,
         job' = [job EXCEPT ![s] = j],
         j.pc \in Stages => realUsername \in Name /\ j.name \in ValidName,
         j.pc \in {"sessionText", "hash1", "hash2"} => cookie' \in Submission,
         j.pc = "hash1" => j.hash \in Hash1s,
         j.pc = "hash2" => j.hash \in Hashes,
         realUsername' = realUsername,
         cookie' = cookie \/ cookie' \in Submission
  PROVE  job' \in [Submission -> JobType] /\ \A t \in Submission : Filled(t)'
<1>1. job \in [Submission -> JobType] /\ \A t \in Submission : Filled(t)
  BY DEF Staged, TypeOK, JobType
<1>2. job' \in [Submission -> JobType] /\ job'[s] = j
  BY <1>1
<1>3. \A t \in Submission : t # s => job'[t] = job[t]
  BY <1>1
<1>4. Filled(s)'
  BY <1>2 DEF Filled, InFlight
<1>5. ASSUME NEW t \in Submission, t # s PROVE Filled(t)'
  BY <1>1, <1>3, <1>5 DEF Filled, InFlight
<1> QED
  BY <1>2, <1>4, <1>5

\* Ending a submission, in whatever words, keeps the type of the records.
LEMMA Ended ==
  ASSUME Staged, NEW s \in Submission, NEW stage \in {"ended"} \cup Stages,
         stage \in Stages => InFlight(s),
         stage = "sessionText" => cookie' \in Submission,
         stage \notin {"hash1", "hash2"},
         GoOn(s, stage), realUsername' = realUsername,
         cookie' = cookie \/ cookie' \in Submission
  PROVE  job' \in [Submission -> JobType] /\ \A t \in Submission : Filled(t)'
<1> DEFINE j == [job[s] EXCEPT !.pc = stage]
<1>1. job[s] \in JobType /\ Filled(s) /\ job \in [Submission -> JobType]
  BY DEF Staged, TypeOK, JobType
<1>2. j \in JobType /\ j.pc = stage /\ j.name = job[s].name
  BY <1>1 DEF JobType
<1>3. job' = [job EXCEPT ![s] = j]
  BY <1>1 DEF GoOn
<1>4. j.pc \in Stages => realUsername \in Name /\ j.name \in ValidName
  BY <1>1, <1>2 DEF Filled
<1> HIDE DEF j
<1> QED
  BY <1>2, <1>3, <1>4, Moved

-----------------------------------------------------------------------------
(* Type correctness                                                        *)

\* The globals of TypeOK, without the records.
PageType ==
    /\ funcName \in {"signup", "login"}
    /\ identity \in Name
    /\ realPassword \in Password
    /\ realUsername \in Name \cup {None}
    /\ argon2saltsalt \in Salts \cup {None}
    /\ wasm \in {"loading", "loaded", "failed"}
    /\ cookie \in Submission \cup {None}
    /\ disabled \in BOOLEAN
    /\ message \in {"", "invalid", "session", "tries", "status", "success"}
    /\ redirecting \in BOOLEAN
    /\ page \in {"open", "left"}

LEMMA TypeParts == TypeOK <=> PageType /\ job \in [Submission -> JobType]
BY DEF TypeOK, PageType, JobType

LEMMA TypePartsNext ==
  PageType' /\ job' \in [Submission -> JobType] => TypeOK'
BY DEF TypeOK, PageType, JobType

\* Only `alone` of a record is touched when others disturb it.
LEMMA Disturbed ==
  ASSUME job \in [Submission -> JobType], NEW S
  PROVE  /\ Disturb(S) \in [Submission -> JobType]
         /\ \A t \in Submission :
              /\ Disturb(S)[t].pc = job[t].pc
              /\ Disturb(S)[t].name = job[t].name
              /\ Disturb(S)[t].password = job[t].password
              /\ Disturb(S)[t].hash = job[t].hash
              /\ Disturb(S)[t].posted = job[t].posted
              /\ Disturb(S)[t].alone =>
                   job[t].alone /\ (InFlight(t) => t \in S)
<1> SUFFICES ASSUME NEW t \in Submission
             PROVE  /\ Disturb(S)[t] \in JobType
                    /\ Disturb(S)[t].pc = job[t].pc
                    /\ Disturb(S)[t].name = job[t].name
                    /\ Disturb(S)[t].password = job[t].password
                    /\ Disturb(S)[t].hash = job[t].hash
                    /\ Disturb(S)[t].posted = job[t].posted
                    /\ Disturb(S)[t].alone =>
                         job[t].alone /\ (InFlight(t) => t \in S)
  BY DEF Disturb
<1>1. job[t] \in JobType
  OBVIOUS
<1>2. Disturb(S)[t] = IF InFlight(t) /\ t \notin S
                        THEN [job[t] EXCEPT !.alone = FALSE] ELSE job[t]
  BY DEF Disturb
<1>3. CASE InFlight(t) /\ t \notin S
  BY <1>1, <1>2, <1>3 DEF JobType
<1>4. CASE ~(InFlight(t) /\ t \notin S)
  BY <1>1, <1>2, <1>4 DEF JobType
<1> QED
  BY <1>3, <1>4

\* The record Submit makes for a name and a password it accepts.
LEMMA StartedType ==
  ASSUME Accepts(identity, realPassword)
  PROVE  Started \in JobType
<1>1. Quiet \in BOOLEAN
  BY DEF Quiet
<1>2. identity \in ValidName /\ realPassword \in ValidPassword
  BY DEF Accepts
<1> QED
  BY <1>1, <1>2 DEF Started, JobType, Stages

LEMMA SubmitType ==
  ASSUME Staged, NEW s \in Submission, Submit(s)
  PROVE  Staged'
<1>1. PageType /\ job \in [Submission -> JobType]
  BY TypeParts DEF Staged
<1>2. /\ Disturb({s}) \in [Submission -> JobType]
      /\ \A t \in Submission : /\ Disturb({s})[t].pc = job[t].pc
                                /\ Disturb({s})[t].name = job[t].name
                                /\ Disturb({s})[t].hash = job[t].hash
  BY <1>1, Disturbed
<1>3. PageType'
  BY <1>1, FormAssumption DEF Submit, PageType, Open, Accepts
<1>4. PICK j : job' = [Disturb({s}) EXCEPT ![s] = j] /\ j \in JobType
               /\ (j.pc = "session" => j.name \in ValidName)
               /\ j.pc \in {"session", "ended"}
  <2>1. CASE Accepts(identity, realPassword)
    <3>1. job' = [Disturb({s}) EXCEPT ![s] = Started]
      BY <2>1 DEF Submit
    <3>2. Started.name \in ValidName /\ Started.pc = "session"
      BY <2>1 DEF Started, Accepts
    <3> QED
      BY <2>1, <3>1, <3>2, StartedType
  <2>2. CASE ~Accepts(identity, realPassword)
    <3> DEFINE j == [Disturb({s})[s] EXCEPT !.pc = "ended"]
    <3>1. job' = [Disturb({s}) EXCEPT ![s] = j]
      BY <1>2, <2>2 DEF Submit
    <3>2. j \in JobType /\ j.pc = "ended"
      BY <1>2 DEF JobType
    <3> QED
      BY <3>1, <3>2
  <2> QED
    BY <2>1, <2>2
<1>5. job' \in [Submission -> JobType]
  BY <1>2, <1>4
<1>6. realUsername' \in Name /\ cookie' = cookie
  BY <1>1 DEF Submit, PageType
<1>7. Filled(s)'
  BY <1>2, <1>4, <1>6 DEF Filled, InFlight, Stages
<1>8. ASSUME NEW t \in Submission, t # s PROVE Filled(t)'
  <2>1. job'[t] = Disturb({s})[t]
    BY <1>2, <1>4, <1>8
  <2>2. Filled(t)
    BY DEF Staged
  <2> QED
    BY <1>2, <1>6, <2>1, <2>2 DEF Filled, InFlight
<1> QED
  BY <1>3, <1>5, <1>7, <1>8, TypePartsNext DEF Staged

LEMMA TypePasswordType ==
  ASSUME Staged, TypePassword
  PROVE  Staged'
<1>1. PageType /\ job \in [Submission -> JobType]
  BY TypeParts DEF Staged
<1>2. PageType'
  BY <1>1 DEF TypePassword, SetPassword, PageType, Open, button
<1>3. job' = Disturb({}) /\ realUsername' = realUsername /\ cookie' = cookie
  BY DEF TypePassword, SetPassword
<1>4. /\ job' \in [Submission -> JobType]
      /\ \A t \in Submission : /\ job'[t].pc = job[t].pc
                                /\ job'[t].name = job[t].name
                                /\ job'[t].hash = job[t].hash
  BY <1>1, <1>3, Disturbed
<1>5. ASSUME NEW t \in Submission PROVE Filled(t)'
  <2>1. Filled(t)
    BY DEF Staged
  <2> QED
    BY <1>3, <1>4, <2>1 DEF Filled, InFlight
<1> QED
  BY <1>2, <1>4, <1>5, TypePartsNext DEF Staged

\* An Argon2 computation of s keeps the types, whichever way it goes.
LEMMA Argon2Type ==
  ASSUME Staged, NEW s \in Submission, NEW salt \in Salts, NEW of,
         NEW stage \in {"hash1", "hash2"}, InFlight(s),
         Argon2(s, salt, of, stage), realUsername' = realUsername,
         cookie' = cookie, cookie \in Submission,
         stage = "hash1" => of \in Password,
         stage = "hash2" => of \in Hash1s
  PROVE  /\ job' \in [Submission -> JobType]
         /\ \A t \in Submission : Filled(t)'
         /\ argon2saltsalt' \in Salts
<1>1. job[s] \in JobType /\ Filled(s) /\ job \in [Submission -> JobType]
  BY TypeParts DEF Staged
<1>2. realUsername \in Name /\ job[s].name \in ValidName
  BY <1>1 DEF Filled
<1>3. argon2saltsalt' = salt
  BY DEF Argon2
<1>4. CASE End(s, "status")
  <2>1. GoOn(s, "ended")
    BY <1>4 DEF End
  <2>2. "ended" \notin Stages
    BY DEF Stages
  <2> QED
    BY <1>3, <2>1, <2>2, Ended
<1>5. CASE job' = [job EXCEPT ![s].pc = stage, ![s].hash = Hashed(salt, of)]
  <2> DEFINE h == Hashed(salt, of)
             j == [job[s] EXCEPT !.pc = stage, !.hash = h]
  <2>1. h \in Hashes /\ (stage = "hash1" => h \in Hash1s)
    BY <1>2, <1>3, Hash1Type, Hash2Type
  <2>2. job' = [job EXCEPT ![s] = j]
    BY <1>1, <1>5
  <2>3. stage \in Stages
    BY DEF Stages
  <2> HIDE DEF h
  <2>4. /\ j \in JobType
        /\ j.pc = stage /\ j.hash = h /\ j.name = job[s].name
    BY <1>1, <2>1, <2>3 DEF JobType
  <2> HIDE DEF j
  <2> QED
    BY <1>2, <1>3, <2>1, <2>2, <2>4, Moved
<1> QED
  BY <1>4, <1>5 DEF Argon2

\* Posting a hash keeps the types.
LEMMA PostType ==
  ASSUME Staged, NEW s \in Submission, InFlight(s), Post(s),
         realUsername' = realUsername, cookie' = cookie, cookie \in Submission,
         job[s].hash \in Hashes
  PROVE  job' \in [Submission -> JobType] /\ \A t \in Submission : Filled(t)'
<1>1. job[s] \in JobType /\ Filled(s) /\ job \in [Submission -> JobType]
  BY TypeParts DEF Staged
<1>2. realUsername \in Name /\ job[s].name \in ValidName
  BY <1>1 DEF Filled
<1> DEFINE b == Body(s)
           j == [job[s] EXCEPT !.pc = "post", !.posted = b]
<1>3. b \in Bodies
  BY <1>2, BodyType
<1>4. job' = [job EXCEPT ![s] = j]
  BY <1>1 DEF Post
<1>5. "post" \in Stages
  BY DEF Stages
<1> HIDE DEF b
<1>6. j \in JobType /\ j.pc = "post" /\ j.name = job[s].name
  BY <1>1, <1>3, <1>5 DEF JobType
<1> HIDE DEF j
<1> QED
  BY <1>2, <1>4, <1>6, Moved

\* A step of a submission whose job moved, typed, and whose globals kept
\* their types keeps Staged.
LEMMA ResumeType ==
  ASSUME Staged, NEW s \in Submission, Resume(s)
  PROVE  Staged'
<1>1. /\ PageType /\ job \in [Submission -> JobType]
      /\ job[s] \in JobType /\ Filled(s)
  BY TypeParts DEF Staged
<1>2. "ended" \notin Stages
  BY DEF Stages
<1> DEFINE Kept == job' \in [Submission -> JobType]
                   /\ \A t \in Submission : Filled(t)'
<1>3. CASE SessionReply(s)
  <2>1. InFlight(s) /\ realUsername' = realUsername
    BY <1>3 DEF SessionReply, InFlight, Stages, globals
  <2>2. PageType'
    BY <1>1, <1>3
    DEF SessionReply, PageType, Open, Released, End, button, globals
  <2>3. Kept
    <3>1. CASE GoOn(s, "sessionText") /\ cookie' = s
      <4>1. "sessionText" \in Stages
        BY DEF Stages
      <4> QED
        BY <2>1, <3>1, <4>1, Ended
    <3>2. CASE GoOn(s, "refusedText") /\ UNCHANGED cookie
      <4>1. "refusedText" \in Stages
        BY DEF Stages
      <4> QED
        BY <2>1, <3>2, <4>1, Ended
    <3>3. CASE GoOn(s, "ended") /\ UNCHANGED cookie
      BY <1>2, <2>1, <3>3, Ended
    <3> QED
      BY <1>3, <3>1, <3>2, <3>3 DEF SessionReply, End
  <2> QED
    BY <2>2, <2>3, TypePartsNext DEF Staged
<1>4. CASE RefusedText(s)
  <2>1. GoOn(s, "ended") /\ realUsername' = realUsername /\ cookie' = cookie
    BY <1>4 DEF RefusedText, End, globals
  <2>2. PageType'
    BY <1>1, <1>4 DEF RefusedText, PageType, Open, Released, End, globals
  <2> QED
    BY <1>2, <2>1, <2>2, Ended, TypePartsNext DEF Staged
<1>5. CASE SessionText(s)
  <2>1. InFlight(s) /\ realUsername' = realUsername /\ cookie' = cookie
        /\ cookie \in Submission
    BY <1>1, <1>5 DEF SessionText, InFlight, Stages, Filled
  <2>2. Salt1(s) \in Salts /\ realPassword \in Password
    BY <1>1, <2>1, FormAssumption, Salt1Type DEF Filled, PageType
  <2>3. Kept /\ argon2saltsalt' \in Salts \cup {None}
    <3>1. CASE Argon2(s, Salt1(s), realPassword, "hash1")
      BY <2>1, <2>2, <3>1, Argon2Type
    <3>2. CASE GoOn(s, "ended") /\ argon2saltsalt' \in {None, argon2saltsalt}
      BY <1>1, <1>2, <2>1, <3>2, Ended DEF PageType
    <3> QED
      BY <1>5, <3>1, <3>2 DEF SessionText, NullSalt, End
  <2>4. PageType'
    BY <1>1, <1>5, <2>3
    DEF SessionText, NullSalt, PageType, Open, Argon2, Released, End, button
  <2> QED
    BY <2>3, <2>4, TypePartsNext DEF Staged
<1>6. CASE Hash1(s)
  <2>1. InFlight(s) /\ realUsername' = realUsername /\ cookie' = cookie
        /\ cookie \in Submission /\ job[s].hash \in Hash1s
    BY <1>1, <1>6 DEF Hash1, InFlight, Stages, Filled
  <2>2. s \in Salts /\ job[s].hash \in Hashes
    BY <2>1 DEF Salts, Hashes
  <2>3. Kept /\ argon2saltsalt' \in Salts \cup {None}
    <3>1. CASE Argon2(s, s, job[s].hash, "hash2")
      BY <2>1, <2>2, <3>1, Argon2Type
    <3>2. CASE GoOn(s, "ended") /\ argon2saltsalt' \in {None, argon2saltsalt}
      BY <1>1, <1>2, <2>1, <3>2, Ended DEF PageType
    <3>3. CASE Post(s) /\ UNCHANGED argon2saltsalt
      BY <1>1, <2>1, <2>2, <3>3, PostType DEF PageType
    <3> QED
      BY <1>6, <3>1, <3>2, <3>3 DEF Hash1, NullSalt, End
  <2>4. PageType'
    BY <1>1, <1>6, <2>3
    DEF Hash1, NullSalt, PageType, Open, Argon2, Post, Released, End, button
  <2> QED
    BY <2>3, <2>4, TypePartsNext DEF Staged
<1>7. CASE Hash2(s)
  <2>1. InFlight(s) /\ realUsername' = realUsername /\ cookie' = cookie
        /\ cookie \in Submission /\ job[s].hash \in Hashes
    BY <1>1, <1>7 DEF Hash2, InFlight, Stages, Filled, globals
  <2>2. Kept
    <3>1. CASE Post(s)
      BY <2>1, <3>1, PostType
    <3>2. CASE GoOn(s, "ended")
      BY <1>2, <2>1, <3>2, Ended
    <3> QED
      BY <1>7, <3>1, <3>2 DEF Hash2, End
  <2>3. PageType'
    BY <1>1, <1>7
    DEF Hash2, PageType, Open, Post, Released, End, button, globals
  <2> QED
    BY <2>2, <2>3, TypePartsNext DEF Staged
<1>8. CASE PostReply(s)
  <2>1. InFlight(s) /\ realUsername' = realUsername /\ cookie' = cookie
    BY <1>8 DEF PostReply, InFlight, Stages, globals
  <2>2. PageType'
    BY <1>1, <1>8
    DEF PostReply, PageType, Open, Succeed, Released, End, button, globals
  <2>3. GoOn(s, "ended") \/ GoOn(s, "errorText")
    BY <1>8 DEF PostReply, Succeed, End
  <2>4. "errorText" \in Stages
    BY DEF Stages
  <2> QED
    BY <1>2, <2>1, <2>2, <2>3, <2>4, Ended, TypePartsNext DEF Staged
<1>9. CASE ErrorText(s)
  <2>1. GoOn(s, "ended") /\ realUsername' = realUsername /\ cookie' = cookie
    BY <1>9 DEF ErrorText, End, globals
  <2>2. PageType'
    BY <1>1, <1>9 DEF ErrorText, PageType, Open, Released, End, globals
  <2> QED
    BY <1>2, <2>1, <2>2, Ended, TypePartsNext DEF Staged
<1> QED
  BY <1>3, <1>4, <1>5, <1>6, <1>7, <1>8, <1>9 DEF Resume

\* Steps that touch neither the records nor what Filled reads.
LEMMA StillType ==
  ASSUME Staged, job' = job, realUsername' = realUsername, cookie' = cookie,
         PageType'
  PROVE  Staged'
<1>1. job \in [Submission -> JobType] /\ \A t \in Submission : Filled(t)
  BY TypeParts DEF Staged
<1>2. \A t \in Submission : Filled(t)'
  BY <1>1 DEF Filled, InFlight
<1> QED
  BY <1>1, <1>2, TypePartsNext DEF Staged

LEMMA StagedNext == Staged /\ [Next]_vars => Staged'
<1> SUFFICES ASSUME Staged, [Next]_vars PROVE Staged'
  OBVIOUS
<1>1. PageType
  BY TypeParts DEF Staged
<1>2. CASE TypeName
  BY <1>1, <1>2, StillType DEF TypeName, PageType, Open, globals, button
<1>3. CASE TypePassword
  BY <1>3, TypePasswordType
<1>4. CASE ChangeLanguage
  BY <1>1, <1>4, StillType DEF ChangeLanguage, PageType, Open, globals
<1>5. CASE LoadArgon2
  BY <1>1, <1>5, StillType DEF LoadArgon2, PageType, Open, globals, button
<1>6. CASE Redirect
  BY <1>1, <1>6, StillType DEF Redirect, PageType, globals, button
<1>7. ASSUME NEW s \in Submission, Click(s) \/ Enter(s) \/ Resume(s)
      PROVE  Staged'
  BY <1>7, SubmitType, ResumeType DEF Click, Enter
<1>8. CASE UNCHANGED vars
  BY <1>1, <1>8, StillType DEF vars, PageType, globals, button
<1> QED
  BY <1>2, <1>3, <1>4, <1>5, <1>6, <1>7, <1>8 DEF Next

\* The page's globals and the records of its submissions keep their types
\* (form_submit.js, calc_passHash.js).
THEOREM TypeCorrect == Spec => []TypeOK
<1>1. Staged => TypeOK
  BY DEF Staged
<1> QED
  BY <1>1, StagedInit, StagedNext, PTL DEF Spec

-----------------------------------------------------------------------------
(* What is posted                                                          *)

\* The first hash of a submission of n and p in session s.
First(s, n, p) ==
    IF funcName = "signup"
      THEN Answer(s, n, p)
      ELSE [salt |-> n, input |-> n, name |-> n, of |-> p]

SaltedBy(h, s) == h.salt = s /\ h.input = s

Own(s) ==
    /\ job[s].pc = "hash1" /\ funcName = "signup" => SaltedBy(job[s].hash, s)
    /\ job[s].pc = "hash2" => funcName = "login" /\ SaltedBy(job[s].hash, s)
    /\ job[s].posted # None =>
         job[s].posted.salt = s /\ SaltedBy(job[s].posted.hash, s)

\* The body a submission should post.
Right(s) == [name |-> job[s].name, salt |-> s, cookie |-> s,
             hash |-> Answer(s, job[s].name, job[s].password)]

Undisturbed(s) ==
    /\ InFlight(s) =>
         /\ realUsername = job[s].name
         /\ realPassword = job[s].password
         /\ \A t \in Submission : InFlight(t) => t = s
    /\ job[s].pc \in {"sessionText", "hash1", "hash2"} => cookie = s
    /\ job[s].pc = "hash1" =>
         job[s].hash = First(s, job[s].name, job[s].password)
    /\ job[s].pc = "hash2" =>
         job[s].hash = Answer(s, job[s].name, job[s].password)
    /\ job[s].posted # None => job[s].posted = Right(s)

Sound(s) == Own(s) /\ (job[s].alone => Undisturbed(s))

PostInv == Staged /\ \A s \in Submission : Sound(s)

LEMMA PostInit == Init => PostInv
<1> SUFFICES ASSUME Init, NEW s \in Submission PROVE Sound(s)
  BY StagedInit DEF PostInv
<1>1. job[s].pc = "new" /\ job[s].posted = None
  BY DEF Init, Fresh
<1> QED
  BY <1>1 DEF Sound, Own, Undisturbed, InFlight, Stages

\* A step of one submission leaves the others sound: those that are alone are
\* not in flight.
LEMMA OthersSound ==
  ASSUME PostInv, NEW s \in Submission, InFlight(s), NEW j,
         job' = [job EXCEPT ![s] = j], funcName' = funcName,
         NEW t \in Submission, t # s
  PROVE  Sound(t)'
<1>1. job'[t] = job[t] /\ Sound(t)
  BY DEF PostInv, Staged, TypeOK
<1>2. job[t].alone => ~InFlight(t)
  BY <1>1 DEF Sound, Undisturbed
<1>3. Own(t)'
  BY <1>1 DEF Sound, Own
<1>4. Right(t)' = Right(t)
  BY <1>1 DEF Right, Answer
<1>5. ASSUME job[t].alone PROVE Undisturbed(t)'
  <2>1. job[t].pc \notin Stages
    BY <1>2, <1>5 DEF InFlight
  <2>2. job[t].posted # None => job[t].posted = Right(t)
    BY <1>1, <1>5 DEF Sound, Undisturbed
  <2> QED
    BY <1>1, <1>4, <2>1, <2>2 DEF Undisturbed, InFlight, Stages
<1> QED
  BY <1>1, <1>3, <1>5 DEF Sound

\* A submission that goes on to a stage without touching its hash or its body
\* stays sound.
LEMMA GoOnSound ==
  ASSUME PostInv, NEW s \in Submission, InFlight(s), NEW stage, GoOn(s, stage),
         stage \in {"ended", "sessionText", "refusedText", "errorText"},
         stage = "sessionText" => cookie' = s,
         funcName' = funcName, realUsername' = realUsername,
         realPassword' = realPassword
  PROVE  \A t \in Submission : Sound(t)'
<1> DEFINE j == [job[s] EXCEPT !.pc = stage]
<1>1. job \in [Submission -> JobType] /\ job[s] \in JobType
  BY TypeParts DEF PostInv, Staged
<1>2. job' = [job EXCEPT ![s] = j]
  BY <1>1 DEF GoOn
<1>3. /\ job'[s].pc = stage
      /\ job'[s].name = job[s].name /\ job'[s].password = job[s].password
      /\ job'[s].posted = job[s].posted /\ job'[s].alone = job[s].alone
  BY <1>1, <1>2 DEF JobType
<1> HIDE DEF j
<1>4. \A t \in Submission : t # s => job'[t] = job[t]
  BY <1>1, <1>2
<1>5. Sound(s)
  BY DEF PostInv
<1>6. Own(s)'
  BY <1>3, <1>5 DEF Sound, Own
<1>7. Right(s)' = Right(s)
  BY <1>3 DEF Right, Answer
<1>8. ASSUME job[s].alone PROVE Undisturbed(s)'
  <2>1. Undisturbed(s)
    BY <1>5, <1>8 DEF Sound
  <2>2. \A t \in Submission : InFlight(t)' => t = s
    BY <1>4, <2>1 DEF Undisturbed, InFlight
  <2> QED
    BY <1>3, <1>7, <2>1, <2>2 DEF Undisturbed
<1> QED
  BY <1>2, <1>3, <1>6, <1>8, OthersSound DEF Sound

\* The first Argon2 computation, salted with Salt1.
LEMMA FirstHashSound ==
  ASSUME PostInv, NEW s \in Submission, job[s].pc = "sessionText",
         argon2saltsalt' = Salt1(s),
         job' = [job EXCEPT ![s].pc = "hash1",
                            ![s].hash = Hashed(Salt1(s), realPassword)],
         funcName' = funcName, realUsername' = realUsername,
         realPassword' = realPassword, cookie' = cookie
  PROVE  \A t \in Submission : Sound(t)'
<1> DEFINE h == Hashed(Salt1(s), realPassword)
           j == [job[s] EXCEPT !.pc = "hash1", !.hash = h]
<1>1. /\ job \in [Submission -> JobType] /\ job[s] \in JobType
      /\ funcName \in {"signup", "login"}
  BY TypeParts DEF PostInv, Staged, PageType
<1>2. job' = [job EXCEPT ![s] = j]
  BY <1>1
<1>3. h = [salt |-> Salt1(s), input |-> Salt1(s), name |-> realUsername,
           of |-> realPassword]
  BY DEF Hashed
<1> HIDE DEF h
<1>4. /\ job'[s].pc = "hash1" /\ job'[s].hash = h
      /\ job'[s].name = job[s].name /\ job'[s].password = job[s].password
      /\ job'[s].posted = job[s].posted /\ job'[s].alone = job[s].alone
  <2>1. /\ j.pc = "hash1" /\ j.hash = h
        /\ j.name = job[s].name /\ j.password = job[s].password
        /\ j.posted = job[s].posted /\ j.alone = job[s].alone
    BY <1>1 DEF JobType
  <2> HIDE DEF j
  <2>2. job'[s] = j
    BY <1>1, <1>2
  <2> QED
    BY <2>1, <2>2
<1> HIDE DEF j
<1>5. \A t \in Submission : t # s => job'[t] = job[t]
  BY <1>1, <1>2
<1>6. Sound(s) /\ InFlight(s)
  BY DEF PostInv, InFlight, Stages
<1>7. Own(s)'
  <2>1. funcName = "signup" => SaltedBy(h, s)
    BY <1>3 DEF SaltedBy, Salt1
  <2> QED
    BY <1>4, <1>6, <2>1 DEF Sound, Own, SaltedBy
<1>8. Right(s)' = Right(s)
  BY <1>4 DEF Right, Answer
<1>9. ASSUME job[s].alone PROVE Undisturbed(s)'
  <2>1. Undisturbed(s)
    BY <1>6, <1>9 DEF Sound
  <2>2. \A t \in Submission : InFlight(t)' => t = s
    BY <1>5, <1>6, <2>1 DEF Undisturbed, InFlight
  <2>3. h = First(s, job[s].name, job[s].password)
    BY <1>3, <1>6, <2>1 DEF Undisturbed, First, Answer, Salt1
  <2>4. First(s, job[s].name, job[s].password)' =
          First(s, job[s].name, job[s].password)
    BY <1>4 DEF First, Answer
  <2> QED
    BY <1>4, <1>6, <1>8, <2>1, <2>2, <2>3, <2>4 DEF Undisturbed
<1> QED
  BY <1>2, <1>4, <1>6, <1>7, <1>9, OthersSound DEF Sound

\* The second Argon2 computation of a login, salted with the session.
LEMMA SecondHashSound ==
  ASSUME PostInv, NEW s \in Submission, job[s].pc = "hash1",
         funcName = "login", argon2saltsalt' = s,
         job' = [job EXCEPT ![s].pc = "hash2",
                            ![s].hash = Hashed(s, job[s].hash)],
         funcName' = funcName, realUsername' = realUsername,
         realPassword' = realPassword, cookie' = cookie
  PROVE  \A t \in Submission : Sound(t)'
<1> DEFINE h == Hashed(s, job[s].hash)
           j == [job[s] EXCEPT !.pc = "hash2", !.hash = h]
<1>1. job \in [Submission -> JobType] /\ job[s] \in JobType
  BY TypeParts DEF PostInv, Staged
<1>2. job' = [job EXCEPT ![s] = j]
  BY <1>1
<1>3. h = [salt |-> s, input |-> s, name |-> realUsername,
           of |-> job[s].hash]
  BY DEF Hashed
<1> HIDE DEF h
<1>4. /\ job'[s].pc = "hash2" /\ job'[s].hash = h
      /\ job'[s].name = job[s].name /\ job'[s].password = job[s].password
      /\ job'[s].posted = job[s].posted /\ job'[s].alone = job[s].alone
  <2>1. /\ j.pc = "hash2" /\ j.hash = h
        /\ j.name = job[s].name /\ j.password = job[s].password
        /\ j.posted = job[s].posted /\ j.alone = job[s].alone
    BY <1>1 DEF JobType
  <2> HIDE DEF j
  <2>2. job'[s] = j
    BY <1>1, <1>2
  <2> QED
    BY <2>1, <2>2
<1> HIDE DEF j
<1>5. \A t \in Submission : t # s => job'[t] = job[t]
  BY <1>1, <1>2
<1>6. Sound(s) /\ InFlight(s)
  BY DEF PostInv, InFlight, Stages
<1>7. Own(s)'
  <2>1. SaltedBy(h, s)
    BY <1>3 DEF SaltedBy
  <2> QED
    BY <1>4, <1>6, <2>1 DEF Sound, Own, SaltedBy
<1>8. /\ Right(s)' = Right(s)
      /\ Answer(s, job[s].name, job[s].password)' =
           Answer(s, job[s].name, job[s].password)
  BY <1>4 DEF Right, Answer
<1>9. ASSUME job[s].alone PROVE Undisturbed(s)'
  <2>1. Undisturbed(s)
    BY <1>6, <1>9 DEF Sound
  <2>2. \A t \in Submission : InFlight(t)' => t = s
    BY <1>5, <1>6, <2>1 DEF Undisturbed, InFlight
  <2>3. h = Answer(s, job[s].name, job[s].password)
    BY <1>3, <1>6, <2>1 DEF Undisturbed, First, Answer
  <2> QED
    BY <1>4, <1>6, <1>8, <2>1, <2>2, <2>3 DEF Undisturbed
<1> QED
  BY <1>2, <1>4, <1>6, <1>7, <1>9, OthersSound DEF Sound

\* Posting the last hash: the first of a signup, the second of a login.
LEMMA PostSound ==
  ASSUME PostInv, NEW s \in Submission, Post(s),
         \/ job[s].pc = "hash1" /\ funcName = "signup"
         \/ job[s].pc = "hash2",
         funcName' = funcName, realUsername' = realUsername,
         realPassword' = realPassword, cookie' = cookie
  PROVE  \A t \in Submission : Sound(t)'
<1> DEFINE b == Body(s)
           j == [job[s] EXCEPT !.pc = "post", !.posted = b]
<1>1. job \in [Submission -> JobType] /\ job[s] \in JobType
  BY TypeParts DEF PostInv, Staged
<1>2. job' = [job EXCEPT ![s] = j]
  BY <1>1 DEF Post
<1>3. b = [name |-> realUsername, salt |-> s, hash |-> job[s].hash,
           cookie |-> cookie]
  BY DEF Body
<1> HIDE DEF b
<1>4. /\ job'[s].pc = "post" /\ job'[s].posted = b
      /\ job'[s].name = job[s].name /\ job'[s].password = job[s].password
      /\ job'[s].alone = job[s].alone
  BY <1>1, <1>2 DEF JobType
<1> HIDE DEF j
<1>5. \A t \in Submission : t # s => job'[t] = job[t]
  BY <1>1, <1>2
<1>6. Sound(s) /\ InFlight(s)
  BY DEF PostInv, InFlight, Stages
<1>7. Own(s)'
  <2>1. SaltedBy(b.hash, s) /\ b.salt = s
    BY <1>3, <1>6 DEF Sound, Own
  <2> QED
    BY <1>4, <2>1 DEF Own, SaltedBy
<1>8. Right(s)' = Right(s)
  BY <1>4 DEF Right, Answer
<1>9. ASSUME job[s].alone PROVE Undisturbed(s)'
  <2>1. Undisturbed(s)
    BY <1>6, <1>9 DEF Sound
  <2>2. \A t \in Submission : InFlight(t)' => t = s
    BY <1>5, <1>6, <2>1 DEF Undisturbed, InFlight
  <2>3. b = Right(s)
    BY <1>3, <1>6, <2>1 DEF Undisturbed, First, Right
  <2> QED
    BY <1>4, <1>6, <1>8, <2>1, <2>2, <2>3 DEF Undisturbed
<1> QED
  BY <1>2, <1>4, <1>6, <1>7, <1>9, OthersSound DEF Sound

LEMMA ResumeSound ==
  ASSUME PostInv, NEW s \in Submission, Resume(s)
  PROVE  \A t \in Submission : Sound(t)'
<1>1. InFlight(s)
  BY DEF Resume, SessionReply, RefusedText, SessionText, Hash1, Hash2,
         PostReply, ErrorText, InFlight, Stages
<1>2. /\ funcName' = funcName /\ realUsername' = realUsername
      /\ realPassword' = realPassword
  BY DEF Resume, SessionReply, RefusedText, SessionText, Hash1, Hash2,
         PostReply, ErrorText, globals
<1>3. \/ GoOn(s, "ended") \/ GoOn(s, "refusedText") \/ GoOn(s, "errorText")
      \/ GoOn(s, "sessionText") /\ cookie' = s
      => \A t \in Submission : Sound(t)'
  BY <1>1, <1>2, GoOnSound
<1>4. CASE SessionReply(s)
  BY <1>3, <1>4 DEF SessionReply, End
<1>5. CASE RefusedText(s)
  BY <1>3, <1>5 DEF RefusedText, End
<1>6. CASE SessionText(s)
  <2>1. CASE Argon2(s, Salt1(s), realPassword, "hash1")
    BY <1>2, <1>3, <1>6, <2>1, FirstHashSound DEF Argon2, End, SessionText
  <2> QED
    BY <1>3, <1>6, <2>1 DEF SessionText, NullSalt, End
<1>7. CASE Hash1(s)
  <2>1. CASE funcName = "login" /\ Argon2(s, s, job[s].hash, "hash2")
    BY <1>2, <1>3, <1>7, <2>1, SecondHashSound DEF Argon2, End, Hash1
  <2>2. CASE funcName = "signup" /\ Post(s)
    BY <1>2, <1>7, <2>2, PostSound DEF Hash1
  <2> QED
    BY <1>3, <1>7, <2>1, <2>2 DEF Hash1, NullSalt, End
<1>8. CASE Hash2(s)
  <2>1. CASE Post(s)
    BY <1>2, <1>8, <2>1, PostSound DEF Hash2
  <2> QED
    BY <1>3, <1>8, <2>1 DEF Hash2, End
<1>9. CASE PostReply(s)
  BY <1>3, <1>9 DEF PostReply, Succeed, End
<1>10. CASE ErrorText(s)
  BY <1>3, <1>10 DEF ErrorText, End
<1> QED
  BY <1>4, <1>5, <1>6, <1>7, <1>8, <1>9, <1>10 DEF Resume

\* A new submission disturbs those in flight, and is alone only when there are
\* none.
LEMMA SubmitSound ==
  ASSUME PostInv, NEW s \in Submission, Submit(s)
  PROVE  \A t \in Submission : Sound(t)'
<1> DEFINE d == Disturb({s})
<1>1. job \in [Submission -> JobType] /\ job[s].pc = "new"
  BY TypeParts DEF PostInv, Staged, Submit
<1>2. /\ d \in [Submission -> JobType]
      /\ \A t \in Submission :
           /\ d[t].pc = job[t].pc /\ d[t].name = job[t].name
           /\ d[t].password = job[t].password /\ d[t].hash = job[t].hash
           /\ d[t].posted = job[t].posted
           /\ d[t].alone => job[t].alone /\ (InFlight(t) => t = s)
  BY <1>1, Disturbed
<1> HIDE DEF d
<1>3. PICK j : job' = [d EXCEPT ![s] = j] /\
               \/ j = Started
               \/ j = [d[s] EXCEPT !.pc = "ended"]
  BY <1>1, <1>2 DEF Submit, d
<1>4. \A t \in Submission : t # s => job'[t] = d[t]
  BY <1>2, <1>3
<1>5. job'[s] = j /\ funcName' = funcName /\ realPassword' = realPassword
      /\ realUsername' = identity
  BY <1>2, <1>3 DEF Submit
<1>6. ASSUME NEW t \in Submission, t # s PROVE Sound(t)'
  <2>1. Sound(t) /\ job'[t] = d[t]
    BY <1>4, <1>6 DEF PostInv
  <2>2. Own(t)'
    BY <1>2, <1>5, <2>1 DEF Sound, Own, SaltedBy
  <2>3. ASSUME job'[t].alone PROVE Undisturbed(t)'
    <3>1. job[t].alone /\ ~InFlight(t) /\ Undisturbed(t)
      BY <1>2, <1>6, <2>1, <2>3 DEF Sound
    <3>2. Right(t)' = Right(t)
      BY <1>2, <1>5, <2>1 DEF Right, Answer
    <3> QED
      BY <1>2, <2>1, <3>1, <3>2 DEF Undisturbed, InFlight, Stages
  <2> QED
    BY <2>2, <2>3 DEF Sound
<1>7. Sound(s)'
  <2>1. CASE j = Started
    <3>1. /\ j.pc = "session" /\ j.posted = None
          /\ j.name = identity /\ j.password = realPassword
          /\ j.alone = Quiet
      BY <2>1 DEF Started
    <3>2. Own(s)'
      BY <1>5, <3>1 DEF Own
    <3>3. ASSUME j.alone PROVE Undisturbed(s)'
      <4>1. \A t \in Submission : ~InFlight(t)
        BY <3>1, <3>3 DEF Quiet
      <4>2. \A t \in Submission : InFlight(t)' => t = s
        BY <1>2, <1>4, <4>1 DEF InFlight
      <4> QED
        BY <1>5, <3>1, <4>2 DEF Undisturbed
    <3> QED
      BY <1>5, <3>2, <3>3 DEF Sound
  <2>2. CASE j = [d[s] EXCEPT !.pc = "ended"]
    <3>1. /\ j.pc = "ended" /\ j.posted = job[s].posted
          /\ j.name = job[s].name /\ j.password = job[s].password
          /\ j.alone => job[s].alone
      BY <1>2, <2>2 DEF JobType
    <3>2. Sound(s)
      BY DEF PostInv
    <3>3. Own(s)'
      BY <1>5, <3>1, <3>2 DEF Sound, Own, SaltedBy
    <3>4. Right(s)' = Right(s)
      BY <1>5, <3>1 DEF Right, Answer
    <3>5. ASSUME j.alone PROVE Undisturbed(s)'
      BY <1>5, <3>1, <3>2, <3>4, <3>5
      DEF Sound, Undisturbed, InFlight, Stages
    <3> QED
      BY <1>5, <3>3, <3>5 DEF Sound
  <2> QED
    BY <1>3, <2>1, <2>2
<1> QED
  BY <1>6, <1>7

LEMMA TypePasswordSound ==
  ASSUME PostInv, TypePassword, NEW t \in Submission
  PROVE  Sound(t)'
<1>1. job \in [Submission -> JobType] /\ Sound(t)
  BY TypeParts DEF PostInv, Staged
<1>2. job' = Disturb({}) /\ funcName' = funcName
  BY DEF TypePassword, SetPassword
<1>3. /\ job'[t].pc = job[t].pc /\ job'[t].name = job[t].name
      /\ job'[t].password = job[t].password /\ job'[t].hash = job[t].hash
      /\ job'[t].posted = job[t].posted
      /\ job'[t].alone => job[t].alone /\ ~InFlight(t)
  BY <1>1, <1>2, Disturbed
<1>4. Own(t)'
  BY <1>1, <1>2, <1>3 DEF Sound, Own, SaltedBy
<1>5. Right(t)' = Right(t)
  BY <1>2, <1>3 DEF Right, Answer
<1>6. ASSUME job'[t].alone PROVE Undisturbed(t)'
  BY <1>1, <1>3, <1>5, <1>6 DEF Sound, Undisturbed, InFlight, Stages
<1> QED
  BY <1>4, <1>6 DEF Sound

\* Steps that leave the records and what they are compared with alone.
LEMMA StillSound ==
  ASSUME PostInv, NEW t \in Submission, job' = job, funcName' = funcName,
         realUsername' = realUsername, realPassword' = realPassword,
         cookie' = cookie
  PROVE  Sound(t)'
<1>1. Sound(t)
  BY DEF PostInv
<1>2. /\ Right(t)' = Right(t)
      /\ First(t, job[t].name, job[t].password)' =
           First(t, job[t].name, job[t].password)
      /\ Answer(t, job[t].name, job[t].password)' =
           Answer(t, job[t].name, job[t].password)
  BY DEF Right, First, Answer
<1> QED
  BY <1>1, <1>2 DEF Sound, Own, Undisturbed, InFlight

LEMMA PostNext == PostInv /\ [Next]_vars => PostInv'
<1> SUFFICES ASSUME PostInv, [Next]_vars, NEW t \in Submission
             PROVE  Sound(t)'
  BY StagedNext DEF PostInv
<1>1. CASE TypeName
  BY <1>1, StillSound DEF TypeName, globals
<1>2. CASE TypePassword
  BY <1>2, TypePasswordSound
<1>3. CASE ChangeLanguage
  BY <1>3, StillSound DEF ChangeLanguage, globals
<1>4. CASE LoadArgon2
  BY <1>4, StillSound DEF LoadArgon2, globals
<1>5. CASE Redirect
  BY <1>5, StillSound DEF Redirect, globals
<1>6. ASSUME NEW s \in Submission, Click(s) \/ Enter(s) \/ Resume(s)
      PROVE  Sound(t)'
  BY <1>6, SubmitSound, ResumeSound DEF Click, Enter
<1>7. CASE UNCHANGED vars
  BY <1>7, StillSound DEF vars, globals
<1> QED
  BY <1>1, <1>2, <1>3, <1>4, <1>5, <1>6, <1>7 DEF Next

\* Whatever runs between the steps of a submission, what it posts is salted
\* with its own session (calc_passHash.js:15-16 and 34-35).
THEOREM OwnSalt == Spec => []SaltIsOwn
<1>1. PostInv => SaltIsOwn
  BY DEF PostInv, Sound, Own, SaltedBy, SaltIsOwn
<1> QED
  BY <1>1, PostInit, PostNext, PTL DEF Spec

\* A submission nobody disturbed posts the name and the password it
\* validated, under its own session's cookie (form_submit.js:6-68).
THEOREM CheckedIsPosted == Spec => []PostsWhatWasChecked
<1>1. PostInv => PostsWhatWasChecked
  BY DEF PostInv, Sound, Undisturbed, Right, PostsWhatWasChecked
<1> QED
  BY <1>1, PostInit, PostNext, PTL DEF Spec

-----------------------------------------------------------------------------
(* How a submission ends                                                   *)

\* A submission that is over has left a message and a way on.
Reported == message' # "" /\ (~disabled' \/ redirecting')

\* The two ways to end one.
LEMMA EndReports ==
  ASSUME NEW s \in Submission, NEW text \in {"tries", "status"}, End(s, text)
  PROVE  Reported
BY DEF End, Released, Reported

LEMMA SucceedReports ==
  ASSUME NEW s \in Submission, Succeed(s)
  PROVE  Reported
BY DEF Succeed, Reported

\* A step of another submission, or of the user, ends none that runs.
LEMMA SubmitEndsNone ==
  ASSUME TypeOK, NEW s \in Submission, NEW t \in Submission, Submit(t), InFlight(s)
  PROVE  job'[s].pc # "ended"
<1>1. job \in [Submission -> JobType] /\ job[t].pc = "new" /\ job[s].pc \in Stages
  BY DEF TypeOK, JobType, Submit, InFlight
<1>2. s # t
  BY <1>1 DEF Stages
<1>3. Disturb({t})[s].pc = job[s].pc
  BY <1>1 DEF Disturb, JobType
<1>4. job'[s] = Disturb({t})[s]
  BY <1>2 DEF Submit, Disturb
<1> QED
  BY <1>1, <1>3, <1>4 DEF Stages

LEMMA EditEndsNone ==
  ASSUME TypeOK, NEW s \in Submission, TypePassword, InFlight(s)
  PROVE  job'[s].pc # "ended"
<1>1. job \in [Submission -> JobType] /\ job[s].pc \in Stages /\ job' = Disturb({})
  BY DEF TypeOK, JobType, InFlight, TypePassword, SetPassword
<1>2. Disturb({})[s].pc = job[s].pc
  BY <1>1 DEF Disturb, JobType
<1> QED
  BY <1>1, <1>2 DEF Stages

LEMMA OthersEndNone ==
  ASSUME TypeOK, NEW s \in Submission, NEW t \in Submission, t # s, Resume(t), InFlight(s)
  PROVE  job'[s].pc # "ended"
<1>1. job'[s] = job[s]
  <2>1. job \in [Submission -> JobType]
    BY DEF TypeOK, JobType
  <2>2. \E j : job' = [job EXCEPT ![t] = j]
    BY <2>1 DEF Resume, SessionReply, RefusedText, SessionText, Hash1, Hash2, PostReply,
       ErrorText, Argon2, NullSalt, Post, Succeed, End, GoOn
  <2> QED
    BY <2>1, <2>2
<1> QED
  BY <1>1 DEF InFlight, Stages

LEMMA ResumeReports ==
  ASSUME TypeOK, NEW s \in Submission, Resume(s), job'[s].pc = "ended"
  PROVE  Reported
<1>1. job \in [Submission -> JobType]
  BY DEF TypeOK, JobType
<1>2. CASE \E text \in {"tries", "status"} : End(s, text)
  BY <1>2, EndReports
<1>3. CASE Succeed(s)
  BY <1>3, SucceedReports
<1>4. ASSUME ~Succeed(s), \A text \in {"tries", "status"} : ~End(s, text)
      PROVE  FALSE
  <2>1. ASSUME NEW stage \in Stages, GoOn(s, stage) PROVE FALSE
    BY <1>1, <2>1 DEF GoOn, Stages, JobType
  <2>2. ASSUME Post(s) PROVE FALSE
    BY <1>1, <2>2 DEF Post, JobType
  <2>3. ASSUME NEW salt, NEW of, NEW stage \in Stages, Argon2(s, salt, of, stage) PROVE FALSE
    BY <1>1, <1>4, <2>3 DEF Argon2, Stages, JobType
  <2>4. ~NullSalt(s)
    BY <1>4 DEF NullSalt
  <2>5. ~SessionReply(s) /\ ~RefusedText(s) /\ ~PostReply(s) /\ ~ErrorText(s)
    BY <1>4, <2>1 DEF SessionReply, RefusedText, PostReply, ErrorText, Stages
  <2>6. ~SessionText(s) /\ ~Hash1(s) /\ ~Hash2(s)
    BY <1>4, <2>2, <2>3, <2>4 DEF SessionText, Hash1, Hash2, Stages
  <2> QED
    BY <2>5, <2>6 DEF Resume
<1> QED
  BY <1>2, <1>3, <1>4

\* Every step that ends a running submission says so, and leaves a button that
\* works or a countdown (form_submit.js:33-80, calc_passHash.js:50-103).
THEOREM EndIsReported == Spec => EndsReported
<1>1. TypeOK /\ [Next]_vars =>
        [\A s \in Submission :
           InFlight(s) /\ job'[s].pc = "ended" =>
             message' # "" /\ (~disabled' \/ redirecting')]_vars
  <2> SUFFICES ASSUME TypeOK, Next, NEW s \in Submission, InFlight(s), job'[s].pc = "ended"
               PROVE  Reported
    BY DEF Reported
  <2>1. job'[s] # job[s]
    BY DEF InFlight, Stages
  <2>2. CASE TypeName \/ ChangeLanguage \/ LoadArgon2 \/ Redirect
    BY <2>1, <2>2 DEF TypeName, ChangeLanguage, LoadArgon2, Redirect
  <2>3. CASE TypePassword
    BY <2>3, EditEndsNone
  <2>4. ASSUME NEW t \in Submission, Click(t) \/ Enter(t) \/ Resume(t) PROVE Reported
    BY <2>4, SubmitEndsNone, OthersEndNone, ResumeReports DEF Click, Enter
  <2> QED
    BY <2>2, <2>3, <2>4 DEF Next
<1> QED
  BY <1>1, TypeCorrect, PTL DEF Spec, EndsReported
=============================================================================
